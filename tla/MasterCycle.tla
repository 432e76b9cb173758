---------------------------- MODULE MasterCycle ----------------------------
(***************************************************************************)
(* The master process: ngx_master_process_cycle with the functions it      *)
(* calls (os/unix/ngx_process_cycle.c), the signal handler and the reaping *)
(* of children (os/unix/ngx_process.c), and the children as the master     *)
(* sees them: they obey commands or not, finish, and die.                  *)
(*                                                                         *)
(* The signals the master knows are blocked except inside sigsuspend, so   *)
(* its state changes only there and in the loop body.  One action is one   *)
(* numbered step of the body.  Unix does not queue signals: those that     *)
(* wait form a set.  A child is named by its pid; the order of the slots   *)
(* of ngx_processes[] is left out.                                         *)
(***************************************************************************)
EXTENDS Integers, FiniteSets, FiniteSetsExt, Functions

CONSTANTS WorkerProcesses,  \* ccf->worker_processes
          Helpers,          \* the cache processes that are configured
          FirstDelay,       \* 50 ms in the code
          KillDelay,        \* 1000 ms in the code
          None, Invalid,    \* ngx_new_binary = 0 and NGX_INVALID_PID
          Commands,         \* the signals the operator sends
          MaxCommands,      \* bound: signals sent by the operator
          MaxFaults         \* bound: children that die by themselves, and failures

ASSUME MasterAssumption ==
    /\ WorkerProcesses \in Nat \ {0}
    /\ Helpers \in {{}, {"manager"}, {"manager", "loader"}}
    /\ FirstDelay \in Nat \ {0} /\ KillDelay \in Nat
    /\ None \notin Nat /\ Invalid \notin Nat /\ None # Invalid
    /\ Commands \subseteq {"TERM", "QUIT", "HUP", "USR1", "USR2", "WINCH"}
    /\ MaxCommands \in Nat /\ MaxFaults \in Nat

VARIABLES pc,           \* the step of the master's loop
          flags,        \* ngx_reap, ngx_terminate, ngx_quit, ... that are set
          pending,      \* signals that wait for sigsuspend
          live, delay, sigio,
          alarm,        \* the interval timer runs
          noaccepting,  \* ngx_noaccepting
          newBinary,    \* ngx_new_binary
          cycle,        \* how often the configuration was read
          table,        \* ngx_processes[], by pid
          proc,         \* the children that exist, zombies included
          born,         \* pids 1 .. born have been used
          commands, deaths, failures

loopVars == <<pc, flags, live, delay, sigio, noaccepting, newBinary, cycle, table>>
bounds   == <<commands, deaths, failures>>
vars     == <<loopVars, pending, alarm, proc, born, bounds>>

Steps == {"top", "suspended", "reap", "dispatch", "restart", "reopen", "binary",
          "noaccept", "exited"}
Flags == {"reap", "terminate", "quit", "reconfigure", "restart", "reopen",
          "change_binary", "noaccept", "sigalrm"}
Kinds == {"worker", "manager", "loader", "binary"}

----------------------------------------------------------------------------
(* ngx_spawn_process: a child and its entry.  The loader is not respawned; *)
(* `just' is just_spawn, set for the children of a new configuration.      *)

Entry(kind, just, cyc) == [kind |-> kind, respawn |-> kind \in {"worker", "manager"},
                           just |-> just, exiting |-> FALSE, exited |-> FALSE, cycle |-> cyc]

Child == [state |-> "running", told |-> {}]

Detached(p) == table[p].kind = "binary"

\* The next n pids.
Fresh(n) == (born + 1) .. (born + n)

\* n workers and the helpers hs.
Kind(i, n, hs) == IF i <= n THEN "worker"
                  ELSE IF i = n + 1 /\ "manager" \in hs THEN "manager" ELSE "loader"

\* ngx_start_worker_processes and ngx_start_cache_manager_processes: n workers
\* and the helpers hs could be forked; nobody looks.
Forked(n, hs) == n + Cardinality(hs)

Entries(n, hs, just, cyc) ==
    [p \in Fresh(Forked(n, hs)) |-> Entry(Kind(p - born, n, hs), just, cyc)]

Start(n, hs) == LET missing == WorkerProcesses + Cardinality(Helpers) - Forked(n, hs)
                IN /\ deaths + failures + missing <= MaxFaults
                   /\ failures' = failures + missing
                   /\ born' = born + Forked(n, hs)

\* f and g together.
With(f, g) == [p \in (DOMAIN f) \cup (DOMAIN g) |-> IF p \in DOMAIN f THEN f[p] ELSE g[p]]

WithChildren(n) == With(proc, [p \in Fresh(n) |-> Child])

Counts == 0 .. WorkerProcesses

Init == LET n == WorkerProcesses + Cardinality(Helpers)
        IN /\ pc = "top"
           /\ flags = {} /\ pending = {}
           /\ live = TRUE /\ delay = 0 /\ sigio = 0 /\ alarm = FALSE
           /\ noaccepting = FALSE /\ newBinary = None
           /\ cycle = 1
           /\ born = n
           /\ table = [p \in 1 .. n |-> Entry(Kind(p, WorkerProcesses, Helpers), FALSE, 1)]
           /\ proc = [p \in 1 .. n |-> Child]
           /\ commands = 0 /\ deaths = 0 /\ failures = 0

----------------------------------------------------------------------------
(* The operator, the timer and the children.  The loop body reads neither   *)
(* the pending signals nor the children, so what they do during it counts  *)
(* as done at the next sigsuspend.                                         *)

Asleep == pc \in {"suspended", "exited"}

Command(s) == /\ commands < MaxCommands
              /\ pc = "suspended"
              /\ commands' = commands + 1
              /\ pending' = pending \cup {s}
              /\ UNCHANGED <<loopVars, alarm, proc, born, deaths, failures>>

AlarmRings == /\ alarm
              /\ alarm' = FALSE
              /\ pending' = pending \cup {"ALRM"}
              /\ UNCHANGED <<loopVars, proc, born, bounds>>

Running(p) == p \in DOMAIN proc /\ proc[p].state = "running"

\* A child becomes a zombie and SIGCHLD waits.
Dead(p) == /\ Running(p)
           /\ pending' = pending \cup {"CHLD"}
           /\ UNCHANGED <<loopVars, alarm, born, commands>>

Finishes(p) == /\ proc' = [proc EXCEPT ![p].state = "zombie"]
               /\ Dead(p)
               /\ UNCHANGED <<deaths, failures>>

Killed(p) == "kill" \in proc[p].told /\ Finishes(p)

\* A child does what it was told when it gets to it; the cache loader is done
\* some time anyway.
Leaves(p) == /\ Asleep
             /\ proc[p].told # {} \/ table[p].kind = "loader"
             /\ Finishes(p)

\* A crash.
Dies(p) == /\ Asleep /\ deaths + failures < MaxFaults
           /\ deaths' = deaths + 1
           /\ proc' = [proc EXCEPT ![p].state = "zombie"]
           /\ Dead(p)
           /\ UNCHANGED failures

\* Exit code 2: a child that could not be initialised.
DiesFatally(p) == /\ Asleep /\ deaths + failures < MaxFaults
                  /\ failures' = failures + 1
                  /\ proc' = [proc EXCEPT ![p].state = "fatal"]
                  /\ Dead(p)
                  /\ UNCHANGED deaths

----------------------------------------------------------------------------
(* The loop.                                                               *)

\* The last four steps of the body, each with the flag that makes it do
\* something; NextStep is the next one that is due, else the top of the loop.
LastSteps == <<"restart", "reopen", "binary", "noaccept">>
FlagOf    == [restart |-> "restart", reopen |-> "reopen",
              binary |-> "change_binary", noaccept |-> "noaccept"]

NextStep(i, fl) == LET due == {j \in i + 1 .. 4 : FlagOf[LastSteps[j]] \in fl}
                   IN IF due = {} THEN "top" ELSE LastSteps[Min(due)]

\* The top of the loop: while terminating, the timer is started, and the
\* delay doubled each time it has rung (capped once it is above KillDelay).
Top == /\ pc = "top"
       /\ pc' = "suspended"
       /\ alarm' = (alarm \/ delay > 0)
       /\ IF delay > 0 /\ "sigalrm" \in flags
          THEN /\ sigio' = 0
               /\ delay' = IF delay > KillDelay THEN delay ELSE 2 * delay
               /\ flags' = flags \ {"sigalrm"}
          ELSE UNCHANGED <<sigio, delay, flags>>
       /\ UNCHANGED <<pending, live, noaccepting, newBinary, cycle, table, proc, born, bounds>>

\* What ngx_signal_handler makes of the signals; a second USR2 is ignored.
Raised == {f \in Flags : \/ f = "reap"          /\ "CHLD" \in pending
                         \/ f = "terminate"     /\ "TERM" \in pending
                         \/ f = "quit"          /\ "QUIT" \in pending
                         \/ f = "reconfigure"   /\ "HUP"  \in pending
                         \/ f = "reopen"        /\ "USR1" \in pending
                         \/ f = "change_binary" /\ "USR2" \in pending /\ newBinary \notin Nat
                         \/ f = "noaccept"      /\ "WINCH" \in pending
                         \/ f = "sigalrm"       /\ "ALRM" \in pending}

Zombies == {p \in DOMAIN proc : proc[p].state # "running"}

\* ngx_process_get_status: wait for every zombie; a fatal one is not respawned.
\* Mutant: any exit is taken for a fatal one.
WaitedFatal == [p \in DOMAIN table |->
                  IF p \in Zombies
                  THEN [table[p] EXCEPT !.exited = TRUE, !.respawn = FALSE]
                  ELSE table[p]]

Waited == [p \in DOMAIN table |->
             IF p \in Zombies
             THEN [table[p] EXCEPT !.exited = TRUE,
                                   !.respawn = @ /\ proc[p].state # "fatal"]
             ELSE table[p]]

\* sigsuspend returns after the handlers of the pending signals have run.
Wake == /\ pc = "suspended"
        /\ pending # {}
        /\ pending' = {}
        /\ flags' = flags \cup Raised
        /\ pc' = IF "reap" \in flags' THEN "reap" ELSE "dispatch"
        /\ IF "CHLD" \in pending
           THEN /\ table' = Waited
                /\ proc' = Restrict(proc, (DOMAIN proc) \ Zombies)
           ELSE UNCHANGED <<table, proc>>
        /\ UNCHANGED <<live, delay, sigio, alarm, noaccepting, newBinary, cycle, born, bounds>>

----------------------------------------------------------------------------
(* ngx_reap_children                                                       *)

Exited == {p \in DOMAIN table : table[p].exited}

Respawned == {p \in Exited : /\ table[p].respawn /\ ~table[p].exiting
                             /\ flags \cap {"terminate", "quit"} = {}}

\* The new binary is gone: its workers come back if they had been sent away.
\* Mutant: they do not.
BinaryGoneForgets(gone) == /\ newBinary' = IF newBinary \in gone THEN None ELSE newBinary
                           /\ noaccepting' = IF newBinary \in gone THEN FALSE ELSE noaccepting
                           /\ flags' = flags \ {"reap"}

BinaryGone(gone) ==
    /\ newBinary' = IF newBinary \in gone THEN None ELSE newBinary
    /\ noaccepting' = IF newBinary \in gone THEN FALSE ELSE noaccepting
    /\ flags' = (flags \ {"reap"})
                  \cup IF newBinary \in gone /\ noaccepting THEN {"restart"} ELSE {}

\* The children still running in the table, as far as the master knows.
\* Mutant: those that were asked to exit are not waited for.
LeftIdle == {p \in DOMAIN table : ~table[p].exited /\ ~table[p].exiting /\ ~Detached(p)}

Left == {p \in DOMAIN table : ~table[p].exited /\ (table[p].exiting \/ ~Detached(p))}

\* Exited children are respawned in their slot or forgotten; an entry whose
\* respawn fails stays, exited.
Reap == /\ pc = "reap"
        /\ \E failed \in SUBSET Respawned :
             LET new  == Respawned \ failed
                 gone == Exited \ Respawned
                 old(i) == CHOOSE p \in new : Cardinality({q \in new : q <= p}) = i
             IN /\ deaths + failures + Cardinality(failed) <= MaxFaults
                /\ failures' = failures + Cardinality(failed)
                /\ born' = born + Cardinality(new)
                /\ table' = With(Restrict(table, (DOMAIN table) \ (new \cup gone)),
                                 [p \in Fresh(Cardinality(new)) |->
                                    [table[old(p - born)] EXCEPT !.exited = FALSE,
                                                                 !.cycle = cycle]])
                /\ proc' = WithChildren(Cardinality(new))
                /\ live' = (new \cup Left # {})
                /\ BinaryGone(gone)
        /\ pc' = "dispatch"
        /\ UNCHANGED <<pending, delay, sigio, alarm, cycle, commands, deaths>>

----------------------------------------------------------------------------
(* ngx_signal_worker_processes: through the channel, or by kill() if that  *)
(* fails, every child but the just spawned ones, and those that are        *)
(* exiting already when they are asked to exit gracefully.  An entry       *)
(* without a child (its respawn failed) sets ngx_reap again.               *)

Targets(tab, cmd) == {p \in DOMAIN tab : /\ tab[p].kind # "binary"
                                         /\ ~tab[p].just
                                         /\ ~(cmd = "quit" /\ tab[p].exiting)}

Gone(tab, cmd) == {p \in Targets(tab, cmd) : tab[p].exited}

\* Mutant: just_spawn is not reset, the child is never told anything.
SignalledKeepsJust(tab, cmd) ==
    [p \in DOMAIN tab |->
       IF p \in Gone(tab, cmd) THEN [tab[p] EXCEPT !.exiting = FALSE]
       ELSE IF p \in Targets(tab, cmd) /\ cmd # "reopen" THEN [tab[p] EXCEPT !.exiting = TRUE]
       ELSE tab[p]]

Signalled(tab, cmd) ==
    [p \in DOMAIN tab |->
       IF tab[p].just /\ tab[p].kind # "binary" THEN [tab[p] EXCEPT !.just = FALSE]
       ELSE IF p \in Gone(tab, cmd) THEN [tab[p] EXCEPT !.exiting = FALSE]
       ELSE IF p \in Targets(tab, cmd) /\ cmd # "reopen" THEN [tab[p] EXCEPT !.exiting = TRUE]
       ELSE tab[p]]

Told(tab, prc, cmd) ==
    [p \in DOMAIN prc |-> IF p \in Targets(tab, cmd) /\ cmd # "reopen"
                          THEN [prc[p] EXCEPT !.told = @ \cup {cmd}] ELSE prc[p]]

\* The flags after a broadcast that handles flag f.
After(f, tab, cmd) == (flags \ {f}) \cup IF Gone(tab, cmd) # {} THEN {"reap"} ELSE {}

Broadcast(tab, prc, cmd) == /\ table' = Signalled(tab, cmd)
                            /\ proc' = Told(tab, prc, cmd)

----------------------------------------------------------------------------
(* After the reaping: exit, or the first command that is due.              *)

Exit == /\ pc = "dispatch"
        /\ ~live /\ flags \cap {"terminate", "quit"} # {}
        /\ pc' = "exited"
        /\ UNCHANGED <<flags, live, delay, sigio, noaccepting, newBinary, cycle, table,
                       pending, alarm, proc, born, bounds>>

Stays == live \/ flags \cap {"terminate", "quit"} = {}

Started == IF delay = 0 THEN FirstDelay ELSE delay

\* A broadcast was made; wait for as many SIGCHLD or for the timer.
TerminateWaits == /\ pc = "dispatch" /\ Stays
                  /\ "terminate" \in flags
                  /\ sigio > 0
                  /\ delay' = Started
                  /\ sigio' = sigio - 1
                  /\ pc' = "top"
                  /\ UNCHANGED <<flags, live, noaccepting, newBinary, cycle, table, pending,
                                 alarm, proc, born, bounds>>

\* Mutant: children that do not obey are asked again and again.
TerminatePolite == /\ pc = "dispatch" /\ Stays
                   /\ "terminate" \in flags
                   /\ sigio = 0
                   /\ delay' = Started
                   /\ sigio' = WorkerProcesses + 2
                   /\ Broadcast(table, proc, "term")
                   /\ flags' = After("none", table, "term")
                   /\ pc' = "top"
                   /\ UNCHANGED <<live, noaccepting, newBinary, cycle, pending, alarm, born, bounds>>

Terminate == /\ pc = "dispatch" /\ Stays
             /\ "terminate" \in flags
             /\ sigio = 0
             /\ delay' = Started
             /\ sigio' = WorkerProcesses + 2
             /\ LET cmd == IF Started > KillDelay THEN "kill" ELSE "term"
                IN /\ Broadcast(table, proc, cmd)
                   /\ flags' = After("none", table, cmd)
             /\ pc' = "top"
             /\ UNCHANGED <<live, noaccepting, newBinary, cycle, pending, alarm, born, bounds>>

Quit == /\ pc = "dispatch" /\ Stays
        /\ "quit" \in flags /\ "terminate" \notin flags
        /\ Broadcast(table, proc, "quit")
        /\ flags' = After("none", table, "quit")
        /\ pc' = "top"
        /\ UNCHANGED <<live, delay, sigio, noaccepting, newBinary, cycle, pending, alarm, born, bounds>>

Due(f) == flags \cap {"terminate", "quit"} = {} /\ f \in flags

\* HUP while ngx_new_binary is set: workers of the old configuration.
ReconfigureInUpgrade ==
    /\ pc = "dispatch" /\ Due("reconfigure")
    /\ newBinary # None
    /\ \E n \in Counts, hs \in SUBSET Helpers :
         /\ Start(n, hs)
         /\ table' = With(table, Entries(n, hs, FALSE, cycle))
         /\ proc' = WithChildren(Forked(n, hs))
    /\ noaccepting' = FALSE
    /\ flags' = flags \ {"reconfigure"}
    /\ pc' = "top"
    /\ UNCHANGED <<live, delay, sigio, newBinary, cycle, pending, alarm, commands, deaths>>

\* HUP: a new configuration, its children, and the old ones are asked to exit.
Reconfigure == /\ pc = "dispatch" /\ Due("reconfigure")
               /\ newBinary = None
               /\ cycle' = cycle + 1
               /\ \E n \in Counts, hs \in SUBSET Helpers :
                    LET new == With(table, Entries(n, hs, TRUE, cycle + 1))
                    IN /\ Start(n, hs)
                       /\ Broadcast(new, WithChildren(Forked(n, hs)), "quit")
                       /\ flags' = After("reconfigure", new, "quit")
               /\ live' = TRUE
               /\ pc' = NextStep(0, flags')
               /\ UNCHANGED <<delay, sigio, noaccepting, newBinary, pending, alarm,
                              commands, deaths>>

\* ngx_init_cycle fails: the old configuration stays.
ReconfigureFails == /\ pc = "dispatch" /\ Due("reconfigure")
                    /\ newBinary = None
                    /\ deaths + failures < MaxFaults
                    /\ failures' = failures + 1
                    /\ flags' = flags \ {"reconfigure"}
                    /\ pc' = "top"
                    /\ UNCHANGED <<live, delay, sigio, noaccepting, newBinary, cycle, table,
                                   pending, alarm, proc, born, commands, deaths>>

NoReconfigure == /\ pc = "dispatch"
                 /\ flags \cap {"terminate", "quit", "reconfigure"} = {}
                 /\ pc' = NextStep(0, flags)
                 /\ UNCHANGED <<flags, live, delay, sigio, noaccepting, newBinary, cycle, table,
                                pending, alarm, proc, born, bounds>>

Restart == /\ pc = "restart"
           /\ \E n \in Counts, hs \in SUBSET Helpers :
                /\ Start(n, hs)
                /\ table' = With(table, Entries(n, hs, FALSE, cycle))
                /\ proc' = WithChildren(Forked(n, hs))
           /\ live' = TRUE
           /\ flags' = flags \ {"restart"}
           /\ pc' = NextStep(1, flags')
           /\ UNCHANGED <<delay, sigio, noaccepting, newBinary, cycle, pending, alarm,
                          commands, deaths>>

Reopen == /\ pc = "reopen"
          /\ Broadcast(table, proc, "reopen")
          /\ flags' = After("reopen", table, "reopen")
          /\ pc' = NextStep(2, flags')
          /\ UNCHANGED <<live, delay, sigio, noaccepting, newBinary, cycle, pending, alarm,
                         born, bounds>>

ChangeBinary == /\ pc = "binary"
                /\ table' = With(table, [p \in Fresh(1) |-> Entry("binary", FALSE, cycle)])
                /\ proc' = WithChildren(1)
                /\ born' = born + 1
                /\ newBinary' = born + 1
                /\ flags' = flags \ {"change_binary"}
                /\ pc' = NextStep(3, flags')
                /\ UNCHANGED <<live, delay, sigio, noaccepting, cycle, pending, alarm, bounds>>

\* The pid file cannot be renamed, or fork() fails.
ChangeBinaryFails == /\ pc = "binary"
                     /\ deaths + failures < MaxFaults
                     /\ failures' = failures + 1
                     /\ newBinary' = Invalid
                     /\ flags' = flags \ {"change_binary"}
                     /\ pc' = NextStep(3, flags')
                     /\ UNCHANGED <<live, delay, sigio, noaccepting, cycle, table, pending,
                                    alarm, proc, born, commands, deaths>>

NoAccept == /\ pc = "noaccept"
            /\ noaccepting' = TRUE
            /\ Broadcast(table, proc, "quit")
            /\ flags' = After("noaccept", table, "quit")
            /\ pc' = "top"
            /\ UNCHANGED <<live, delay, sigio, newBinary, cycle, pending, alarm, born, bounds>>

----------------------------------------------------------------------------
Body == \/ Reap \/ Exit
        \/ TerminateWaits \/ Terminate \/ Quit
        \/ ReconfigureInUpgrade \/ Reconfigure \/ ReconfigureFails \/ NoReconfigure
        \/ Restart \/ Reopen \/ ChangeBinary \/ ChangeBinaryFails \/ NoAccept

Loop == Top \/ Wake \/ Body

Next == \/ Loop \/ AlarmRings
        \/ \E s \in Commands : Command(s)
        \/ \E p \in DOMAIN proc : Killed(p) \/ Leaves(p) \/ Dies(p) \/ DiesFatally(p)

Spec == Init /\ [][Next]_vars

\* The master runs, timers expire, and SIGKILL kills.  That a child obeys a
\* gentler command is not assumed.
Fairness == /\ WF_vars(Loop) /\ WF_vars(AlarmRings)
            /\ WF_vars(\E p \in DOMAIN proc : Killed(p))

FairSpec == Spec /\ Fairness

----------------------------------------------------------------------------
(* Properties                                                              *)

TypeOK == /\ pc \in Steps /\ flags \subseteq Flags
          /\ pending \subseteq Commands \cup {"CHLD", "ALRM"}
          /\ live \in BOOLEAN /\ alarm \in BOOLEAN /\ noaccepting \in BOOLEAN
          /\ delay \in Nat /\ sigio \in 0 .. WorkerProcesses + 2
          /\ born \in Nat /\ cycle \in Nat
          /\ newBinary \in (1 .. born) \cup {None, Invalid}
          /\ DOMAIN table \subseteq 1 .. born /\ DOMAIN proc \subseteq DOMAIN table
          /\ \A p \in DOMAIN table : table[p] \in
               [kind : Kinds, respawn : BOOLEAN, just : BOOLEAN, exiting : BOOLEAN,
                exited : BOOLEAN, cycle : 1 .. cycle]

\* The children of this master that run, the new binary left aside.
Children == {p \in DOMAIN proc : Running(p) /\ ~Detached(p)}

\* Those workers that were not asked to exit.
Serving == {p \in Children : table[p].kind = "worker" /\ ~table[p].exiting}

\* The master goes last: when it exits no child of its own is left running -
\* unless the configuration was "changed" during an upgrade (ngx_process_cycle.c
\* 437, with `live' kept by 433, 529, 541 but not by 498-503).
MasterGoesLast == pc = "exited" /\ newBinary = None => Children = {}

\* While the master sleeps every worker that was not asked to exit, or is not
\* known to be dead, runs the current configuration, whatever crashed, was
\* respawned or failed while it was replaced (519, 532, 874-883, 982-989).
OneConfiguration == pc = "suspended" =>
    \A p \in DOMAIN table :
       ~Detached(p) /\ ~table[p].exiting /\ ~table[p].exited => table[p].cycle = cycle

\* TERM ends everything, although no child obeys it: the master escalates to
\* SIGKILL and exits after the last child (444-464).
TermEnds == ("terminate" \in flags) ~> (pc = "exited")

\* The master was not told otherwise, nothing failed, and no child declared
\* its failure to be fatal.
Ordinary == /\ flags \cap {"terminate", "quit"} = {} /\ pending \cap {"TERM", "QUIT", "WINCH"} = {}
            /\ "noaccept" \notin flags /\ ~noaccepting
            /\ failures = 0

\* A worker that dies is replaced: as many as configured serve again.
WorkersReplaced ==
    Ordinary ~> (~Ordinary \/ Cardinality(Serving) >= WorkerProcesses)

\* An upgrade that fails is rolled back: the new binary dies after the old
\* workers were sent away, and workers of the old binary serve again (1026-1030).
UpgradeRolledBack ==
    (noaccepting /\ newBinary \in Zombies)
      ~> (\/ Cardinality(Serving) >= WorkerProcesses
          \/ failures > 0 \/ flags \cap {"terminate", "quit"} # {})

\* A comment of the code (436): the master exits when no child is alive.
MasterExitsWithoutChildren == pc = "exited" => Children = {}

=============================================================================
