------------------------- MODULE MasterCycleProofs -------------------------
(***************************************************************************)
(* Proofs about MasterCycle for any number of workers, any delays and any  *)
(* bounds on signals and faults: types, one configuration, and that the    *)
(* master goes last.                                                       *)
(***************************************************************************)
EXTENDS MasterCycle, FiniteSetTheorems, TLAPS

Cmds == {"term", "kill", "quit", "reopen"}

Kids == [state : {"running", "zombie", "fatal"}, told : SUBSET Cmds]

Rows(cyc) == [kind : Kinds, respawn : BOOLEAN, just : BOOLEAN, exiting : BOOLEAN,
              exited : BOOLEAN, cycle : 1 .. cyc]

\* An entry whose child, if it lives and may stay, has configuration cyc.
Fits(e, cyc) == e.kind # "binary" /\ ~e.exiting /\ ~e.exited => e.cycle = cyc

Loops == /\ pc \in Steps /\ flags \subseteq Flags
         /\ pending \subseteq Commands \cup {"CHLD", "ALRM"}
         /\ live \in BOOLEAN /\ alarm \in BOOLEAN /\ noaccepting \in BOOLEAN
         /\ delay \in Nat /\ sigio \in 0 .. WorkerProcesses + 2
         /\ born \in Nat /\ cycle \in Nat \ {0}
         /\ newBinary \in (1 .. born) \cup {None, Invalid}

\* What the table knows of the children; between two steps nobody is just spawned.
Known == /\ born \in Nat /\ cycle \in Nat \ {0}
         /\ DOMAIN table \subseteq 1 .. born
         /\ DOMAIN proc \subseteq DOMAIN table
         /\ \A p \in DOMAIN table :
              table[p] \in Rows(cycle) /\ ~table[p].just /\ Fits(table[p], cycle)
         /\ \A p \in DOMAIN proc : proc[p] \in Kids /\ ~table[p].exited

NoChildren == \A p \in DOMAIN proc : proc[p].state = "running" => table[p].kind = "binary"

\* `live' may be stale only while there is a new binary.
Alone == /\ ~live /\ newBinary = None => NoChildren
         /\ pc = "exited" => ~live

Inv == Loops /\ Known /\ Alone

----------------------------------------------------------------------------
(* Numbers.                                                                *)

LEMMA HelpersFinite ==
    ASSUME NEW hs \in SUBSET Helpers
    PROVE  Cardinality(hs) \in Nat
<1>1. IsFiniteSet({}) /\ IsFiniteSet({"manager"}) /\ IsFiniteSet({"manager", "loader"})
  <2>1. IsFiniteSet({}) /\ IsFiniteSet({"manager"})
    BY FS_EmptySet, FS_Singleton
  <2>2. IsFiniteSet({"manager"} \cup {"loader"})
    BY <2>1, FS_AddElement
  <2>3. {"manager"} \cup {"loader"} = {"manager", "loader"}
    OBVIOUS
  <2> QED
    BY <2>1, <2>2, <2>3
<1>2. IsFiniteSet(Helpers)
  BY <1>1, MasterAssumption
<1> QED
  BY <1>2, FS_Subset, FS_CardinalityType

LEMMA ForkedType ==
    ASSUME NEW n \in Nat, NEW hs \in SUBSET Helpers
    PROVE  Forked(n, hs) \in Nat
BY HelpersFinite DEF Forked

\* The elements of a set of pids are numbered in their order.
LEMMA Ranks ==
    ASSUME NEW n \in Nat, NEW I \in SUBSET (1 .. n)
    PROVE  /\ Cardinality(I) \in Nat
           /\ \A k \in 1 .. Cardinality(I) : \E i \in I : Cardinality({j \in I : j <= i}) = k
<1> DEFINE N == Cardinality(I)
           Upto(i) == {j \in I : j <= i}
           rank == [i \in I |-> Cardinality(Upto(i))]
<1>1. IsFiniteSet(I) /\ N \in Nat
  <2>1. IsFiniteSet(1 .. n)
    BY FS_Interval
  <2> QED
    BY <2>1, FS_Subset, FS_CardinalityType
<1>0. \A i \in I : i \in Int
  OBVIOUS
<1>2. ASSUME NEW i \in I PROVE IsFiniteSet(Upto(i)) /\ rank[i] \in 1 .. N
  <2>1. Upto(i) \in SUBSET I /\ i \in Upto(i)
    OBVIOUS
  <2>2. IsFiniteSet(Upto(i)) /\ Cardinality(Upto(i)) <= N
    BY <1>1, <2>1, FS_Subset
  <2>3. Cardinality(Upto(i)) \in Nat /\ Cardinality(Upto(i)) # 0
    BY <2>1, <2>2, FS_CardinalityType, FS_EmptySet
  <2> HIDE DEF Upto, N
  <2> QED
    BY <1>1, <2>2, <2>3
<1>3. ASSUME NEW i \in I, NEW k \in I, i < k PROVE rank[i] # rank[k]
  <2>1. k \in Upto(k) /\ k \notin Upto(i)
    BY <1>3
  <2>2. \A j \in I : j <= i => j <= k
    BY <1>0, <1>3
  <2>3. Upto(i) \in SUBSET Upto(k) /\ Upto(i) # Upto(k)
    BY <2>1, <2>2
  <2> HIDE DEF Upto
  <2> QED
    BY <1>2, <2>3, FS_Subset
<1>4. rank \in Surjection(I, 1 .. N)
  <2>1. Cardinality(1 .. N) = N /\ IsFiniteSet(1 .. N)
    BY <1>1, FS_Interval
  <2>2. rank \in [I -> 1 .. N]
    BY <1>2
  <2>3. \A i, k \in I : rank[i] = rank[k] => i = k
    <3> HIDE DEF rank
    <3> QED
      BY <1>0, <1>3
  <2> HIDE DEF rank, N
  <2>4. rank \in Injection(I, 1 .. N)
    BY <2>2, <2>3 DEF Injection, IsInjective
  <2> QED
    BY <2>1, <2>4, FS_Injection DEF N
<1>5. \A k \in 1 .. N : \E i \in I : rank[i] = k
  <2> HIDE DEF rank, N
  <2> QED
    BY <1>4 DEF Surjection
<1> QED
  BY <1>1, <1>5

\* The steps of the loop body go forward to the next that is due.
LEMMA NextStepType ==
    ASSUME NEW i \in 0 .. 3, NEW fl
    PROVE  NextStep(i, fl) \in Steps \ {"exited"}
<1> DEFINE due == {j \in i + 1 .. 4 : FlagOf[LastSteps[j]] \in fl}
<1>1. due \subseteq 1 .. 4
  OBVIOUS
<1>2. ASSUME due # {} PROVE Min(due) \in 1 .. 4
  <2> HIDE DEF due
  <2>1. \E x \in due : \A y \in due : x <= y
    <3>1. CASE 1 \in due
      BY <1>1, <3>1
    <3>2. CASE 1 \notin due /\ 2 \in due
      BY <1>1, <3>2
    <3>3. CASE 1 \notin due /\ 2 \notin due /\ 3 \in due
      BY <1>1, <3>3
    <3>4. CASE 1 \notin due /\ 2 \notin due /\ 3 \notin due
      <4>1. \A y \in due : y = 4
        BY <1>1, <3>4
      <4> QED
        BY <1>2, <4>1
    <3> QED
      BY <3>1, <3>2, <3>3, <3>4
  <2> QED
    BY <1>1, <2>1 DEF Min
<1>3. \A j \in 1 .. 4 : LastSteps[j] \in Steps \ {"exited"}
  BY DEF LastSteps, Steps
<1>4. NextStep(i, fl) = IF due = {} THEN "top" ELSE LastSteps[Min(due)]
  BY DEF NextStep
<1> HIDE DEF due
<1> QED
  BY <1>2, <1>3, <1>4 DEF Steps

----------------------------------------------------------------------------
(* The table.                                                              *)

\* A broadcast tells everybody who is to be told; to "quit" also those whose
\* configuration is an old one.
LEMMA SignalledRows ==
    ASSUME NEW cmd \in Cmds, NEW cyc \in Nat, NEW tab,
           \A p \in DOMAIN tab :
             /\ tab[p] \in Rows(cyc)
             /\ tab[p].just => tab[p].kind # "binary" /\ tab[p].cycle = cyc
             /\ ~tab[p].just => Fits(tab[p], cyc) \/ cmd = "quit"
    PROVE  /\ DOMAIN Signalled(tab, cmd) = DOMAIN tab
           /\ \A p \in DOMAIN tab :
                /\ Signalled(tab, cmd)[p] \in Rows(cyc) /\ ~Signalled(tab, cmd)[p].just
                /\ Fits(Signalled(tab, cmd)[p], cyc)
                /\ Signalled(tab, cmd)[p].exited = tab[p].exited
                /\ Signalled(tab, cmd)[p].kind = tab[p].kind
<1> DEFINE new == Signalled(tab, cmd)
<1>1. /\ DOMAIN new = DOMAIN tab
      /\ \A p \in DOMAIN tab :
           new[p] = IF tab[p].just /\ tab[p].kind # "binary" THEN [tab[p] EXCEPT !.just = FALSE]
                    ELSE IF p \in Gone(tab, cmd) THEN [tab[p] EXCEPT !.exiting = FALSE]
                    ELSE IF p \in Targets(tab, cmd) /\ cmd # "reopen"
                         THEN [tab[p] EXCEPT !.exiting = TRUE]
                    ELSE tab[p]
  BY DEF Signalled
<1> HIDE DEF new
<1>2. ASSUME NEW p \in DOMAIN tab
      PROVE  /\ new[p] \in Rows(cyc) /\ ~new[p].just /\ Fits(new[p], cyc)
             /\ new[p].exited = tab[p].exited /\ new[p].kind = tab[p].kind
  <2> DEFINE e == tab[p]
  <2>0. e \in Rows(cyc)
    OBVIOUS
  <2>1. CASE e.just
    <3>1. e.kind # "binary" /\ e.cycle = cyc /\ new[p] = [e EXCEPT !.just = FALSE]
      BY <1>1, <2>1
    <3> HIDE DEF e
    <3> QED
      BY <2>0, <3>1 DEF Rows, Fits, e
  <2>2. CASE ~e.just /\ p \in Gone(tab, cmd)
    <3>1. e.exited /\ new[p] = [e EXCEPT !.exiting = FALSE]
      BY <1>1, <2>2 DEF Gone
    <3> QED
      BY <2>0, <2>2, <3>1 DEF Rows, Fits
  <2>3. CASE ~e.just /\ p \notin Gone(tab, cmd) /\ p \in Targets(tab, cmd) /\ cmd # "reopen"
    <3>1. new[p] = [e EXCEPT !.exiting = TRUE]
      BY <1>1, <2>3
    <3> QED
      BY <2>0, <2>3, <3>1 DEF Rows, Fits
  <2>4. CASE ~e.just /\ p \notin Gone(tab, cmd) /\ ~(p \in Targets(tab, cmd) /\ cmd # "reopen")
    <3>1. new[p] = e
      BY <1>1, <2>4
    <3>2. cmd = "quit" => e.kind = "binary" \/ e.exiting
      BY <2>4 DEF Targets
    <3>3. Fits(e, cyc)
      BY <2>4, <3>2 DEF Fits
    <3> QED
      BY <2>0, <2>4, <3>1, <3>3
  <2> QED
    BY <2>1, <2>2, <2>3, <2>4
<1> QED
  BY <1>1, <1>2 DEF new

LEMMA ToldKids ==
    ASSUME NEW cmd \in Cmds, NEW tab, NEW prc, \A p \in DOMAIN prc : prc[p] \in Kids
    PROVE  /\ DOMAIN Told(tab, prc, cmd) = DOMAIN prc
           /\ \A p \in DOMAIN prc : /\ Told(tab, prc, cmd)[p] \in Kids
                                    /\ Told(tab, prc, cmd)[p].state = prc[p].state
<1>1. ASSUME NEW p \in DOMAIN prc
      PROVE  Told(tab, prc, cmd)[p] = prc[p]
               \/ Told(tab, prc, cmd)[p] = [prc[p] EXCEPT !.told = @ \cup {cmd}]
  BY DEF Told
<1>2. ASSUME NEW p \in DOMAIN prc
      PROVE  /\ Told(tab, prc, cmd)[p] \in Kids
             /\ Told(tab, prc, cmd)[p].state = prc[p].state
  <2> DEFINE k == prc[p]
  <2>1. k \in Kids
    OBVIOUS
  <2> HIDE DEF k
  <2>2. [k EXCEPT !.told = @ \cup {cmd}] \in Kids /\ [k EXCEPT !.told = @ \cup {cmd}].state = k.state
    BY <2>1 DEF Kids
  <2> QED
    BY <1>1, <2>1, <2>2 DEF k
<1>3. DOMAIN Told(tab, prc, cmd) = DOMAIN prc
  BY DEF Told
<1> QED
  BY <1>2, <1>3

\* New entries.
LEMMA EntriesRows ==
    ASSUME NEW n \in Nat, NEW hs \in SUBSET Helpers, NEW just \in BOOLEAN, NEW cyc \in Nat \ {0}
    PROVE  /\ DOMAIN Entries(n, hs, just, cyc) = Fresh(Forked(n, hs))
           /\ \A p \in Fresh(Forked(n, hs)) :
                LET e == Entries(n, hs, just, cyc)[p]
                IN /\ e \in Rows(cyc) /\ (e.just <=> just) /\ ~e.exited
                   /\ e.kind # "binary" /\ e.cycle = cyc /\ Fits(e, cyc)
<1>1. \A i : Kind(i, n, hs) \in Kinds \ {"binary"}
  BY DEF Kind, Kinds
<1>2. ASSUME NEW kind \in Kinds \ {"binary"}
      PROVE  LET e == Entry(kind, just, cyc)
             IN /\ e \in Rows(cyc) /\ (e.just <=> just) /\ ~e.exited
                /\ e.kind # "binary" /\ e.cycle = cyc /\ Fits(e, cyc)
  BY DEF Entry, Rows, Fits
<1> HIDE DEF Entry, Rows, Fits
<1> QED
  BY <1>1, <1>2 DEF Entries

\* Children get pids that were not used.
LEMMA Newborn ==
    ASSUME Known, NEW n \in Nat, NEW tab, DOMAIN tab \subseteq DOMAIN table, NEW f,
           DOMAIN f = Fresh(n), DOMAIN proc \subseteq DOMAIN tab,
           NEW w, w = With(tab, f), NEW c, c = WithChildren(n)
    PROVE  /\ \A p : p \in DOMAIN w <=> p \in DOMAIN tab \/ p \in Fresh(n)
           /\ DOMAIN w \subseteq 1 .. born + n
           /\ \A p \in DOMAIN tab : w[p] = tab[p]
           /\ \A p \in Fresh(n) : w[p] = f[p]
           /\ \A p : p \in DOMAIN c <=> p \in DOMAIN proc \/ p \in Fresh(n)
           /\ DOMAIN c \subseteq DOMAIN w
           /\ \A p \in DOMAIN proc : c[p] = proc[p]
           /\ \A p \in Fresh(n) : c[p] = Child
           /\ \A p \in DOMAIN c : c[p] \in Kids
<1>1. DOMAIN table \subseteq 1 .. born /\ born \in Nat
  BY DEF Known
<1>2. \A p \in Fresh(n) : p \notin 1 .. born /\ p \in 1 .. born + n
  BY <1>1 DEF Fresh
<1>3. 1 .. born \subseteq 1 .. born + n
  BY <1>1
<1>4. Child \in Kids
  BY DEF Child, Kids
<1>5. \A p \in DOMAIN proc : p \notin Fresh(n) /\ proc[p] \in Kids
  BY <1>1, <1>2 DEF Known
<1>6. \A p \in DOMAIN tab : p \notin Fresh(n) /\ p \in 1 .. born
  BY <1>1, <1>2
<1> HIDE DEF Fresh, Child, Kids
<1>7. /\ DOMAIN c = (DOMAIN proc) \cup Fresh(n)
      /\ \A p \in DOMAIN proc : c[p] = proc[p]
      /\ \A p \in Fresh(n) : c[p] = Child
  BY <1>5 DEF WithChildren, With
<1>8. /\ DOMAIN w = (DOMAIN tab) \cup Fresh(n)
      /\ \A p \in DOMAIN tab : w[p] = tab[p]
      /\ \A p \in Fresh(n) : w[p] = f[p]
  BY <1>6 DEF With
<1> QED
  BY <1>2, <1>3, <1>4, <1>5, <1>6, <1>7, <1>8

----------------------------------------------------------------------------
(* The steps, by what they do to the children.                             *)

\* Nothing to the table or the children.
Idles == UNCHANGED <<table, proc, born, cycle>>

\* A child stops running.
Stops == /\ \E p \in DOMAIN proc, s \in {"zombie", "fatal"} :
              proc' = [proc EXCEPT ![p].state = s]
         /\ UNCHANGED <<table, born, cycle>>

Tells == /\ \E cmd \in Cmds : Broadcast(table, proc, cmd)
         /\ UNCHANGED <<born, cycle>>

\* Children of the present configuration, or a new binary.
Adds == /\ \E n \in Nat : \E f :
             /\ DOMAIN f = Fresh(n)
             /\ \A p \in Fresh(n) : /\ f[p] \in Rows(cycle) /\ ~f[p].just /\ ~f[p].exited
                                    /\ Fits(f[p], cycle)
             /\ table' = With(table, f)
             /\ proc' = WithChildren(n)
             /\ born' = born + n
        /\ UNCHANGED cycle

LEMMA Stopping ==
    ASSUME NEW p \in DOMAIN proc, Killed(p) \/ Leaves(p) \/ Dies(p) \/ DiesFatally(p)
    PROVE  Stops /\ UNCHANGED <<loopVars, alarm>> /\ pending' = pending \cup {"CHLD"}
<1>1. CASE DiesFatally(p)
  BY <1>1 DEF DiesFatally, Dead, Stops, loopVars
<1>2. CASE ~DiesFatally(p)
  BY <1>2 DEF Killed, Leaves, Dies, Finishes, Dead, Stops, loopVars
<1> QED
  BY <1>1, <1>2

LEMMA Adding ==
    ASSUME Known, ReconfigureInUpgrade \/ Restart \/ ChangeBinary
    PROVE  Adds
<1>0. cycle \in Nat \ {0} /\ born \in Nat
  BY DEF Known
<1>1. ASSUME NEW n \in Counts, NEW hs \in SUBSET Helpers,
             born' = born + Forked(n, hs),
             table' = With(table, Entries(n, hs, FALSE, cycle)),
             proc' = WithChildren(Forked(n, hs)), cycle' = cycle
      PROVE  Adds
  <2>1. n \in Nat
    BY MasterAssumption DEF Counts
  <2>2. Forked(n, hs) \in Nat
    BY <2>1, ForkedType
  <2> DEFINE f == Entries(n, hs, FALSE, cycle)
             m == Forked(n, hs)
  <2>3. /\ DOMAIN f = Fresh(m)
        /\ \A p \in Fresh(m) : f[p] \in Rows(cycle) /\ ~f[p].just /\ ~f[p].exited /\ Fits(f[p], cycle)
    <3>1. FALSE \in BOOLEAN
      OBVIOUS
    <3>2. /\ DOMAIN Entries(n, hs, FALSE, cycle) = Fresh(m)
          /\ \A p \in Fresh(m) :
               LET e == Entries(n, hs, FALSE, cycle)[p]
               IN /\ e \in Rows(cycle) /\ (e.just <=> FALSE) /\ ~e.exited
                  /\ e.kind # "binary" /\ e.cycle = cycle /\ Fits(e, cycle)
      BY <1>0, <2>1, <3>1, EntriesRows
    <3> QED
      BY <3>2
  <2>4. table' = With(table, f) /\ proc' = WithChildren(m) /\ born' = born + m
    BY <1>1
  <2> HIDE DEF f, m
  <2> QED
    BY <1>1, <2>2, <2>3, <2>4 DEF Adds, m
<1>2. CASE ReconfigureInUpgrade
  <2>1. PICK n \in Counts, hs \in SUBSET Helpers :
           /\ Start(n, hs)
           /\ table' = With(table, Entries(n, hs, FALSE, cycle))
           /\ proc' = WithChildren(Forked(n, hs))
    BY <1>2 DEF ReconfigureInUpgrade
  <2>2. born' = born + Forked(n, hs) /\ cycle' = cycle
    BY <1>2, <2>1 DEF Start, ReconfigureInUpgrade
  <2> QED
    BY <1>1, <2>1, <2>2
<1>3. CASE Restart
  <2>1. PICK n \in Counts, hs \in SUBSET Helpers :
           /\ Start(n, hs)
           /\ table' = With(table, Entries(n, hs, FALSE, cycle))
           /\ proc' = WithChildren(Forked(n, hs))
    BY <1>3 DEF Restart
  <2>2. born' = born + Forked(n, hs) /\ cycle' = cycle
    BY <1>3, <2>1 DEF Start, Restart
  <2> QED
    BY <1>1, <2>1, <2>2
<1>4. CASE ChangeBinary
  <2> DEFINE e == Entry("binary", FALSE, cycle)
             f == [p \in Fresh(1) |-> e]
  <2>1. e \in Rows(cycle) /\ ~e.just /\ ~e.exited /\ Fits(e, cycle)
    BY <1>0 DEF Entry, Rows, Fits, Kinds
  <2> HIDE DEF e
  <2>2. DOMAIN f = Fresh(1) /\ \A p \in Fresh(1) : f[p] = e
    OBVIOUS
  <2>3. table' = With(table, f) /\ proc' = WithChildren(1) /\ born' = born + 1 /\ cycle' = cycle
    BY <1>4 DEF ChangeBinary, e
  <2> HIDE DEF f
  <2> QED
    BY <2>1, <2>2, <2>3 DEF Adds
<1> QED
  BY <1>2, <1>3, <1>4

LEMMA StepKinds ==
    ASSUME Known, [Next]_vars
    PROVE  \/ Idles \/ Stops \/ Tells \/ Adds
           \/ Wake \/ Reap \/ Reconfigure
<1>1. CASE \/ Top \/ Exit \/ TerminateWaits \/ ReconfigureFails \/ NoReconfigure \/ ChangeBinaryFails
           \/ AlarmRings \/ \E s \in Commands : Command(s)
  BY <1>1 DEF Top, Exit, TerminateWaits, ReconfigureFails, NoReconfigure, ChangeBinaryFails,
              AlarmRings, Command, loopVars, Idles
<1>2. CASE UNCHANGED vars
  BY <1>2 DEF vars, loopVars, Idles
<1>3. CASE Terminate
  <2>1. \E cmd \in {"kill", "term"} : Broadcast(table, proc, cmd)
    BY <1>3 DEF Terminate
  <2> QED
    BY <1>3, <2>1 DEF Terminate, Tells, Cmds
<1>4. CASE Quit \/ Reopen \/ NoAccept
  BY <1>4 DEF Quit, Reopen, NoAccept, Tells, Cmds
<1> QED
  BY <1>1, <1>2, <1>3, <1>4, Adding, Stopping DEF Next, Loop, Body

\* What a reaping leaves: the entries of the children that are not known to be
\* dead, those whose respawn failed, and the respawned children.
Kept(out) == Restrict(table, (DOMAIN table) \ out)

Revived(q) == [table[q] EXCEPT !.exited = FALSE, !.cycle = cycle]

LEMMA ReapFacts ==
    ASSUME Known, Reap
    PROVE  \E out \in SUBSET Exited, new \in SUBSET Respawned, gone \in SUBSET Exited, n \in Nat : \E f :
             /\ DOMAIN f = Fresh(n)
             /\ \A p \in Fresh(n) : \E q \in new :
                  f[p] = Revived(q)
             /\ new = {} => n = 0
             /\ table' = With(Kept(out), f)
             /\ proc' = WithChildren(n)
             /\ born' = born + n
             /\ live' \in BOOLEAN /\ (live' <=> new # {} \/ Left # {})
             /\ BinaryGone(gone)
             /\ cycle' = cycle
<1> DEFINE Reaping(failed) ==
             LET new  == Respawned \ failed
                 gone == Exited \ Respawned
                 old(i) == CHOOSE p \in new : Cardinality({q \in new : q <= p}) = i
             IN /\ born' = born + Cardinality(new)
                /\ table' = With(Restrict(table, (DOMAIN table) \ (new \cup gone)),
                                 [p \in Fresh(Cardinality(new)) |->
                                    [table[old(p - born)] EXCEPT !.exited = FALSE,
                                                                 !.cycle = cycle]])
                /\ proc' = WithChildren(Cardinality(new))
                /\ live' = (new \cup Left # {})
                /\ BinaryGone(gone)
<1>1. PICK failed \in SUBSET Respawned : Reaping(failed)
  BY DEF Reap
<1> DEFINE new  == Respawned \ failed
           gone == Exited \ Respawned
           n    == Cardinality(new)
           old(i) == CHOOSE p \in new : Cardinality({q \in new : q <= p}) = i
           f == [p \in Fresh(n) |-> [table[old(p - born)] EXCEPT !.exited = FALSE, !.cycle = cycle]]
<1>2. new \in SUBSET (1 .. born) /\ born \in Nat
  BY DEF Known, Respawned, Exited
<1>3. n \in Nat /\ \A k \in 1 .. n : \E i \in new : Cardinality({j \in new : j <= i}) = k
  <2> HIDE DEF new
  <2> QED
    BY <1>2, Ranks
<1>4. \A k \in 1 .. n : old(k) \in new
  <2> HIDE DEF new, n
  <2> QED
    BY <1>3
<1>5. new = {} => n = 0
  BY FS_EmptySet
<1> DEFINE out == new \cup gone
<1>6. /\ table' = With(Kept(out), f)
      /\ proc' = WithChildren(n) /\ born' = born + n
      /\ live' \in BOOLEAN /\ (live' <=> new # {} \/ Left # {}) /\ BinaryGone(gone)
  BY <1>1 DEF Kept
<1>7. new \in SUBSET Respawned /\ gone \in SUBSET Exited /\ out \in SUBSET Exited
  BY DEF Respawned
<1> HIDE DEF new, gone, n, old, out
<1>8. DOMAIN f = Fresh(n)
  OBVIOUS
<1>9. ASSUME NEW p \in Fresh(n)
      PROVE  \E q \in new : f[p] = Revived(q)
  <2>1. p - born \in 1 .. n
    BY <1>2, <1>3 DEF Fresh
  <2> QED
    BY <1>4, <2>1 DEF Revived
<1>10. cycle' = cycle
  BY DEF Reap
<1> HIDE DEF f
<1>11. n \in Nat /\ \E g :
         /\ DOMAIN g = Fresh(n)
         /\ \A p \in Fresh(n) : \E q \in new :
              g[p] = Revived(q)
         /\ new = {} => n = 0
         /\ table' = With(Kept(out), g)
         /\ proc' = WithChildren(n)
         /\ born' = born + n
         /\ live' \in BOOLEAN /\ (live' <=> new # {} \/ Left # {})
         /\ BinaryGone(gone)
         /\ cycle' = cycle
  BY <1>3, <1>5, <1>6, <1>8, <1>9, <1>10
<1> QED
  BY <1>7, <1>11

----------------------------------------------------------------------------
(* Each part of the invariant is kept.                                     *)

Good(e, cyc) == e \in Rows(cyc) /\ ~e.just /\ Fits(e, cyc)

\* Known is kept if new entries are good and have new pids, and the others that
\* stay are good or as they were.
LEMMA KnownGrows ==
    ASSUME Known, NEW n \in Nat, NEW tab, DOMAIN tab \subseteq DOMAIN table,
           DOMAIN proc \subseteq DOMAIN tab, \A p \in DOMAIN tab : tab[p] = table[p],
           NEW f, DOMAIN f = Fresh(n), \A p \in Fresh(n) : Good(f[p], cycle) /\ ~f[p].exited,
           table' = With(tab, f), proc' = WithChildren(n), born' = born + n, cycle' = cycle
    PROVE  Known'
<1>1. /\ \A p : p \in DOMAIN table' <=> p \in DOMAIN tab \/ p \in Fresh(n)
      /\ DOMAIN table' \subseteq 1 .. born'
      /\ \A p \in DOMAIN tab : table'[p] = table[p]
      /\ \A p \in Fresh(n) : table'[p] = f[p]
      /\ \A p : p \in DOMAIN proc' <=> p \in DOMAIN proc \/ p \in Fresh(n)
      /\ DOMAIN proc' \subseteq DOMAIN table'
      /\ \A p \in DOMAIN proc' : proc'[p] \in Kids
  BY Newborn
<1>2. \A p \in DOMAIN table' : Good(table'[p], cycle)
  BY <1>1 DEF Known, Good
<1>3. \A p \in DOMAIN proc' : ~table'[p].exited
  BY <1>1 DEF Known
<1> QED
  BY <1>1, <1>2, <1>3 DEF Known, Good

LEMMA KnownTold ==
    ASSUME NEW cmd \in Cmds, NEW tab, NEW prc, NEW b \in Nat, NEW cyc \in Nat \ {0},
           \A p \in DOMAIN tab :
             /\ tab[p] \in Rows(cyc)
             /\ tab[p].just => tab[p].kind # "binary" /\ tab[p].cycle = cyc
             /\ ~tab[p].just => Fits(tab[p], cyc) \/ cmd = "quit",
           DOMAIN tab \subseteq 1 .. b, DOMAIN prc \subseteq DOMAIN tab,
           \A p \in DOMAIN prc : prc[p] \in Kids /\ ~tab[p].exited,
           Broadcast(tab, prc, cmd), born' = b, cycle' = cyc
    PROVE  Known'
<1>1. table' = Signalled(tab, cmd) /\ proc' = Told(tab, prc, cmd)
  BY DEF Broadcast
<1>2. /\ DOMAIN table' = DOMAIN tab
      /\ \A p \in DOMAIN tab :
                /\ table'[p] \in Rows(cyc) /\ ~table'[p].just
                /\ Fits(table'[p], cyc)
                /\ table'[p].exited = tab[p].exited
  BY <1>1, SignalledRows
<1>3. DOMAIN proc' = DOMAIN prc /\ \A p \in DOMAIN prc : proc'[p] \in Kids
  BY <1>1, ToldKids
<1>4. \A p \in DOMAIN prc : ~table'[p].exited
  BY <1>2
<1> QED
  BY <1>2, <1>3, <1>4 DEF Known

LEMMA KnownStep ==
    ASSUME Known, [Next]_vars
    PROVE  Known'
<1>0. /\ born \in Nat /\ cycle \in Nat \ {0}
      /\ DOMAIN table \subseteq 1 .. born /\ DOMAIN proc \subseteq DOMAIN table
      /\ \A p \in DOMAIN table : Good(table[p], cycle)
      /\ \A p \in DOMAIN proc : proc[p] \in Kids /\ ~table[p].exited
  BY DEF Known, Good
<1>1. CASE Idles
  BY <1>1 DEF Idles, Known
<1>2. CASE Stops
  <2>1. PICK p \in DOMAIN proc, s \in {"zombie", "fatal"} : proc' = [proc EXCEPT ![p].state = s]
    BY <1>2 DEF Stops
  <2>2. UNCHANGED <<table, born, cycle>>
    BY <1>2 DEF Stops
  <2> DEFINE k == proc[p]
  <2>3. k \in Kids
    BY <1>0
  <2> HIDE DEF k
  <2>4. [k EXCEPT !.state = s] \in Kids
    BY <2>3 DEF Kids
  <2>5. /\ DOMAIN proc' = DOMAIN proc
        /\ \A q \in DOMAIN proc : proc'[q] = IF q = p THEN [k EXCEPT !.state = s] ELSE proc[q]
    BY <2>1 DEF k
  <2> QED
    BY <1>0, <2>2, <2>4, <2>5 DEF Known
<1>3. CASE Tells
  <2>1. PICK cmd \in Cmds : Broadcast(table, proc, cmd)
    BY <1>3 DEF Tells
  <2>2. born' = born /\ cycle' = cycle
    BY <1>3 DEF Tells
  <2>3. \A p \in DOMAIN table : /\ table[p] \in Rows(cycle) /\ ~table[p].just
                                /\ Fits(table[p], cycle)
    BY DEF Known
  <2> QED
    BY <1>0, <2>1, <2>2, <2>3, KnownTold
<1>4. CASE Adds
  <2>1. PICK n \in Nat : \E f :
           /\ DOMAIN f = Fresh(n)
           /\ \A p \in Fresh(n) : Good(f[p], cycle) /\ ~f[p].exited
           /\ table' = With(table, f)
           /\ proc' = WithChildren(n)
           /\ born' = born + n
    BY <1>4 DEF Adds, Good
  <2>2. cycle' = cycle
    BY <1>4 DEF Adds
  <2>3. DOMAIN table \subseteq DOMAIN table /\ \A p \in DOMAIN table : table[p] = table[p]
    OBVIOUS
  <2> QED
    BY <1>0, <2>1, <2>2, <2>3, KnownGrows
<1>5. CASE Wake
  <2>0. UNCHANGED <<born, cycle>>
    BY <1>5 DEF Wake
  <2>1. CASE "CHLD" \in pending
    <3>1. table' = Waited /\ proc' = Restrict(proc, (DOMAIN proc) \ Zombies)
      BY <1>5, <2>1 DEF Wake
    <3>2. ASSUME NEW p \in DOMAIN table
          PROVE  Good(table'[p], cycle) /\ (p \notin Zombies => table'[p] = table[p])
      <4> DEFINE e == table[p]
                 more == e.respawn /\ proc[p].state # "fatal"
      <4>1. Good(e, cycle)
        BY <1>0
      <4>2. table'[p] = IF p \in Zombies THEN [e EXCEPT !.exited = TRUE, !.respawn = more] ELSE e
        BY <3>1 DEF Waited
      <4>3. more \in BOOLEAN
        BY <4>1 DEF Good, Rows
      <4> HIDE DEF e, more
      <4>4. Good([e EXCEPT !.exited = TRUE, !.respawn = more], cycle)
        BY <4>1, <4>3 DEF Good, Rows, Fits
      <4> QED
        BY <4>1, <4>2, <4>4 DEF e
    <3>3. DOMAIN table' = DOMAIN table
      BY <3>1 DEF Waited
    <3>4. /\ DOMAIN proc' = (DOMAIN proc) \ Zombies
          /\ \A p \in (DOMAIN proc) \ Zombies : proc'[p] = proc[p]
      BY <3>1 DEF Restrict
    <3> QED
      BY <1>0, <2>0, <3>2, <3>3, <3>4 DEF Known, Good
  <2>2. CASE "CHLD" \notin pending
    BY <1>5, <2>0, <2>2 DEF Wake, Known
  <2> QED
    BY <2>1, <2>2
<1>6. CASE Reap
  <2>1. PICK out \in SUBSET Exited, new \in SUBSET Respawned, n \in Nat : \E f :
           /\ DOMAIN f = Fresh(n)
           /\ \A p \in Fresh(n) : \E q \in new :
                f[p] = Revived(q)
           /\ table' = With(Kept(out), f)
           /\ proc' = WithChildren(n)
           /\ born' = born + n
           /\ cycle' = cycle
    BY <1>6, ReapFacts
  <2> DEFINE tab == Kept(out)
  <2>2. DOMAIN tab = (DOMAIN table) \ out /\ \A p \in DOMAIN tab : tab[p] = table[p]
    BY DEF Kept, Restrict
  <2>3. DOMAIN proc \subseteq DOMAIN tab
    BY <1>0, <2>2 DEF Exited
  <2>4. ASSUME NEW q \in new
        PROVE  Good(Revived(q), cycle) /\ ~Revived(q).exited
    <3> DEFINE e == table[q]
    <3>1. Good(e, cycle) /\ cycle \in 1 .. cycle
      BY <1>0 DEF Respawned, Exited
    <3> HIDE DEF e
    <3> QED
      BY <3>1 DEF Good, Rows, Fits, Revived, e
  <2> HIDE DEF tab
  <2>5. PICK f :
           /\ DOMAIN f = Fresh(n)
           /\ \A p \in Fresh(n) : \E q \in new :
                f[p] = Revived(q)
           /\ table' = With(tab, f)
           /\ proc' = WithChildren(n)
           /\ born' = born + n
           /\ cycle' = cycle
    BY <2>1 DEF tab
  <2>6. \A p \in Fresh(n) : Good(f[p], cycle) /\ ~f[p].exited
    BY <2>4, <2>5
  <2> QED
    BY <2>2, <2>3, <2>5, <2>6, KnownGrows
<1>7. CASE Reconfigure
  <2>1. PICK n \in Counts, hs \in SUBSET Helpers :
           /\ born' = born + Forked(n, hs)
           /\ Broadcast(With(table, Entries(n, hs, TRUE, cycle + 1)),
                        WithChildren(Forked(n, hs)), "quit")
           /\ cycle' = cycle + 1
    BY <1>7 DEF Reconfigure, Start
  <2> DEFINE m == Forked(n, hs)
             f == Entries(n, hs, TRUE, cycle + 1)
             tab == With(table, f)
             kids == WithChildren(m)
  <2>2. n \in Nat
    BY MasterAssumption DEF Counts
  <2>3. m \in Nat
    BY <2>2, ForkedType
  <2>4. /\ DOMAIN f = Fresh(m)
        /\ \A p \in Fresh(m) : /\ f[p] \in Rows(cycle + 1) /\ f[p].just /\ ~f[p].exited
                               /\ f[p].kind # "binary" /\ f[p].cycle = cycle + 1
    <3>1. TRUE \in BOOLEAN /\ cycle + 1 \in Nat \ {0}
      BY <1>0
    <3>2. /\ DOMAIN Entries(n, hs, TRUE, cycle + 1) = Fresh(Forked(n, hs))
          /\ \A p \in Fresh(Forked(n, hs)) :
               LET e == Entries(n, hs, TRUE, cycle + 1)[p]
               IN /\ e \in Rows(cycle + 1) /\ (e.just <=> TRUE) /\ ~e.exited
                  /\ e.kind # "binary" /\ e.cycle = cycle + 1 /\ Fits(e, cycle + 1)
      BY <2>2, <3>1, EntriesRows
    <3> QED
      BY <3>2
  <2> HIDE DEF m, f
  <2>5. DOMAIN table \subseteq DOMAIN table
    OBVIOUS
  <2>50. tab = With(table, f) /\ kids = WithChildren(m)
    OBVIOUS
  <2> HIDE DEF tab, kids
  <2>6. /\ \A p : p \in DOMAIN tab <=> p \in DOMAIN table \/ p \in Fresh(m)
        /\ DOMAIN tab \subseteq 1 .. born + m
        /\ \A p \in DOMAIN table : tab[p] = table[p]
        /\ \A p \in Fresh(m) : tab[p] = f[p]
        /\ \A p : p \in DOMAIN kids <=> p \in DOMAIN proc \/ p \in Fresh(m)
        /\ DOMAIN kids \subseteq DOMAIN tab
        /\ \A p \in DOMAIN kids : kids[p] \in Kids
    BY <1>0, <2>3, <2>4, <2>5, <2>50, Newborn
  <2>7. ASSUME NEW p \in DOMAIN tab
        PROVE  /\ tab[p] \in Rows(cycle + 1)
               /\ tab[p].just => tab[p].kind # "binary" /\ tab[p].cycle = cycle + 1
    <3>1. CASE p \in DOMAIN table
      <4> DEFINE e == table[p]
      <4>1. Good(e, cycle) /\ tab[p] = e
        BY <1>0, <2>6, <3>1
      <4>2. 1 .. cycle \subseteq 1 .. cycle + 1
        BY <1>0
      <4> HIDE DEF e
      <4> QED
        BY <4>1, <4>2 DEF Good, Rows
    <3>2. CASE p \in Fresh(m)
      BY <2>4, <2>6, <3>2
    <3> QED
      BY <2>6, <3>1, <3>2
  <2>8. \A p \in DOMAIN kids : kids[p] \in Kids /\ ~tab[p].exited
    BY <1>0, <2>4, <2>6
  <2>9. "quit" \in Cmds /\ born + m \in Nat /\ cycle + 1 \in Nat \ {0}
    BY <1>0, <2>3 DEF Cmds
  <2>10. Broadcast(tab, kids, "quit") /\ born' = born + m /\ cycle' = cycle + 1
    BY <2>1 DEF tab, kids, f, m
  <2> QED
    BY <2>6, <2>7, <2>8, <2>9, <2>10, KnownTold
<1> QED
  BY <1>1, <1>2, <1>3, <1>4, <1>5, <1>6, <1>7, StepKinds

\* The master's own variables.
LEMMA LoopsStep ==
    ASSUME Loops, Known, [Next]_vars
    PROVE  Loops'
<1> USE DEF Loops
<1>0. /\ "top" \in Steps /\ "suspended" \in Steps /\ "dispatch" \in Steps
      /\ "reap" \in Steps /\ "exited" \in Steps
      /\ "reap" \in Flags /\ "restart" \in Flags
  BY DEF Steps, Flags
<1>1. \A f, tab, cmd : After(f, tab, cmd) \subseteq Flags
  BY <1>0 DEF After
<1>2. Started \in Nat /\ WorkerProcesses \in Nat /\ cycle + 1 \in Nat \ {0}
  BY MasterAssumption DEF Started
<1>3. ASSUME NEW i \in 0 .. 3, NEW fl PROVE NextStep(i, fl) \in Steps
  BY NextStepType
<1>4. ASSUME NEW m \in Nat, born' = born + m
      PROVE  born' \in Nat /\ 1 .. born \subseteq 1 .. born'
  BY <1>4
<1>5. ASSUME NEW n \in Counts, NEW hs \in SUBSET Helpers, Start(n, hs)
      PROVE  born' \in Nat /\ 1 .. born \subseteq 1 .. born'
  <2>1. n \in Nat
    BY MasterAssumption DEF Counts
  <2>2. Forked(n, hs) \in Nat /\ born' = born + Forked(n, hs)
    BY <1>5, <2>1, ForkedType DEF Start
  <2> HIDE DEF Loops
  <2> QED
    BY <1>4, <2>2
<1>6. CASE Top
  <2>1. 2 * delay \in Nat
    OBVIOUS
  <2> QED
    BY <1>0, <1>2, <1>6, <2>1 DEF Top
<1>7. CASE Wake
  <2>1. Raised \subseteq Flags
    BY DEF Raised
  <2> QED
    BY <1>0, <1>7, <2>1 DEF Wake
<1>8. CASE Reap
  <2>1. PICK gone \in SUBSET Exited, m \in Nat :
           /\ born' = born + m
           /\ live' \in BOOLEAN
           /\ BinaryGone(gone)
    <3>1. \E out \in SUBSET Exited, new \in SUBSET Respawned, gone \in SUBSET Exited, n \in Nat : \E f :
             /\ DOMAIN f = Fresh(n)
             /\ \A p \in Fresh(n) : \E q \in new : f[p] = Revived(q)
             /\ new = {} => n = 0
             /\ table' = With(Kept(out), f)
             /\ proc' = WithChildren(n)
             /\ born' = born + n
             /\ live' \in BOOLEAN /\ (live' <=> new # {} \/ Left # {})
             /\ BinaryGone(gone)
             /\ cycle' = cycle
      BY <1>8, ReapFacts
    <3> HIDE DEF Loops
    <3> QED
      BY <3>1
  <2>2. born' \in Nat /\ 1 .. born \subseteq 1 .. born'
    BY <1>4, <2>1
  <2>3. newBinary' \in {newBinary, None} /\ noaccepting' \in {FALSE, noaccepting} /\ flags' \subseteq Flags
    BY <1>0, <2>1 DEF BinaryGone
  <2>4. UNCHANGED <<pending, delay, sigio, alarm, cycle>> /\ pc' = "dispatch"
    BY <1>8 DEF Reap
  <2> QED
    BY <1>0, <2>1, <2>2, <2>3, <2>4
<1>9. CASE Exit
  BY <1>0, <1>9 DEF Exit
<1>10. CASE TerminateWaits
  <2>1. sigio' \in 0 .. WorkerProcesses + 2
    BY <1>2, <1>10 DEF TerminateWaits
  <2> QED
    BY <1>0, <1>2, <1>10, <2>1 DEF TerminateWaits
<1>11. CASE Terminate
  <2>1. WorkerProcesses + 2 \in 0 .. WorkerProcesses + 2
    BY <1>2
  <2>2. flags' \subseteq Flags
    BY <1>1, <1>11 DEF Terminate
  <2>3. /\ pc' = "top" /\ delay' = Started /\ sigio' = WorkerProcesses + 2
        /\ UNCHANGED <<live, noaccepting, newBinary, cycle, pending, alarm, born>>
    BY <1>11 DEF Terminate
  <2> QED
    BY <1>0, <1>2, <2>1, <2>2, <2>3
<1>12. CASE Quit
  BY <1>0, <1>1, <1>12 DEF Quit
<1>13. CASE ReconfigureInUpgrade
  <2>1. born' \in Nat /\ 1 .. born \subseteq 1 .. born'
    BY <1>5, <1>13 DEF ReconfigureInUpgrade
  <2> QED
    BY <1>0, <1>13, <2>1 DEF ReconfigureInUpgrade
<1>14. CASE Reconfigure
  <2>1. born' \in Nat /\ 1 .. born \subseteq 1 .. born'
    BY <1>5, <1>14 DEF Reconfigure
  <2>2. flags' \subseteq Flags
    BY <1>1, <1>14 DEF Reconfigure
  <2>3. pc' = NextStep(0, flags')
    BY <1>14 DEF Reconfigure
  <2>5. NextStep(0, flags') \in Steps
    BY <1>3
  <2>4. cycle' = cycle + 1 /\ live' = TRUE /\ UNCHANGED <<delay, sigio, noaccepting, newBinary, pending, alarm>>
    BY <1>14 DEF Reconfigure
  <2> QED
    BY <1>2, <2>1, <2>2, <2>3, <2>4, <2>5
<1>15. CASE ReconfigureFails
  BY <1>0, <1>15 DEF ReconfigureFails
<1>16. CASE NoReconfigure
  <2>1. NextStep(0, flags) \in Steps
    BY <1>3
  <2> QED
    BY <1>16, <2>1 DEF NoReconfigure
<1>17. CASE Restart
  <2>1. born' \in Nat /\ 1 .. born \subseteq 1 .. born'
    BY <1>5, <1>17 DEF Restart
  <2>2. NextStep(1, flags') \in Steps
    BY <1>3
  <2> QED
    BY <1>17, <2>1, <2>2 DEF Restart
<1>18. CASE Reopen
  <2>1. NextStep(2, flags') \in Steps
    BY <1>3
  <2> QED
    BY <1>1, <1>18, <2>1 DEF Reopen
<1>19. CASE ChangeBinary
  <2>1. NextStep(3, flags') \in Steps
    BY <1>3
  <2>2. born' \in Nat /\ born + 1 \in 1 .. born'
    BY <1>19 DEF ChangeBinary
  <2> QED
    BY <1>19, <2>1, <2>2 DEF ChangeBinary
<1>20. CASE ChangeBinaryFails
  <2>1. NextStep(3, flags') \in Steps
    BY <1>3
  <2> QED
    BY <1>20, <2>1 DEF ChangeBinaryFails
<1>21. CASE NoAccept
  BY <1>0, <1>1, <1>21 DEF NoAccept
<1>22. CASE AlarmRings
  BY <1>22 DEF AlarmRings, loopVars
<1>23. CASE \E s \in Commands : Command(s)
  BY <1>23 DEF Command, loopVars
<1>24. CASE \E p \in DOMAIN proc : Killed(p) \/ Leaves(p) \/ Dies(p) \/ DiesFatally(p)
  <2>1. Stops /\ UNCHANGED <<loopVars, alarm>> /\ pending' = pending \cup {"CHLD"}
    BY <1>24, Stopping
  <2> QED
    BY <2>1 DEF Stops, loopVars
<1>25. CASE UNCHANGED vars
  BY <1>25 DEF vars, loopVars
<1> QED
  BY <1>6, <1>7, <1>8, <1>9, <1>10, <1>11, <1>12, <1>13, <1>14, <1>15, <1>16, <1>17,
     <1>18, <1>19, <1>20, <1>21, <1>22, <1>23, <1>24, <1>25 DEF Next, Loop, Body

\* No child starts to run or changes its kind.
Shrinks == \A p \in DOMAIN proc' : /\ p \in DOMAIN proc
                                   /\ proc'[p].state = "running" => proc[p].state = "running"
                                   /\ table'[p].kind = table[p].kind

LEMMA Shrinking ==
    ASSUME Known, Idles \/ Stops \/ Tells \/ Wake
    PROVE  Shrinks
<1>0. /\ DOMAIN proc \subseteq DOMAIN table
      /\ \A p \in DOMAIN table : Good(table[p], cycle)
      /\ \A p \in DOMAIN proc : proc[p] \in Kids
      /\ cycle \in Nat
  BY DEF Known, Good
<1>1. CASE Idles
  BY <1>1 DEF Idles, Shrinks
<1>2. CASE Stops
  <2>1. PICK p \in DOMAIN proc, s \in {"zombie", "fatal"} : proc' = [proc EXCEPT ![p].state = s]
    BY <1>2 DEF Stops
  <2>2. table' = table
    BY <1>2 DEF Stops
  <2>3. [proc[p] EXCEPT !.state = s].state = s
    BY <1>0 DEF Kids
  <2>4. /\ DOMAIN proc' = DOMAIN proc
        /\ \A q \in DOMAIN proc : proc'[q] = IF q = p THEN [proc[p] EXCEPT !.state = s] ELSE proc[q]
    BY <2>1
  <2> QED
    BY <2>2, <2>3, <2>4 DEF Shrinks
<1>3. CASE Tells
  <2>1. PICK cmd \in Cmds : table' = Signalled(table, cmd) /\ proc' = Told(table, proc, cmd)
    BY <1>3 DEF Tells, Broadcast
  <2>2. \A p \in DOMAIN table : /\ table[p] \in Rows(cycle) /\ ~table[p].just
                                /\ Fits(table[p], cycle)
    BY <1>0 DEF Good
  <2>3. \A p \in DOMAIN table : table'[p].kind = table[p].kind
    BY <1>0, <2>1, <2>2, SignalledRows
  <2>4. DOMAIN proc' = DOMAIN proc /\ \A p \in DOMAIN proc : proc'[p].state = proc[p].state
    BY <1>0, <2>1, ToldKids
  <2> QED
    BY <1>0, <2>3, <2>4 DEF Shrinks
<1>4. CASE Wake
  <2>1. CASE "CHLD" \in pending
    <3>1. table' = Waited /\ proc' = Restrict(proc, (DOMAIN proc) \ Zombies)
      BY <1>4, <2>1 DEF Wake
    <3>2. \A p \in DOMAIN proc' : p \in DOMAIN proc /\ p \notin Zombies /\ proc'[p] = proc[p]
      BY <3>1 DEF Restrict
    <3>3. \A p \in DOMAIN table : p \notin Zombies => table'[p] = table[p]
      BY <3>1 DEF Waited
    <3> QED
      BY <1>0, <3>2, <3>3 DEF Shrinks
  <2>2. CASE "CHLD" \notin pending
    BY <1>4, <2>2 DEF Wake, Shrinks
  <2> QED
    BY <2>1, <2>2
<1> QED
  BY <1>1, <1>2, <1>3, <1>4

\* The master knows whether children of its own are left.
LEMMA AloneStep ==
    ASSUME Loops, Known, Alone, [Next]_vars
    PROVE  Alone'
<1>1. ASSUME Shrinks, UNCHANGED <<live, newBinary>>, pc' = "exited" => pc = "exited" \/ ~live
      PROVE  Alone'
  BY <1>1 DEF Shrinks, Alone, NoChildren
<1>2. ASSUME NEW i \in 0 .. 3, NEW fl PROVE NextStep(i, fl) # "exited"
  BY NextStepType
<1>3. CASE Top \/ Exit \/ TerminateWaits \/ ReconfigureFails \/ NoReconfigure
  <2>1. Idles /\ UNCHANGED <<live, newBinary>>
    BY <1>3 DEF Top, Exit, TerminateWaits, ReconfigureFails, NoReconfigure, Idles
  <2>2. NextStep(0, flags) # "exited"
    BY <1>2
  <2>3. pc' = "exited" => ~live
    BY <1>3, <2>2 DEF Top, Exit, TerminateWaits, ReconfigureFails, NoReconfigure
  <2> QED
    BY <1>1, <2>1, <2>3, Shrinking
<1>4. CASE AlarmRings \/ (\E s \in Commands : Command(s)) \/ UNCHANGED vars
  <2>1. Idles /\ UNCHANGED <<live, newBinary, pc>>
    BY <1>4 DEF AlarmRings, Command, vars, loopVars, Idles
  <2> QED
    BY <1>1, <2>1, Shrinking
<1>5. CASE \E p \in DOMAIN proc : Killed(p) \/ Leaves(p) \/ Dies(p) \/ DiesFatally(p)
  <2>1. Stops /\ UNCHANGED loopVars
    BY <1>5, Stopping
  <2>2. UNCHANGED <<live, newBinary, pc>>
    BY <2>1 DEF loopVars
  <2> QED
    BY <1>1, <2>1, <2>2, Shrinking
<1>6. CASE Terminate
  <2>1. \E cmd \in {"kill", "term"} : Broadcast(table, proc, cmd)
    BY <1>6 DEF Terminate
  <2>2. Tells /\ UNCHANGED <<live, newBinary>> /\ pc' = "top"
    BY <1>6, <2>1 DEF Terminate, Tells, Cmds
  <2> QED
    BY <1>1, <2>2, Shrinking
<1>7. CASE Quit \/ Reopen \/ NoAccept
  <2>1. Tells /\ UNCHANGED <<live, newBinary>>
    BY <1>7 DEF Quit, Reopen, NoAccept, Tells, Cmds
  <2>2. NextStep(2, flags') # "exited"
    BY <1>2
  <2>3. pc' # "exited"
    BY <1>7, <2>2 DEF Quit, Reopen, NoAccept
  <2> QED
    BY <1>1, <2>1, <2>3, Shrinking
<1>8. CASE Wake
  <2>1. UNCHANGED <<live, newBinary>> /\ pc' # "exited"
    BY <1>8 DEF Wake
  <2> QED
    BY <1>1, <1>8, <2>1, Shrinking
<1>9. CASE ReconfigureInUpgrade
  BY <1>9 DEF ReconfigureInUpgrade, Alone
<1>10. CASE Reconfigure \/ Restart
  <2>1. NextStep(0, flags') # "exited" /\ NextStep(1, flags') # "exited"
    BY <1>2
  <2>2. live' = TRUE /\ pc' \in {NextStep(0, flags'), NextStep(1, flags')}
    BY <1>10 DEF Reconfigure, Restart
  <2> QED
    BY <2>1, <2>2 DEF Alone
<1>11. CASE ChangeBinary \/ ChangeBinaryFails
  <2>1. NextStep(3, flags') # "exited"
    BY <1>2
  <2>2. pc' = NextStep(3, flags') /\ newBinary' \in {born + 1, Invalid}
    BY <1>11 DEF ChangeBinary, ChangeBinaryFails
  <2>3. newBinary' # None
    BY <2>2, MasterAssumption DEF Loops
  <2> QED
    BY <2>1, <2>2, <2>3 DEF Alone
<1>12. CASE Reap
  <2>1. PICK out \in SUBSET Exited, new \in SUBSET Respawned, n \in Nat : \E f :
           /\ DOMAIN f = Fresh(n)
           /\ new = {} => n = 0
           /\ table' = With(Kept(out), f)
           /\ proc' = WithChildren(n)
           /\ (live' <=> new # {} \/ Left # {})
    <3>1. \E out \in SUBSET Exited, new \in SUBSET Respawned, gone \in SUBSET Exited, n \in Nat : \E f :
             /\ DOMAIN f = Fresh(n)
             /\ \A p \in Fresh(n) : \E q \in new : f[p] = Revived(q)
             /\ new = {} => n = 0
             /\ table' = With(Kept(out), f)
             /\ proc' = WithChildren(n)
             /\ born' = born + n
             /\ live' \in BOOLEAN /\ (live' <=> new # {} \/ Left # {})
             /\ BinaryGone(gone)
             /\ cycle' = cycle
      BY <1>12, ReapFacts
    <3> QED
      BY <3>1
  <2>2. PICK f :
           /\ DOMAIN f = Fresh(n)
           /\ new = {} => n = 0
           /\ table' = With(Kept(out), f)
           /\ proc' = WithChildren(n)
           /\ (live' <=> new # {} \/ Left # {})
    BY <2>1
  <2>3. pc' = "dispatch"
    BY <1>12 DEF Reap
  <2> DEFINE tab == Kept(out)
  <2>4. DOMAIN tab = (DOMAIN table) \ out /\ \A p \in DOMAIN tab : tab[p] = table[p]
    BY DEF Kept, Restrict
  <2>5. /\ DOMAIN proc \subseteq DOMAIN table
        /\ \A p \in DOMAIN proc : ~table[p].exited
    BY DEF Known
  <2>6. DOMAIN tab \subseteq DOMAIN table /\ DOMAIN proc \subseteq DOMAIN tab
    BY <2>4, <2>5 DEF Exited
  <2>7. table' = With(tab, f)
    BY <2>2
  <2> HIDE DEF tab
  <2>8. /\ \A p \in DOMAIN tab : table'[p] = tab[p]
        /\ \A p : p \in DOMAIN proc' <=> p \in DOMAIN proc \/ p \in Fresh(n)
        /\ \A p \in DOMAIN proc : proc'[p] = proc[p]
    BY <2>2, <2>6, <2>7, Newborn
  <2>9. ASSUME ~live', NEW p \in DOMAIN proc'
        PROVE  table'[p].kind = "binary"
    <3>1. n = 0 /\ Left = {}
      BY <2>2, <2>9
    <3>2. Fresh(n) = {}
      BY <3>1 DEF Fresh, Loops
    <3>3. p \in DOMAIN proc /\ table'[p] = table[p] /\ p \in DOMAIN table
      BY <2>4, <2>5, <2>6, <2>8, <2>9, <3>2
    <3>4. Detached(p)
      BY <2>5, <3>1, <3>3 DEF Left
    <3> QED
      BY <3>3, <3>4 DEF Detached
  <2> QED
    BY <2>3, <2>9 DEF Alone, NoChildren
<1> QED
  BY <1>3, <1>4, <1>5, <1>6, <1>7, <1>8, <1>9, <1>10, <1>11, <1>12 DEF Next, Loop, Body

LEMMA InitInv == Init => Inv
<1> SUFFICES ASSUME Init PROVE Inv
  OBVIOUS
<1> DEFINE n == WorkerProcesses + Cardinality(Helpers)
           row(p) == Entry(Kind(p, WorkerProcesses, Helpers), FALSE, 1)
<1>1. n \in Nat
  <2>1. Helpers \in SUBSET Helpers
    OBVIOUS
  <2> QED
    BY <2>1, HelpersFinite, MasterAssumption
<1>2. \A p : row(p) \in Rows(1) /\ ~row(p).just /\ ~row(p).exited /\ Fits(row(p), 1)
  <2>1. \A i, k, hs : Kind(i, k, hs) \in Kinds
    BY DEF Kind, Kinds
  <2>2. \A kind \in Kinds : LET e == Entry(kind, FALSE, 1)
                            IN e \in Rows(1) /\ ~e.just /\ ~e.exited /\ Fits(e, 1)
    BY DEF Entry, Rows, Fits
  <2> QED
    BY <2>1, <2>2
<1>3. /\ born = n /\ cycle = 1
      /\ table = [p \in 1 .. n |-> row(p)]
      /\ proc = [p \in 1 .. n |-> Child]
  BY DEF Init
<1>4. Child \in Kids
  BY DEF Child, Kids
<1> HIDE DEF n, row
<1>5. Known
  BY <1>1, <1>2, <1>3, <1>4 DEF Known
<1>6. Loops
  <2>1. /\ pc = "top" /\ flags = {} /\ pending = {} /\ live = TRUE /\ delay = 0 /\ sigio = 0
        /\ alarm = FALSE /\ noaccepting = FALSE /\ newBinary = None
    BY DEF Init
  <2>2. 0 \in 0 .. WorkerProcesses + 2 /\ "top" \in Steps
    BY MasterAssumption DEF Steps
  <2>3. live \in BOOLEAN /\ alarm \in BOOLEAN /\ noaccepting \in BOOLEAN
    BY <2>1, Zenon
  <2>4. born \in Nat /\ cycle \in Nat \ {0} /\ delay \in Nat /\ sigio \in 0 .. WorkerProcesses + 2
    BY <1>1, <1>3, <2>1, <2>2
  <2> QED
    BY <2>1, <2>2, <2>3, <2>4 DEF Loops
<1>7. Alone
  BY DEF Init, Alone
<1> QED
  BY <1>5, <1>6, <1>7 DEF Inv

THEOREM Invariance == Spec => []Inv
<1>1. Init => Inv
  BY InitInv
<1>2. Inv /\ [Next]_vars => Inv'
  <2> SUFFICES ASSUME Loops, Known, Alone, [Next]_vars PROVE Loops' /\ Known' /\ Alone'
    BY DEF Inv
  <2> QED
    BY LoopsStep, KnownStep, AloneStep
<1> QED
  BY <1>1, <1>2, PTL DEF Spec

----------------------------------------------------------------------------
\* Whatever signals come and whichever children die, the master's variables and
\* its table stay well formed: pids are never used twice, and every child that
\* exists has its entry (ngx_spawn_process, ngx_reap_children).
THEOREM TypeCorrect == Spec => []TypeOK
<1>1. Inv => TypeOK
  <2> SUFFICES ASSUME Inv PROVE TypeOK
    OBVIOUS
  <2>1. Loops
    BY DEF Inv
  <2>2. /\ DOMAIN table \subseteq 1 .. born /\ DOMAIN proc \subseteq DOMAIN table
        /\ \A p \in DOMAIN table : table[p] \in Rows(cycle)
    BY DEF Inv, Known
  <2> QED
    BY <2>1, <2>2 DEF TypeOK, Loops, Rows
<1> QED
  BY <1>1, Invariance, PTL

\* A reconfiguration reaches every worker, for any number of workers and any
\* failures: no worker keeps an old configuration unless it was asked to exit
\* (ngx_signal_worker_processes spares only those just spawned; a respawned
\* worker takes the current cycle).
THEOREM OneConfigurationKept == Spec => []OneConfiguration
<1>1. Inv => OneConfiguration
  BY DEF Inv, Known, Fits, OneConfiguration, Detached
<1> QED
  BY <1>1, Invariance, PTL

\* The master does not exit before its last child, unless a new binary takes
\* over: `live', computed by the last reaping, is still right when it is read.
THEOREM MasterLast == Spec => []MasterGoesLast
<1>1. Inv => MasterGoesLast
  BY DEF Inv, Alone, NoChildren, MasterGoesLast, Children, Running, Detached
<1> QED
  BY <1>1, Invariance, PTL

=============================================================================
