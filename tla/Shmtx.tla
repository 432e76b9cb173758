------------------------------- MODULE Shmtx -------------------------------
(***************************************************************************)
(* ngx_shmtx_t (core/ngx_shmtx.c, the atomic-operations build): the lock   *)
(* word holds the pid of its owner or 0; a process that cannot get it      *)
(* spins, then counts itself in `wait' and sleeps on the POSIX semaphore.  *)
(* One atomic memory operation of the code is one step here.  The master   *)
(* is an actor too: when a worker dies it runs ngx_shmtx_force_unlock for  *)
(* the dead pid (ngx_process.c, ngx_unlock_mutexes) and then wakes a       *)
(* sleeper with the same ngx_shmtx_wakeup the owner would have run.        *)
(*                                                                         *)
(* Abstracted: the PAUSE loops (a spin is any number of failed attempts),  *)
(* sem_wait interrupted by a signal (the code just waits again), logging.  *)
(***************************************************************************)
EXTENDS Integers, FiniteSets

CONSTANTS Procs,       \* worker processes
          Master,      \* the master process: it only reaps
          Free,        \* the lock word 0
          Semaphore,   \* mtx->semaphore: FALSE for the accept mutex (spin = -1)
          MaxCrashes   \* bound on worker deaths

ASSUME ShmtxAssumption ==
    /\ IsFiniteSet(Procs)
    /\ Master \notin Procs
    /\ Free \notin Procs
    /\ Semaphore \in BOOLEAN
    /\ MaxCrashes \in Nat

Actors == Procs \cup {Master}

VARIABLES lock,    \* *mtx->lock
          wait,    \* *mtx->wait, read as a signed integer by the code
          sem,     \* value of mtx->sem
          pc,      \* where each actor is in the lock operations
          seen,    \* the local variable `wait' of ngx_shmtx_wakeup
          crashes, \* number of deaths so far (bounded by MaxCrashes)
          torn     \* history: the processes that died on their way to the lock or out of it

vars == <<lock, wait, sem, pc, seen, crashes, torn>>

Asking    == {"spin", "enqueue", "recheck", "semwait"}
Holding   == {"undo", "cs"}
Waking    == {"wread", "wcas", "post"}
\* steps an actor that sleeps nowhere and owns nothing still has to take
Active    == {"spin", "enqueue", "recheck"} \cup Waking
Counted   == {"recheck", "undo", "semwait"}   \* has added itself to `wait'
Places    == Asking \cup Holding \cup Waking \cup {"idle", "dead", "gone"}

At(S) == {a \in Actors : pc[a] \in S}

Goto(a, to) == pc' = [pc EXCEPT ![a] = to]

----------------------------------------------------------------------------
Init == /\ lock = Free
        /\ wait = 0
        /\ sem = 0
        /\ pc = [a \in Actors |-> "idle"]
        /\ seen = [a \in Actors |-> 0]
        /\ crashes = 0
        /\ torn = {}

----------------------------------------------------------------------------
(* ngx_shmtx_trylock: a failed attempt changes nothing and is a stutter.   *)

TryLock(p) == /\ pc[p] = "idle"
              /\ lock = Free
              /\ lock' = p
              /\ Goto(p, "cs")
              /\ UNCHANGED <<wait, sem, seen, crashes, torn>>

----------------------------------------------------------------------------
(* ngx_shmtx_lock                                                          *)

Lock(p) == /\ pc[p] = "idle"
           /\ Goto(p, "spin")
           /\ UNCHANGED <<lock, wait, sem, seen, crashes, torn>>

\* Mutant: the lock word is stored without comparing it with 0.
SpinAcquireUnchecked(p) == /\ pc[p] = "spin"
                           /\ lock' = p
                           /\ Goto(p, "cs")
                           /\ UNCHANGED <<wait, sem, seen, crashes, torn>>

SpinAcquire(p) == /\ pc[p] = "spin"
                  /\ lock = Free
                  /\ lock' = p
                  /\ Goto(p, "cs")
                  /\ UNCHANGED <<wait, sem, seen, crashes, torn>>

\* Without a semaphore the code yields the processor and spins again.
SpinExhausted(p) == /\ pc[p] = "spin"
                    /\ Semaphore
                    /\ lock # Free
                    /\ Goto(p, "enqueue")
                    /\ UNCHANGED <<lock, wait, sem, seen, crashes, torn>>

\* Mutant: no second look at the lock word between counting and sleeping.
EnqueueAndSleep(p) == /\ pc[p] = "enqueue"
                      /\ wait' = wait + 1
                      /\ Goto(p, "semwait")
                      /\ UNCHANGED <<lock, sem, seen, crashes, torn>>

Enqueue(p) == /\ pc[p] = "enqueue"
              /\ wait' = wait + 1
              /\ Goto(p, "recheck")
              /\ UNCHANGED <<lock, sem, seen, crashes, torn>>

RecheckAcquire(p) == /\ pc[p] = "recheck"
                     /\ lock = Free
                     /\ lock' = p
                     /\ Goto(p, "undo")
                     /\ UNCHANGED <<wait, sem, seen, crashes, torn>>

Dequeue(p) == /\ pc[p] = "undo"
              /\ wait' = wait - 1
              /\ Goto(p, "cs")
              /\ UNCHANGED <<lock, sem, seen, crashes, torn>>

RecheckFailed(p) == /\ pc[p] = "recheck"
                    /\ lock # Free
                    /\ Goto(p, "semwait")
                    /\ UNCHANGED <<lock, wait, sem, seen, crashes, torn>>

\* A failure of sem_wait other than EINTR cannot happen to a live semaphore.
SemWait(p) == /\ pc[p] = "semwait"
              /\ sem > 0
              /\ sem' = sem - 1
              /\ Goto(p, "spin")
              /\ UNCHANGED <<lock, wait, seen, crashes, torn>>

----------------------------------------------------------------------------
(* ngx_shmtx_unlock and ngx_shmtx_force_unlock: the same compare-and-set,  *)
(* of the caller's pid or of the pid of a dead process, then the wake-up.  *)

Release(a, holder) ==
    IF lock = holder
    THEN /\ lock' = Free
         /\ Goto(a, IF Semaphore THEN "wread" ELSE "idle")
    ELSE /\ Goto(a, "idle")
         /\ UNCHANGED lock

Unlock(p) == /\ pc[p] = "cs"
             /\ Release(p, p)
             /\ UNCHANGED <<wait, sem, seen, crashes, torn>>

----------------------------------------------------------------------------
(* ngx_shmtx_wakeup: read `wait', take one off it, post the semaphore.     *)
(* seen[a] is 0 outside "wcas": a local the code no longer reads.          *)

WakeRead(a) == /\ pc[a] = "wread"
               /\ IF wait <= 0
                  THEN UNCHANGED seen                     /\ Goto(a, "idle")
                  ELSE seen' = [seen EXCEPT ![a] = wait]  /\ Goto(a, "wcas")
               /\ UNCHANGED <<lock, wait, sem, crashes, torn>>

WakeCas(a) == /\ pc[a] = "wcas"
              /\ IF wait = seen[a]
                 THEN wait' = wait - 1 /\ Goto(a, "post")
                 ELSE UNCHANGED wait   /\ Goto(a, "wread")
              /\ seen' = [seen EXCEPT ![a] = 0]
              /\ UNCHANGED <<lock, sem, crashes, torn>>

Post(a) == /\ pc[a] = "post"
           /\ sem' = sem + 1
           /\ Goto(a, "idle")
           /\ UNCHANGED <<lock, wait, seen, crashes, torn>>

----------------------------------------------------------------------------
(* Death of a worker, SIGCHLD in the master, and a fresh worker.           *)

Crash(p) == /\ crashes < MaxCrashes
            /\ pc[p] \notin {"dead", "gone"}
            /\ crashes' = crashes + 1
            /\ torn' = IF pc[p] \in Active THEN torn \cup {p} ELSE torn
            /\ Goto(p, "dead")
            /\ seen' = [seen EXCEPT ![p] = 0]
            /\ UNCHANGED <<lock, wait, sem>>

\* Mutant: the reaper compares the lock word with its own pid.
ReapOwnPid(p) == /\ pc[Master] = "idle"
                 /\ pc[p] = "dead"
                 /\ pc' = [pc EXCEPT ![p] = "gone"]
                 /\ UNCHANGED <<lock, wait, sem, seen, crashes, torn>>

Reap(p) == /\ pc[Master] = "idle"
           /\ pc[p] = "dead"
           /\ IF lock = p
              THEN /\ lock' = Free
                   /\ pc' = [pc EXCEPT ![p] = "gone",
                               ![Master] = IF Semaphore THEN "wread" ELSE "idle"]
              ELSE /\ Goto(p, "gone")
                   /\ UNCHANGED lock
           /\ UNCHANGED <<wait, sem, seen, crashes, torn>>

\* The master starts workers from its main loop, after its signal handler.
Respawn(p) == /\ pc[Master] = "idle"
              /\ pc[p] = "gone"
              /\ Goto(p, "idle")
              /\ UNCHANGED <<lock, wait, sem, seen, crashes, torn>>

----------------------------------------------------------------------------
Wakeup(a) == WakeRead(a) \/ WakeCas(a) \/ Post(a)

\* What a process inside a lock operation does without anybody's permission.
Progress(p) == \/ SpinAcquire(p) \/ SpinExhausted(p) \/ Enqueue(p)
               \/ RecheckAcquire(p) \/ RecheckFailed(p) \/ Dequeue(p)
               \/ SemWait(p)

Next == \/ \E p \in Procs : \/ TryLock(p) \/ Lock(p) \/ Progress(p) \/ Unlock(p)
                            \/ Crash(p) \/ Reap(p) \/ Respawn(p)
        \/ \E a \in Actors : Wakeup(a)

Spec == Init /\ [][Next]_vars

\* A running process takes its next step, critical sections end, and the
\* kernel delivers SIGCHLD; nothing forces a process to lock or to die.
Fairness == /\ \A p \in Procs : WF_vars(Progress(p) \/ Unlock(p)) /\ WF_vars(Reap(p))
            /\ \A a \in Actors : WF_vars(Wakeup(a))

FairSpec == Spec /\ Fairness

----------------------------------------------------------------------------
TypeOK == /\ lock \in Procs \cup {Free}
          /\ wait \in Int
          /\ sem \in Nat
          /\ pc \in [Actors -> Places]
          /\ seen \in [Actors -> Int]
          /\ crashes \in 0 .. MaxCrashes
          /\ torn \subseteq Procs

\* Between the compare-and-set that takes the lock and the one that gives it
\* up the lock word names the process: no other process, and no forced unlock
\* of a dead one, takes the lock from under it (ngx_shmtx.c 174-203, 252, 264).
MutualExclusion == \A p \in Procs : pc[p] \in Holding => lock = p

\* The count of sleepers never falls short: unless a process died on its way,
\* every process that has counted itself is covered by `wait', by a posted token
\* or by one about to be posted, however its increment, recheck and decrement interleave with the wakers
\* (ngx_shmtx.c 198-203, 283-301).
SleepersCounted ==
    torn = {} => wait + sem + Cardinality(At({"post"})) >= Cardinality(At(Counted))

\* Somebody sleeps on the semaphore although the lock is free, no token is
\* posted and nobody is on the way to the lock or out of it.
Stranded == /\ lock = Free
            /\ sem = 0
            /\ At({"semwait"}) # {}
            /\ At(Active) = {}

\* A wake-up is never lost between processes that live: the recheck after
\* counting (ngx_shmtx.c 201) closes the window in which the owner saw nobody.
NoLostWakeup == Stranded => torn # {}

\* A lock whose owner died is given back by the master (ngx_process.c
\* 1037-1081), whatever the other processes do with it.
DeadOwnerReleased == \A p \in Procs : (pc[p] = "dead" /\ lock = p) ~> (lock # p)

\* The detailed lock implements the abstract one.
M == INSTANCE Mutex WITH owner <- lock, waiting <- At(Asking)

\* Deaths included, what the lock does is what a lock may do.
ImplementsMutexSafely == M!SafeSpec

\* And it keeps the abstract lock's promise of progress (Mutex, WF of Acquire):
\* a free lock somebody asks for is taken, unless a process died on its way.
FreeLockTaken == (lock = Free /\ At(Asking) # {})
                    ~> (lock # Free \/ At(Asking) = {} \/ torn # {})
=============================================================================
