---------------------------- MODULE ShmtxProofs ----------------------------
(***************************************************************************)
(* Proofs about the two locks of a shared zone, for any finite set of      *)
(* workers.  Shmtx, with any number of deaths: the lock excludes, its      *)
(* count of sleepers never falls short, no wake-up is lost between the     *)
(* living, and every step is a step of the abstract lock.  Rwlock: the     *)
(* word is exact, hence the lock is a read-write lock.                     *)
(***************************************************************************)
EXTENDS Shmtx, Rwlock, FiniteSetTheorems, TLAPS

\* How many actors of a placement f stand in S.
Count(f, S) == Cardinality({a \in Actors : f[a] \in S})

\* 1 for a place in S, 0 for another.
In(x, S) == IF x \in S THEN 1 ELSE 0

\* From placement f to placement g only actor a has moved.
Moved(f, g, a) == /\ f \in [Actors -> Places] /\ g \in [Actors -> Places]
                  /\ a \in Actors
                  /\ \A x \in Actors \ {a} : g[x] = f[x]

\* Moving one actor changes a count by what it leaves and what it enters.
LEMMA CountMoved ==
    ASSUME NEW f, NEW g, NEW a, Moved(f, g, a), NEW S
    PROVE  Count(g, S) = Count(f, S) - In(f[a], S) + In(g[a], S)
<1> USE DEF Moved
<1> DEFINE T == {x \in Actors : f[x] \in S}
           U == {x \in Actors : g[x] \in S}
           R == T \ {a}
<1>1. IsFiniteSet(Actors)
  BY ShmtxAssumption, FS_AddElement DEF Actors
<1>2. IsFiniteSet(T)
  BY <1>1, FS_Subset
<1>3. IsFiniteSet(R) /\ Cardinality(R) = IF a \in T THEN Cardinality(T) - 1 ELSE Cardinality(T)
  BY <1>2, FS_RemoveElement
<1>4. U = IF g[a] \in S THEN R \cup {a} ELSE R
  OBVIOUS
<1>5. Cardinality(R \cup {a}) = Cardinality(R) + 1
  BY <1>3, FS_AddElement
<1>6. Cardinality(T) \in Nat /\ Cardinality(R) \in Nat
  BY <1>2, <1>3, FS_CardinalityType
<1>7. a \in T <=> f[a] \in S
  OBVIOUS
<1>8. Count(f, S) = Cardinality(T) /\ Count(g, S) = Cardinality(U)
  BY DEF Count
<1> HIDE DEF T, U, R
<1> QED
  BY <1>3, <1>4, <1>5, <1>6, <1>7, <1>8 DEF In

\* A set of places somebody stands in has a positive count, and conversely.
LEMMA CountPositive ==
    ASSUME NEW f \in [Actors -> Places], NEW S
    PROVE  Count(f, S) \in Nat /\ (Count(f, S) > 0 <=> \E a \in Actors : f[a] \in S)
<1> DEFINE T == {x \in Actors : f[x] \in S}
<1>1. IsFiniteSet(T)
  BY ShmtxAssumption, FS_AddElement, FS_Subset DEF Actors
<1>2. Cardinality(T) \in Nat /\ (Cardinality(T) = 0 <=> T = {})
  BY <1>1, FS_CardinalityType, FS_EmptySet
<1> QED
  BY <1>2 DEF Count

----------------------------------------------------------------------------
\* Types are preserved by every step (all of ngx_shmtx.c's lock operations).
LEMMA TypeStep == TypeOK /\ [Next]_vars => TypeOK'
<1> SUFFICES ASSUME TypeOK, [Next]_vars PROVE TypeOK'
  OBVIOUS
<1> USE ShmtxAssumption DEF TypeOK, Places, Asking, Holding, Waking, Goto
<1>1. ASSUME NEW p \in Procs, TryLock(p) \/ Lock(p) PROVE TypeOK'
  BY <1>1 DEF TryLock, Lock, Actors
<1>2. ASSUME NEW p \in Procs, SpinAcquire(p) \/ SpinExhausted(p) \/ Enqueue(p)
      PROVE TypeOK'
  BY <1>2 DEF SpinAcquire, SpinExhausted, Enqueue, Actors
<1>3. ASSUME NEW p \in Procs, RecheckAcquire(p) \/ RecheckFailed(p) \/ Dequeue(p)
      PROVE TypeOK'
  BY <1>3 DEF RecheckAcquire, RecheckFailed, Dequeue, Actors
<1>4. ASSUME NEW p \in Procs, SemWait(p) \/ Unlock(p) PROVE TypeOK'
  BY <1>4 DEF SemWait, Unlock, Release, Actors
<1>5. ASSUME NEW p \in Procs, Crash(p) PROVE TypeOK'
  BY <1>5 DEF Crash, Actors
<1>6. ASSUME NEW p \in Procs, Reap(p) \/ Respawn(p) PROVE TypeOK'
  BY <1>6 DEF Reap, Respawn, Actors
<1>7. ASSUME NEW a \in Actors, Wakeup(a) PROVE TypeOK'
  <2>1. CASE WakeRead(a) BY <2>1 DEF WakeRead
  <2>2. CASE WakeCas(a)  BY <2>2 DEF WakeCas
  <2>3. CASE Post(a)     BY <2>3 DEF Post
  <2> QED BY <1>7, <2>1, <2>2, <2>3 DEF Wakeup
<1>8. CASE UNCHANGED vars
  BY <1>8 DEF vars
<1> QED
  BY <1>1, <1>2, <1>3, <1>4, <1>5, <1>6, <1>7, <1>8 DEF Next, Progress

\* Every variable keeps its type in every behaviour of the lock.
THEOREM TypeCorrect == Spec => []TypeOK
<1>1. Init => TypeOK
  BY ShmtxAssumption, SMT DEF Init, TypeOK, Actors, Places, Asking, Holding, Waking
<1> QED
  BY <1>1, TypeStep, PTL DEF Spec

----------------------------------------------------------------------------
\* Without a semaphore nobody ever counts itself, sleeps or wakes.
SpinOnly == ~Semaphore =>
              \A a \in Actors : pc[a] \notin {"enqueue"} \cup Counted \cup Waking

LEMMA SpinOnlyStep == TypeOK /\ SpinOnly /\ [Next]_vars => SpinOnly'
<1> SUFFICES ASSUME TypeOK, SpinOnly, ~Semaphore, [Next]_vars
             PROVE  \A a \in Actors : pc'[a] \notin {"enqueue"} \cup Counted \cup Waking
  BY DEF SpinOnly
<1> USE DEF TypeOK, SpinOnly, Counted, Waking, Goto, Actors
<1>1. ASSUME NEW p \in Procs, TryLock(p) \/ Lock(p) \/ Progress(p)
      PROVE  SpinOnly'
  BY <1>1 DEF TryLock, Lock, Progress, SpinAcquire, SpinExhausted, Enqueue,
              RecheckAcquire, RecheckFailed, Dequeue, SemWait
<1>2. ASSUME NEW p \in Procs, Unlock(p) \/ Crash(p) \/ Reap(p) \/ Respawn(p)
      PROVE  SpinOnly'
  BY <1>2 DEF Unlock, Release, Crash, Reap, Respawn
<1>3. ASSUME NEW a \in Actors, Wakeup(a) PROVE SpinOnly'
  BY <1>3 DEF Wakeup, WakeRead, WakeCas, Post
<1>4. CASE UNCHANGED vars
  BY <1>4 DEF vars
<1> QED
  BY <1>1, <1>2, <1>3, <1>4 DEF Next

----------------------------------------------------------------------------
LEMMA ExclusionStep == TypeOK /\ MutualExclusion /\ [Next]_vars => MutualExclusion'
<1> SUFFICES ASSUME TypeOK, MutualExclusion, [Next]_vars PROVE MutualExclusion'
  OBVIOUS
<1> USE ShmtxAssumption DEF TypeOK, MutualExclusion, Holding, Goto, Actors
\* Only a free lock is taken, and then nobody else was holding it.
<1>1. ASSUME NEW p \in Procs, TryLock(p) \/ SpinAcquire(p) \/ RecheckAcquire(p)
      PROVE  MutualExclusion'
  BY <1>1 DEF TryLock, SpinAcquire, RecheckAcquire
<1>2. ASSUME NEW p \in Procs,
             Lock(p) \/ SpinExhausted(p) \/ Enqueue(p) \/ RecheckFailed(p)
                \/ Dequeue(p) \/ SemWait(p)
      PROVE  MutualExclusion'
  BY <1>2 DEF Lock, SpinExhausted, Enqueue, RecheckFailed, Dequeue, SemWait
\* The word is cleared by its owner, or by the master for a dead owner.
<1>3. ASSUME NEW p \in Procs, Unlock(p) PROVE MutualExclusion'
  BY <1>3 DEF Unlock, Release
<1>4. ASSUME NEW p \in Procs, Reap(p) PROVE MutualExclusion'
  BY <1>4 DEF Reap
<1>5. ASSUME NEW p \in Procs, Crash(p) \/ Respawn(p) PROVE MutualExclusion'
  BY <1>5 DEF Crash, Respawn
<1>6. ASSUME NEW a \in Actors, Wakeup(a) PROVE MutualExclusion'
  BY <1>6 DEF Wakeup, WakeRead, WakeCas, Post
<1>7. CASE UNCHANGED vars
  BY <1>7 DEF vars
<1> QED
  BY <1>1, <1>2, <1>3, <1>4, <1>5, <1>6, <1>7 DEF Next, Progress

\* The lock excludes, deaths and forced unlocks included.
THEOREM Exclusion == Spec => []MutualExclusion
<1>1. Init => MutualExclusion
  BY DEF Init, MutualExclusion, Holding, Actors
<1> QED
  BY <1>1, TypeCorrect, ExclusionStep, PTL DEF Spec

----------------------------------------------------------------------------
\* Reaping the dead changes neither who is counted nor who is about to post.
LEMMA ReapKeepsCounts ==
    ASSUME TypeOK, TypeOK', NEW p \in Procs, Reap(p)
    PROVE  /\ Count(pc', {"post"}) = Count(pc, {"post"})
           /\ Count(pc', Counted) = Count(pc, Counted)
<1> DEFINE mid == [pc EXCEPT ![p] = "gone"]
<1>1. /\ p \in Actors /\ Master \in Actors /\ p # Master
      /\ pc[p] = "dead" /\ pc[Master] = "idle"
      /\ pc \in [Actors -> Places] /\ pc' \in [Actors -> Places]
  BY ShmtxAssumption DEF Actors, Reap, TypeOK
<1>2. Moved(pc, mid, p) /\ mid[p] = "gone" /\ mid[Master] = "idle"
  BY <1>1 DEF Moved, Places
<1>3. /\ Moved(mid, pc', Master)
      /\ pc'[Master] \in {"wread", "idle"}
  BY <1>1 DEF Moved, Reap, Places, Goto
<1>4. /\ In("dead", {"post"}) = 0 /\ In("gone", {"post"}) = 0 /\ In("idle", {"post"}) = 0
      /\ In("dead", Counted) = 0 /\ In("gone", Counted) = 0 /\ In("idle", Counted) = 0
      /\ In(pc'[Master], {"post"}) = 0 /\ In(pc'[Master], Counted) = 0
  BY <1>3 DEF In, Counted
<1>5. /\ Count(pc, {"post"}) \in Nat /\ Count(pc, Counted) \in Nat
  BY <1>1, CountPositive, Zenon
<1> HIDE DEF mid
<1>6. /\ Count(mid, {"post"}) = Count(pc, {"post"}) - 0 + 0
      /\ Count(mid, Counted) = Count(pc, Counted) - 0 + 0
  BY <1>1, <1>2, <1>4, CountMoved
<1>7. /\ Count(pc', {"post"}) = Count(mid, {"post"}) - 0 + 0
      /\ Count(pc', Counted) = Count(mid, Counted) - 0 + 0
  BY <1>2, <1>3, <1>4, CountMoved
<1> QED
  BY <1>5, <1>6, <1>7

\* The accounting of sleepers, in terms of Count.
Accounted == torn = {} => wait + sem + Count(pc, {"post"}) >= Count(pc, Counted)

LEMMA AccountedStep == TypeOK /\ Accounted /\ [Next]_vars => Accounted'
<1> SUFFICES ASSUME TypeOK, Accounted, [Next]_vars, torn' = {}
             PROVE  wait' + sem' + Count(pc', {"post"}) >= Count(pc', Counted)
  BY DEF Accounted
<1> DEFINE Goal == wait' + sem' + Count(pc', {"post"}) >= Count(pc', Counted)
           Posts == Count(pc, {"post"})
           Ins == Count(pc, Counted)
<1>0. pc \in [Actors -> Places] /\ wait \in Int /\ sem \in Nat
  BY DEF TypeOK
<1>1. Posts \in Nat /\ Ins \in Nat
  BY <1>0, CountPositive, Zenon
<1>2. torn = {} => wait + sem + Posts >= Ins
  BY DEF Accounted
\* One move from place to place, and what it does to the two counts.
<1>m. ASSUME NEW a \in Actors, NEW to, Goto(a, to)
      PROVE  /\ Count(pc', {"post"}) = Posts - In(pc[a], {"post"}) + In(to, {"post"})
             /\ Count(pc', Counted) = Ins - In(pc[a], Counted) + In(to, Counted)
  <2>1. Moved(pc, pc', a) /\ pc'[a] = to
    BY <1>0, <1>m, TypeStep DEF TypeOK, Moved, Goto
  <2> QED
    BY <2>1, CountMoved
<1>p. Procs \subseteq Actors
  BY DEF Actors
<1> HIDE DEF Posts, Ins
<1> USE <1>0, <1>1, <1>2, <1>m, <1>p DEF Counted, In
<1>3. ASSUME NEW p \in Procs, TryLock(p) PROVE Goal
  BY <1>3 DEF TryLock
<1>4. ASSUME NEW p \in Procs, Lock(p) PROVE Goal
  BY <1>4 DEF Lock
<1>5. ASSUME NEW p \in Procs, SpinAcquire(p) PROVE Goal
  BY <1>5 DEF SpinAcquire
<1>6. ASSUME NEW p \in Procs, SpinExhausted(p) PROVE Goal
  BY <1>6 DEF SpinExhausted
<1>7. ASSUME NEW p \in Procs, Enqueue(p) PROVE Goal
  BY <1>7 DEF Enqueue
<1>8. ASSUME NEW p \in Procs, RecheckAcquire(p) PROVE Goal
  BY <1>8 DEF RecheckAcquire
<1>9. ASSUME NEW p \in Procs, RecheckFailed(p) PROVE Goal
  BY <1>9 DEF RecheckFailed
<1>10. ASSUME NEW p \in Procs, Dequeue(p) PROVE Goal
  BY <1>10 DEF Dequeue
<1>11. ASSUME NEW p \in Procs, SemWait(p) PROVE Goal
  BY <1>11 DEF SemWait
<1>12. ASSUME NEW p \in Procs, Unlock(p) PROVE Goal
  <2>1. \/ Goto(p, "wread")
        \/ Goto(p, "idle")
    BY <1>12 DEF Unlock, Release
  <2> QED BY <1>12, <2>1 DEF Unlock
<1>13. ASSUME NEW a \in Actors, WakeRead(a) PROVE Goal
  BY <1>13 DEF WakeRead
<1>14. ASSUME NEW a \in Actors, WakeCas(a) PROVE Goal
  BY <1>14 DEF WakeCas
<1>15. ASSUME NEW a \in Actors, Post(a) PROVE Goal
  BY <1>15 DEF Post
<1>16. ASSUME NEW p \in Procs, Crash(p) PROVE Goal
  BY <1>16 DEF Crash, Active, Waking
<1>17. ASSUME NEW p \in Procs, Reap(p) PROVE Goal
  BY <1>17, TypeStep, ReapKeepsCounts DEF Reap, Posts, Ins
<1>18. ASSUME NEW p \in Procs, Respawn(p) PROVE Goal
  BY <1>18 DEF Respawn
<1>19. CASE UNCHANGED vars
  BY <1>19 DEF vars, Posts, Ins
<1> QED
  BY <1>3, <1>4, <1>5, <1>6, <1>7, <1>8, <1>9, <1>10, <1>11, <1>12, <1>13, <1>14,
     <1>15, <1>16, <1>17, <1>18, <1>19 DEF Next, Progress, Wakeup

LEMMA AccountedIsCounted == Accounted <=> SleepersCounted
  BY DEF Accounted, SleepersCounted, Count, At

LEMMA InitCounted == Init => Accounted /\ SpinOnly /\ NoLostWakeup
<1> SUFFICES ASSUME Init
             PROVE  /\ wait + sem + Count(pc, {"post"}) >= Count(pc, Counted)
                    /\ SpinOnly /\ NoLostWakeup
  BY DEF Accounted
<1>1. pc \in [Actors -> Places] /\ \A a \in Actors : pc[a] = "idle"
  BY DEF Init, Places
<1>2. Count(pc, {"post"}) \in Nat /\ Count(pc, Counted) \in Nat
  BY <1>1, CountPositive, Zenon
<1>3. ~(Count(pc, Counted) > 0)
  <2>1. ~ \E a \in Actors : pc[a] \in Counted
    BY <1>1 DEF Counted
  <2> QED BY <1>1, <2>1, CountPositive, Zenon
<1>4. SpinOnly /\ NoLostWakeup
  BY <1>1 DEF SpinOnly, NoLostWakeup, Stranded, At, Counted, Waking
<1> QED
  BY <1>2, <1>3, <1>4 DEF Init

\* The count of sleepers never falls short while nobody dies on the way.
THEOREM Accounting == Spec => []SleepersCounted
<1>1. Spec => []Accounted
  BY InitCounted, TypeCorrect, AccountedStep, PTL DEF Spec
<1> QED
  BY <1>1, AccountedIsCounted, PTL

----------------------------------------------------------------------------
\* A free lock with a sleeper, no token and nobody under way needs a torn death.
LEMMA WakeupStep ==
    /\ TypeOK /\ MutualExclusion /\ SpinOnly /\ Accounted /\ NoLostWakeup
    /\ [Next]_vars
    => NoLostWakeup'
<1> SUFFICES ASSUME TypeOK, MutualExclusion, SpinOnly, Accounted, NoLostWakeup,
                    [Next]_vars, torn' = {}, lock' = Free, sem' = 0,
                    NEW s \in Actors, pc'[s] = "semwait"
             PROVE  \E a \in Actors : pc'[a] \in Active
  BY DEF NoLostWakeup, Stranded, At
<1> DEFINE Goal == \E a \in Actors : pc'[a] \in Active
<1>0. /\ pc \in [Actors -> Places] /\ wait \in Int /\ sem \in Nat
      /\ Procs \subseteq Actors
      /\ \A p \in Procs : p # Free
  BY ShmtxAssumption DEF TypeOK, Actors
\* What the invariant says of the state before the step.
<1>1. ASSUME torn = {}, lock = Free, sem = 0, NEW t \in Actors, pc[t] = "semwait"
      PROVE  \E a \in Actors : pc[a] \in Active
  BY <1>1 DEF NoLostWakeup, Stranded, At
<1> USE <1>0 DEF Active, Waking, Goto
\* Whoever takes the lock, or still has it, leaves it held.
<1>2. ASSUME NEW p \in Procs, TryLock(p) \/ SpinAcquire(p) \/ RecheckAcquire(p)
      PROVE  Goal
  BY <1>2 DEF TryLock, SpinAcquire, RecheckAcquire
<1>3. ASSUME NEW p \in Procs, Dequeue(p) PROVE Goal
  BY <1>3 DEF Dequeue, MutualExclusion, Holding
<1>4. ASSUME NEW p \in Procs, RecheckFailed(p) PROVE Goal
  BY <1>4 DEF RecheckFailed
\* Whoever moves on towards the lock is under way.
<1>5. ASSUME NEW p \in Procs, Lock(p) \/ SpinExhausted(p) \/ Enqueue(p) \/ SemWait(p)
      PROVE  Goal
  <2>1. pc'[p] \in {"spin", "enqueue", "recheck"}
    BY <1>5 DEF Lock, SpinExhausted, Enqueue, SemWait
  <2> QED BY <2>1
\* Whoever gives the lock up goes on to wake a sleeper.
<1>6. ASSUME NEW p \in Procs, Unlock(p) PROVE Goal
  <2>1. lock = p
    BY <1>6 DEF Unlock, MutualExclusion, Holding
  <2>2. CASE Semaphore
    <3>1. pc'[p] = "wread" BY <1>6, <2>1, <2>2 DEF Unlock, Release
    <3> QED BY <3>1
  <2>3. CASE ~Semaphore
    BY <1>6, <2>1, <2>3 DEF Unlock, Release, SpinOnly, Counted
  <2> QED BY <2>2, <2>3, ShmtxAssumption
<1>7. ASSUME NEW p \in Procs, Reap(p) PROVE Goal
  <2>0. Master \in Actors /\ p # Master
    BY ShmtxAssumption DEF Actors
  <2>1. CASE lock = p /\ Semaphore
    <3>1. pc'[Master] = "wread" BY <1>7, <2>0, <2>1 DEF Reap
    <3> QED BY <2>0, <3>1
  <2>2. CASE ~Semaphore
    <3>1. pc[s] = "semwait" BY <1>7, <2>2 DEF Reap
    <3> QED BY <2>2, <3>1 DEF SpinOnly, Counted
  <2>3. CASE lock # p
    <3>1. pc[s] = "semwait" /\ torn = {} /\ lock = Free /\ sem = 0
      BY <1>7, <2>3 DEF Reap
    <3>2. PICK a \in Actors : pc[a] \in Active
      BY <1>1, <3>1
    <3>3. pc'[a] = pc[a]
      BY <1>7, <2>3, <3>2 DEF Reap
    <3> QED BY <3>2, <3>3
  <2> QED BY <2>1, <2>2, <2>3, ShmtxAssumption
\* A waker that finds nobody to wake leaves a token, posted or about to be.
<1>8. ASSUME NEW a \in Actors, WakeRead(a) PROVE Goal
  <2>1. CASE wait > 0
    <3>1. pc'[a] = "wcas" BY <1>8, <2>1 DEF WakeRead
    <3> QED BY <3>1
  <2>2. CASE ~(wait > 0)
    <3>1. pc[s] = "semwait" /\ torn = {} /\ sem = 0 /\ pc[a] = "wread"
      BY <1>8, <2>2 DEF WakeRead
    <3>2. \E x \in Actors : pc[x] \in Counted
      BY <3>1 DEF Counted
    <3>3. /\ Count(pc, {"post"}) \in Nat /\ Count(pc, Counted) \in Nat
          /\ Count(pc, Counted) > 0
      BY <1>0, <3>2, CountPositive, Zenon
    <3>4. Count(pc, {"post"}) > 0
      BY <2>2, <3>1, <3>3 DEF Accounted
    <3>5. PICK x \in Actors : pc[x] \in {"post"}
      BY <1>0, <3>4, CountPositive, Zenon
    <3>6. x # a /\ pc'[x] = pc[x]
      BY <1>8, <3>1, <3>5 DEF WakeRead
    <3> QED BY <3>5, <3>6
  <2> QED BY <2>1, <2>2
<1>9. ASSUME NEW a \in Actors, WakeCas(a) PROVE Goal
  <2>1. pc'[a] \in {"post", "wread"} BY <1>9 DEF WakeCas
  <2> QED BY <2>1
<1>10. ASSUME NEW a \in Actors, Post(a) PROVE Goal
  BY <1>10 DEF Post
\* A death off the way, and a fresh worker, change nobody under way.
<1>11. ASSUME NEW p \in Procs, Crash(p) \/ Respawn(p) PROVE Goal
  <2>1. /\ pc[s] = "semwait" /\ torn = {} /\ lock = Free /\ sem = 0
        /\ pc[p] \notin Active
        /\ \A x \in Actors \ {p} : pc'[x] = pc[x]
    BY <1>11 DEF Crash, Respawn
  <2>2. PICK a \in Actors : pc[a] \in Active
    BY <1>1, <2>1
  <2> QED BY <2>1, <2>2
<1>12. CASE UNCHANGED vars
  BY <1>1, <1>12 DEF vars
<1> QED
  BY <1>2, <1>3, <1>4, <1>5, <1>6, <1>7, <1>8, <1>9, <1>10, <1>11, <1>12
  DEF Next, Progress, Wakeup

\* No wake-up is lost between processes that live.
THEOREM WakeupNotLost == Spec => []NoLostWakeup
<1>1. Spec => [](TypeOK /\ MutualExclusion)
  BY TypeCorrect, Exclusion, PTL
<1>2. Spec => [](SpinOnly /\ Accounted)
  BY InitCounted, TypeCorrect, SpinOnlyStep, AccountedStep, PTL DEF Spec
<1> QED
  BY <1>1, <1>2, InitCounted, WakeupStep, PTL DEF Spec

----------------------------------------------------------------------------
\* Every step of the lock, deaths included, is one the abstract lock allows.
THEOREM Refinement == Spec => ImplementsMutexSafely
<1> USE ShmtxAssumption
<1>1. Init => M!Init
  BY DEF Init, M!Init, At, Asking
<1>2. TypeOK /\ MutualExclusion /\ [Next]_vars => [M!Next]_(M!vars)
  <2> SUFFICES ASSUME TypeOK, MutualExclusion, [Next]_vars,
                      ~UNCHANGED <<lock, At(Asking)>>
               PROVE  \E p \in Procs : M!Step(p)
    BY DEF M!Next, M!vars
  <2>0. pc \in [Actors -> Places] /\ Procs \subseteq Actors
    BY DEF TypeOK, Actors
  <2> USE <2>0 DEF Goto, At, Asking, M!Step
  <2>1. ASSUME NEW p \in Procs, TryLock(p) PROVE M!Try(p)
    BY <2>1 DEF TryLock, M!Try
  <2>2. ASSUME NEW p \in Procs, Lock(p) PROVE M!Request(p)
    BY <2>2 DEF Lock, M!Request
  <2>3. ASSUME NEW p \in Procs, SpinAcquire(p) \/ RecheckAcquire(p)
        PROVE  M!Acquire(p)
    BY <2>3 DEF SpinAcquire, RecheckAcquire, M!Acquire
  \* The steps of a process that keeps asking, or already owns, do not show.
  <2>4. ASSUME NEW p \in Procs,
               SpinExhausted(p) \/ Enqueue(p) \/ RecheckFailed(p) \/ SemWait(p)
                  \/ Dequeue(p)
        PROVE  FALSE
    BY <2>4 DEF SpinExhausted, Enqueue, RecheckFailed, SemWait, Dequeue
  <2>5. ASSUME NEW p \in Procs, Unlock(p) PROVE M!Release(p)
    BY <2>5 DEF Unlock, Release, M!Release
  <2>6. ASSUME NEW p \in Procs, Crash(p) PROVE M!Abandon(p)
    BY <2>6 DEF Crash, M!Abandon
  <2>7. ASSUME NEW p \in Procs, Reap(p) PROVE M!Release(p)
    BY <2>7 DEF Reap, M!Release, Actors
  <2>8. ASSUME NEW p \in Procs, Respawn(p) PROVE FALSE
    BY <2>8 DEF Respawn
  <2>9. ASSUME NEW a \in Actors, Wakeup(a) PROVE FALSE
    BY <2>9 DEF Wakeup, WakeRead, WakeCas, Post
  <2>10. CASE UNCHANGED vars
    BY <2>10 DEF vars
  <2> QED
    BY <2>1, <2>2, <2>3, <2>4, <2>5, <2>6, <2>7, <2>8, <2>9, <2>10
    DEF Next, Progress
<1> QED
  BY <1>1, <1>2, TypeCorrect, Exclusion, PTL
  DEF Spec, ImplementsMutexSafely, M!SafeSpec

----------------------------------------------------------------------------
(* The read-write lock: ngx_rwlock.c                                       *)

\* The inductive invariant names the one writer instead of counting to one.
Exact == /\ word = WLOCK => Readers = {} /\ \E w \in Users : Writers = {w}
         /\ word # WLOCK => Writers = {} /\ Cardinality(Readers) = word

RwInv == RwTypeOK /\ Exact

LEMMA RwInitInv == RwInit => RwInv
<1> SUFFICES ASSUME RwInit PROVE RwInv
  OBVIOUS
<1>1. Readers = {} /\ Writers = {}
  BY DEF RwInit, Readers, Writers
<1>2. Cardinality({}) = 0
  BY FS_EmptySet
<1> QED
  BY <1>1, <1>2 DEF RwInit, RwInv, RwTypeOK, Exact, WLOCK, RwPlaces

\* Steps that change neither the word nor who reads and writes.
LEMMA QuietStep ==
    ASSUME RwInv, NEW p \in Users,
           AskWrite(p) \/ AskRead(p) \/ ReadWord(p) \/ RwUnlock(p) \/ UnlockRead(p)
    PROVE  word' = word /\ Readers' = Readers /\ Writers' = Writers /\ RwTypeOK'
<1> USE DEF RwInv, RwTypeOK, Exact, RwGoto, See, RwPlaces, WLOCK, Readers, Writers
<1>1. CASE AskWrite(p) \/ AskRead(p)
  BY <1>1 DEF AskWrite, AskRead
<1>2. CASE ReadWord(p)
  BY <1>2 DEF ReadWord
<1>3. CASE RwUnlock(p)
  <2>1. place[p] = "writing" <=> word = -1
    BY <1>3 DEF RwUnlock
  <2> QED BY <1>3, <2>1 DEF RwUnlock
<1>4. CASE UnlockRead(p)
  BY <1>4 DEF UnlockRead
<1> QED
  BY <1>1, <1>2, <1>3, <1>4

\* A process that gets in joins the readers or becomes the writer, and one
\* that gets out leaves them; the word follows.
LEMMA ShiftStep ==
    ASSUME RwInv, NEW p \in Users
    PROVE  /\ StartWrite(p) => /\ word = 0 /\ Writers = {} /\ Readers = {}
                               /\ word' = WLOCK /\ Writers' = {p} /\ Readers' = {}
           /\ StartRead(p) /\ word = known[p] =>
                 /\ word # WLOCK /\ Writers = {} /\ p \notin Readers
                 /\ word' = word + 1 /\ Readers' = Readers \cup {p} /\ Writers' = {}
           /\ EndWrite(p) => /\ Writers = {p} /\ Readers = {}
                             /\ word' = 0 /\ Writers' = {} /\ Readers' = {}
           /\ EndRead(p) /\ word = known[p] =>
                 /\ word # WLOCK /\ Writers = {} /\ p \in Readers
                 /\ word' = word - 1 /\ Readers' = Readers \ {p} /\ Writers' = {}
<1> USE DEF RwInv, RwTypeOK, RwGoto, See, RwPlaces, WLOCK
<1>0. IsFiniteSet(Readers) /\ (Cardinality(Readers) = 0 => Readers = {})
  <2>1. IsFiniteSet(Readers)
    BY RwlockAssumption, FS_Subset DEF Readers
  <2> QED BY <2>1, FS_EmptySet
<1>1. ASSUME StartWrite(p)
      PROVE  /\ word = 0 /\ Writers = {} /\ Readers = {}
             /\ word' = WLOCK /\ Writers' = {p} /\ Readers' = {}
  <2>1. word = 0 /\ Writers = {} /\ Readers = {}
    BY <1>0, <1>1 DEF StartWrite, Exact
  <2> QED BY <1>1, <2>1 DEF StartWrite, Writers, Readers
<1>2. ASSUME StartRead(p), word = known[p]
      PROVE  /\ word # WLOCK /\ Writers = {} /\ p \notin Readers
             /\ word' = word + 1 /\ Readers' = Readers \cup {p} /\ Writers' = {}
  <2>1. word # WLOCK /\ Writers = {}
    BY <1>2 DEF StartRead, Exact
  <2> QED BY <1>2, <2>1 DEF StartRead, Writers, Readers
<1>3. ASSUME EndWrite(p)
      PROVE  /\ Writers = {p} /\ Readers = {}
             /\ word' = 0 /\ Writers' = {} /\ Readers' = {}
  <2>1. p \in Writers
    BY <1>3 DEF EndWrite, Writers
  <2>2. word = WLOCK /\ Writers = {p} /\ Readers = {}
    BY <2>1 DEF Exact
  <2> QED BY <1>3, <2>2 DEF EndWrite, Writers, Readers
<1>4. ASSUME EndRead(p), word = known[p]
      PROVE  /\ word # WLOCK /\ Writers = {} /\ p \in Readers
             /\ word' = word - 1 /\ Readers' = Readers \ {p} /\ Writers' = {}
  <2>1. p \in Readers
    BY <1>4 DEF EndRead, Readers
  <2>2. word # WLOCK /\ Writers = {} /\ word \in Nat
    BY <2>1 DEF Exact
  <2>3. word # 0
    BY <1>0, <2>1, <2>2 DEF Exact
  <2>4. word - 1 # WLOCK /\ word - 1 \in Nat
    BY <2>2, <2>3
  <2> QED BY <1>4, <2>1, <2>2, <2>4 DEF EndRead, Writers, Readers
<1> QED
  BY <1>1, <1>2, <1>3, <1>4

LEMMA RwInvStep == RwInv /\ [RwNext]_rwvars => RwInv'
<1> SUFFICES ASSUME RwInv, [RwNext]_rwvars PROVE RwInv'
  OBVIOUS
<1>0. IsFiniteSet(Readers) /\ Cardinality({}) = 0 /\ Cardinality(Readers) \in Nat
  <2>1. IsFiniteSet(Readers)
    BY RwlockAssumption, FS_Subset DEF Readers
  <2> QED BY <2>1, FS_EmptySet, FS_CardinalityType
<1> USE DEF RwInv, Exact, WLOCK
<1>1. ASSUME NEW p \in Users,
             AskWrite(p) \/ AskRead(p) \/ ReadWord(p) \/ RwUnlock(p) \/ UnlockRead(p)
      PROVE  RwInv'
  BY <1>1, QuietStep
<1>2. ASSUME NEW p \in Users, StartWrite(p) PROVE RwInv'
  <2>1. RwTypeOK'
    BY <1>2 DEF RwTypeOK, StartWrite, RwGoto, RwPlaces
  <2> QED BY <1>2, <2>1, ShiftStep
<1>3. ASSUME NEW p \in Users, StartRead(p) PROVE RwInv'
  <2>1. RwTypeOK'
    BY <1>3 DEF RwTypeOK, StartRead, RwGoto, See, RwPlaces
  <2>2. CASE word = known[p]
    <3>1. Cardinality(Readers \cup {p}) = Cardinality(Readers) + 1
      BY <1>0, <1>3, <2>2, ShiftStep, FS_AddElement
    <3>2. word' = word + 1 /\ Readers' = Readers \cup {p} /\ Writers' = {}
      BY <1>3, <2>2, ShiftStep
    <3> QED BY <1>3, <2>1, <2>2, <3>1, <3>2, ShiftStep DEF RwTypeOK
  <2>3. CASE word # known[p]
    <3>1. word' = word /\ Readers' = Readers /\ Writers' = Writers
      BY <1>3, <2>3 DEF StartRead, RwGoto, Readers, Writers, RwTypeOK
    <3> QED BY <2>1, <3>1
  <2> QED BY <2>2, <2>3
<1>4. ASSUME NEW p \in Users, EndWrite(p) PROVE RwInv'
  <2>1. RwTypeOK'
    BY <1>4 DEF RwTypeOK, EndWrite, RwGoto, RwPlaces
  <2>2. word' = 0 /\ Writers' = {} /\ Readers' = {}
    BY <1>4, ShiftStep
  <2> QED BY <1>0, <2>1, <2>2
<1>5. ASSUME NEW p \in Users, EndRead(p) PROVE RwInv'
  <2>1. CASE word = known[p]
    <3>1. Cardinality(Readers \ {p}) = Cardinality(Readers) - 1
      BY <1>0, <1>5, <2>1, ShiftStep, FS_RemoveElement
    <3>2. IsFiniteSet(Readers \ {p}) /\ Cardinality(Readers \ {p}) \in Nat
      BY <1>0, FS_RemoveElement, FS_CardinalityType
    <3>3. /\ word' = word - 1 /\ Readers' = Readers \ {p} /\ Writers' = {}
          /\ word = Cardinality(Readers)
      BY <1>5, <2>1, ShiftStep
    <3>4. RwTypeOK'
      BY <1>5, <2>1, <3>1, <3>2, <3>3 DEF RwTypeOK, EndRead, RwGoto, See, RwPlaces
    <3> QED BY <3>1, <3>2, <3>3, <3>4 DEF RwTypeOK
  <2>2. CASE word # known[p]
    <3>1. p \in Readers
      BY <1>5 DEF EndRead, Readers
    <3>2. /\ word' = word /\ Readers' = Readers /\ Writers' = Writers
          /\ known' = [known EXCEPT ![p] = word] /\ UNCHANGED place
      BY <1>5, <2>2 DEF EndRead, See, Readers, Writers, RwTypeOK
    <3>3. word \in Nat
      BY <3>1 DEF RwTypeOK
    <3> QED BY <3>2, <3>3 DEF RwTypeOK
  <2> QED BY <2>1, <2>2
<1>6. CASE UNCHANGED rwvars
  BY <1>6 DEF rwvars, RwTypeOK, Readers, Writers
<1> QED
  BY <1>1, <1>2, <1>3, <1>4, <1>5, <1>6 DEF RwNext, Enter, Leave

\* Types, and the exact meaning of the word, hold for any number of processes.
THEOREM RwlockInvariant == RwSpec => []RwInv
  BY RwInitInv, RwInvStep, PTL DEF RwSpec

\* The word counts the readers, or says that exactly one process writes.
THEOREM WordCorrect == RwSpec => []WordExact
<1>1. RwInv => WordExact
  BY FS_Singleton DEF RwInv, Exact, WordExact
<1> QED
  BY <1>1, RwlockInvariant, PTL

----------------------------------------------------------------------------
\* ngx_rwlock_t is a read-write word.
THEOREM RwlockRefinement == RwSpec => ImplementsReadWrite
<1> DEFINE W == IF Writers = {} THEN Nobody ELSE CHOOSE p \in Users : p \in Writers
<1>1. RwInit => RW!Init
  BY DEF RwInit, RW!Init, Readers, Writers
<1>2. RwInv /\ [RwNext]_rwvars => [RW!Next]_(RW!vars)
  <2> SUFFICES ASSUME RwInv, [RwNext]_rwvars, ~UNCHANGED <<Readers, W>>
               PROVE  \E p \in Users : RW!Step(p)
    BY DEF RW!Next, RW!vars
  <2>0. Nobody \notin Users
    BY RwlockAssumption
  <2> USE DEF RW!Step
  <2>1. ASSUME NEW p \in Users,
               AskWrite(p) \/ AskRead(p) \/ ReadWord(p) \/ RwUnlock(p) \/ UnlockRead(p)
        PROVE  FALSE
    <3>1. Writers' = Writers /\ Readers' = Readers
      BY <2>1, QuietStep
    <3> QED BY <3>1
  <2>2. ASSUME NEW p \in Users, StartWrite(p) PROVE RW!StartWrite(p)
    <3>1. Writers = {} /\ Readers = {} /\ Writers' = {p} /\ Readers' = {}
      BY <2>2, ShiftStep
    <3>2. W = Nobody /\ W' = p
      BY <3>1
    <3> QED BY <3>1, <3>2 DEF RW!StartWrite
  <2>3. ASSUME NEW p \in Users, StartRead(p) PROVE RW!StartRead(p)
    <3>1. CASE word = known[p]
      <4>1. /\ Writers = {} /\ Writers' = {}
            /\ p \notin Readers /\ Readers' = Readers \cup {p}
        BY <2>3, <3>1, ShiftStep
      <4> QED BY <4>1 DEF RW!StartRead
    <3>2. CASE word # known[p]
      <4>1. Writers' = Writers /\ Readers' = Readers
        BY <2>3, <3>2 DEF StartRead, RwGoto, Readers, Writers, RwInv, RwTypeOK
      <4> QED BY <4>1
    <3> QED BY <3>1, <3>2
  <2>4. ASSUME NEW p \in Users, EndWrite(p) PROVE RW!EndWrite(p)
    <3>1. Writers = {p} /\ Readers = {} /\ Writers' = {} /\ Readers' = {}
      BY <2>4, ShiftStep
    <3>2. W = p /\ W' = Nobody
      BY <3>1
    <3> QED BY <3>1, <3>2 DEF RW!EndWrite
  <2>5. ASSUME NEW p \in Users, EndRead(p) PROVE RW!EndRead(p)
    <3>1. CASE word = known[p]
      <4>1. /\ Writers = {} /\ Writers' = {}
            /\ p \in Readers /\ Readers' = Readers \ {p}
        BY <2>5, <3>1, ShiftStep
      <4> QED BY <4>1 DEF RW!EndRead
    <3>2. CASE word # known[p]
      <4>1. Writers' = Writers /\ Readers' = Readers
        BY <2>5, <3>2 DEF EndRead, Readers, Writers
      <4> QED BY <4>1
    <3> QED BY <3>1, <3>2
  <2>6. CASE UNCHANGED rwvars
    BY <2>6 DEF rwvars, Readers, Writers
  <2> QED
    BY <2>1, <2>2, <2>3, <2>4, <2>5, <2>6 DEF RwNext, Enter, Leave
<1> QED
  BY <1>1, <1>2, RwlockInvariant, PTL DEF RwSpec, ImplementsReadWrite, RW!Spec
=============================================================================
