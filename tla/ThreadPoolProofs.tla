-------------------------- MODULE ThreadPoolProofs --------------------------
(***************************************************************************)
(* Proofs about ThreadPool for any finite set of threads, any tasks and    *)
(* any limit of the queue: every accepted task is in exactly one place, no *)
(* signal and no notification is lost, the pool is destroyed only when its *)
(* threads have gone, and the pool implements TaskOffload.                 *)
(***************************************************************************)
EXTENDS ThreadPool, FiniteSetTheorems, TLAPS

----------------------------------------------------------------------------
(* Sequences without repetitions.                                          *)

Distinct(s) == \A i, j \in DOMAIN s : s[i] = s[j] => i = j

LEMMA AppendElems ==
    ASSUME NEW S, NEW s \in Seq(S), NEW x \in S
    PROVE  /\ Append(s, x) \in Seq(S) /\ Append(s, x) # <<>>
           /\ Len(Append(s, x)) = Len(s) + 1
           /\ Append(s, x)[Len(s) + 1] = x
           /\ Elems(Append(s, x)) = Elems(s) \cup {x}
           /\ Distinct(s) /\ x \notin Elems(s) => Distinct(Append(s, x))
BY DEF Elems, Distinct

LEMMA TailElems ==
    ASSUME NEW S, NEW s \in Seq(S), s # <<>>
    PROVE  /\ Head(s) \in S /\ Head(s) \in Elems(s)
           /\ Tail(s) \in Seq(S) /\ Len(Tail(s)) = Len(s) - 1 /\ Len(s) \in Nat \ {0}
           /\ \A i \in 1 .. Len(s) - 1 : Tail(s)[i] = s[i + 1]
           /\ Distinct(s) => /\ Elems(Tail(s)) = Elems(s) \ {Head(s)}
                             /\ Distinct(Tail(s))
<1>1. /\ Len(s) \in Nat \ {0} /\ Head(s) = s[1] /\ Tail(s) \in Seq(S)
      /\ Len(Tail(s)) = Len(s) - 1
      /\ \A i \in 1 .. Len(s) - 1 : Tail(s)[i] = s[i + 1]
      /\ DOMAIN s = 1 .. Len(s) /\ DOMAIN Tail(s) = 1 .. Len(s) - 1
      /\ \A i \in 1 .. Len(s) : s[i] \in S
  OBVIOUS
<1>2. ASSUME Distinct(s) PROVE Elems(Tail(s)) = Elems(s) \ {Head(s)}
  <2>1. ASSUME NEW x \in Elems(Tail(s)) PROVE x \in Elems(s) \ {Head(s)}
    <3>1. PICK i \in 1 .. Len(s) - 1 : x = s[i + 1]
      BY <1>1, <2>1 DEF Elems
    <3>2. i + 1 \in DOMAIN s /\ 1 \in DOMAIN s /\ i + 1 # 1
      BY <1>1
    <3> QED
      BY <1>1, <1>2, <3>1, <3>2 DEF Elems, Distinct
  <2>2. ASSUME NEW x \in Elems(s), x # Head(s) PROVE x \in Elems(Tail(s))
    <3>1. PICK i \in 1 .. Len(s) : x = s[i]
      BY <1>1, <2>2 DEF Elems
    <3>2. i - 1 \in 1 .. Len(s) - 1 /\ (i - 1) + 1 = i
      BY <1>1, <2>2, <3>1
    <3>3. Tail(s)[i - 1] = x
      BY <1>1, <3>1, <3>2
    <3> QED
      BY <1>1, <3>2, <3>3 DEF Elems
  <2> QED
    BY <2>1, <2>2
<1>3. ASSUME Distinct(s) PROVE Distinct(Tail(s))
  <2> SUFFICES ASSUME NEW i \in 1 .. Len(s) - 1, NEW j \in 1 .. Len(s) - 1,
                      Tail(s)[i] = Tail(s)[j]
               PROVE  i = j
    BY <1>1 DEF Distinct
  <2>1. s[i + 1] = s[j + 1] /\ i + 1 \in DOMAIN s /\ j + 1 \in DOMAIN s
    BY <1>1
  <2> QED
    BY <1>3, <2>1 DEF Distinct
<1>4. Head(s) \in S /\ Head(s) \in Elems(s)
  BY <1>1 DEF Elems
<1> QED
  BY <1>1, <1>2, <1>3, <1>4

----------------------------------------------------------------------------
(* The inductive invariant: what the properties need to know about where   *)
(* the threads and the loop are.                                           *)

\* A thread has a task between taking it and handing it on.
HasJob == \A th \in Threads :
    /\ pc[th] = "run" => job[th] \in Jobs
    /\ pc[th] = "append" => job[th] \in Tasks
    /\ pc[th] \notin {"run", "append"} => job[th] = NoTask

\* The counter never passes the limit; that is what bounds the queue.
Limit == waiting <= MaxQueue

\* The list of completed tasks is walked to its end before the loop goes on.
Walked == loop # "completing" => todo = <<>>

Gone == {th \in Threads : pc[th] = "gone"}

\* Threads leave one by one, each with the exit task posted for it.
Stopped == IF loop = "spin" /\ lock = 0 THEN exits + 1 ELSE exits
GoneCounted ==
    /\ Cardinality(Gone) = Stopped
    /\ loop \in {"loop", "handler", "completing"} => exits = 0
    /\ loop = "spin" => exits < Cardinality(Threads)
    /\ loop = "destroyed" => exits = Cardinality(Threads)

\* The exit task is the last of the queue or a thread has it, while the loop
\* spins; otherwise it is nowhere, and after it nothing is queued.
ExitHeld == \E th \in Threads : job[th] = ExitTask
Emptied == \/ loop = "spin" /\ lock = 0
           \/ loop = "destroy" /\ exits > 0
           \/ loop = "destroyed"
ExitPlace ==
    /\ loop = "spin" /\ lock = 1 =>
         \/ queue # <<>> /\ queue[Len(queue)] = ExitTask /\ ~ExitHeld
         \/ queue = <<>> /\ ExitHeld
    /\ ~(loop = "spin" /\ lock = 1) => ExitTask \notin Elems(queue) /\ ~ExitHeld
    /\ Emptied => queue = <<>>

Inv == /\ TypeOK /\ HasJob /\ Limit /\ Walked
       /\ WaitingExact /\ OneTaskOnePlace
       /\ GoneCounted /\ ExitPlace
       /\ SomebodyTakes /\ LoopIsTold

----------------------------------------------------------------------------
(* Types, and who has a task.                                              *)

LEMMA SignalWakes ==
    ASSUME TypeOK, Signal
    PROVE  \/ pc' = pc /\ \A u \in Threads : pc[u] # "asleep"
           \/ \E u \in Threads : pc[u] = "asleep" /\ pc' = [pc EXCEPT ![u] = "woken"]
BY DEF Signal, Move

\* A thread that looks at the queue leaves with its head, or sleeps.
LEMMA Looks ==
    ASSUME NEW th \in Threads, Take(th) \/ Resume(th)
    PROVE  /\ pc[th] \in {"top", "woken"}
           /\ Dequeue(th) \/ Sleep(th)
           /\ waiting' = IF pc[th] = "top" THEN waiting - 1 ELSE waiting
           /\ UNCHANGED <<done, edge, loop, todo, active, lock, exits>>
BY DEF Take, Resume

LEMMA ActiveType ==
    ASSUME active \in [Tasks -> BOOLEAN], NEW t \in Tasks, NEW b \in BOOLEAN
    PROVE  /\ [active EXCEPT ![t] = b] \in [Tasks -> BOOLEAN]
           /\ [active EXCEPT ![t] = b][t] = b
           /\ \A u \in Tasks \ {t} : [active EXCEPT ![t] = b][u] = active[u]
OBVIOUS

LEMMA TypeStep ==
    ASSUME TypeOK, HasJob, Next
    PROVE  TypeOK' /\ HasJob'
<1>0. pc \in [Threads -> ThreadPlaces] /\ job \in [Threads -> Jobs \cup {NoTask}]
  BY DEF TypeOK
<1>1. ASSUME NEW t \in Tasks, Post(t) PROVE TypeOK' /\ HasJob'
  <2>1. queue' \in Seq(Jobs) /\ active' \in [Tasks -> BOOLEAN] /\ waiting' \in Int
    <3>1. t \in Jobs
      BY DEF Jobs
    <3> QED
      BY <1>1, <3>1, AppendElems, ActiveType DEF Post, Enqueue, TypeOK
  <2>2. pc' \in [Threads -> ThreadPlaces] /\ HasJob'
    <3>1. Signal /\ job' = job
      BY <1>1 DEF Post, Enqueue
    <3> QED
      BY <1>0, <3>1, SignalWakes DEF ThreadPlaces, HasJob
  <2> QED
    BY <1>1, <2>1, <2>2 DEF Post, TypeOK
<1>2. ASSUME NEW th \in Threads, Take(th) \/ Resume(th) PROVE TypeOK' /\ HasJob'
  <2>0. waiting' \in Int /\ UNCHANGED <<done, edge, loop, todo, active, lock, exits>>
    BY <1>2, Looks DEF TypeOK
  <2>1. CASE Dequeue(th)
    <3>1. Head(queue) \in Jobs /\ Tail(queue) \in Seq(Jobs)
      BY <2>1, TailElems DEF TypeOK, Dequeue
    <3>2. pc' = [pc EXCEPT ![th] = "run"] /\ job' = [job EXCEPT ![th] = Head(queue)]
      BY <2>1 DEF Dequeue, Move
    <3>3. HasJob' /\ pc' \in [Threads -> ThreadPlaces] /\ job' \in [Threads -> Jobs \cup {NoTask}]
      BY <1>0, <3>1, <3>2 DEF HasJob, ThreadPlaces
    <3> QED
      BY <2>0, <2>1, <3>1, <3>3 DEF TypeOK, Dequeue
  <2>2. CASE Sleep(th)
    <3>1. pc' = [pc EXCEPT ![th] = "asleep"] /\ job' = job /\ pc[th] \in {"top", "woken"}
      BY <1>2, <2>2, Looks DEF Sleep, Move
    <3>2. HasJob' /\ pc' \in [Threads -> ThreadPlaces]
      BY <1>0, <3>1 DEF HasJob, ThreadPlaces
    <3> QED
      BY <2>0, <2>2, <3>1, <3>2 DEF TypeOK, Sleep
  <2> QED
    BY <1>2, <2>1, <2>2, Looks
<1>3. ASSUME NEW th \in Threads, RunTask(th) \/ SpuriousWakeup(th) \/ Notify(th)
      PROVE  TypeOK' /\ HasJob'
  <2>1. pc' \in [Threads -> ThreadPlaces] /\ HasJob'
    BY <1>0, <1>3 DEF RunTask, SpuriousWakeup, Notify, Move, HasJob, ThreadPlaces, Jobs
  <2> QED
    BY <1>3, <2>1 DEF TypeOK, RunTask, SpuriousWakeup, Notify
<1>4. ASSUME NEW th \in Threads, RunExit(th) PROVE TypeOK' /\ HasJob'
  <2>1. pc' \in [Threads -> ThreadPlaces] /\ job' \in [Threads -> Jobs \cup {NoTask}] /\ HasJob'
    BY <1>0, <1>4 DEF RunExit, Move, HasJob, ThreadPlaces
  <2> QED
    BY <1>4, <2>1 DEF RunExit, TypeOK
<1>5. ASSUME NEW th \in Threads, AppendDone(th) PROVE TypeOK' /\ HasJob'
  <2>1. done' \in Seq(Tasks)
    BY <1>5, AppendElems DEF AppendDone, HasJob, TypeOK
  <2>2. pc' \in [Threads -> ThreadPlaces] /\ job' \in [Threads -> Jobs \cup {NoTask}] /\ HasJob'
    BY <1>0, <1>5 DEF AppendDone, Move, HasJob, ThreadPlaces
  <2> QED
    BY <1>5, <2>1, <2>2 DEF AppendDone, TypeOK
<1>6. ASSUME PollNotify \/ TakeDone \/ HandlerReturns \/ ExitWorker \/ PostExitFails
             \/ ThreadStopped \/ DestroyPool
      PROVE  TypeOK' /\ HasJob'
  <2>1. CASE PollNotify \/ HandlerReturns \/ ExitWorker \/ DestroyPool
    BY <2>1 DEF PollNotify, HandlerReturns, ExitWorker, DestroyPool, TypeOK, HasJob, LoopPlaces
  <2>2. CASE TakeDone
    BY <2>2 DEF TakeDone, TypeOK, HasJob, LoopPlaces
  <2>3. CASE PostExitFails
    BY <2>3 DEF PostExitFails, TypeOK, HasJob, LoopPlaces
  <2>4. CASE ThreadStopped
    BY <2>4 DEF ThreadStopped, TypeOK, HasJob, LoopPlaces
  <2> QED
    BY <1>6, <2>1, <2>2, <2>3, <2>4
<1>7. ASSUME CompleteTask PROVE TypeOK' /\ HasJob'
  <2>1. todo' \in Seq(Tasks) /\ active' \in [Tasks -> BOOLEAN]
    BY <1>7, TailElems, ActiveType DEF CompleteTask, TypeOK
  <2> QED
    BY <1>7, <2>1 DEF CompleteTask, TypeOK, HasJob
<1>8. ASSUME PostExit PROVE TypeOK' /\ HasJob'
  <2>1. queue' \in Seq(Jobs) /\ waiting' \in Int
    BY <1>8, AppendElems DEF PostExit, Enqueue, TypeOK, Jobs
  <2>2. pc' \in [Threads -> ThreadPlaces] /\ HasJob'
    <3>1. Signal /\ job' = job
      BY <1>8 DEF PostExit, Enqueue
    <3> QED
      BY <1>0, <3>1, SignalWakes DEF ThreadPlaces, HasJob
  <2> QED
    BY <1>8, <2>1, <2>2 DEF PostExit, TypeOK, LoopPlaces
<1> QED
  BY <1>1, <1>2, <1>3, <1>4, <1>5, <1>6, <1>7, <1>8 DEF Next, ThreadStep, LoopStep

----------------------------------------------------------------------------
(* The counter waiting: the threads that sleep or are waking have counted  *)
(* themselves.                                                             *)

LEMMA IdleFinite == IsFiniteSet(Idle) /\ Cardinality(Idle) \in Nat
<1>1. IsFiniteSet(Idle)
  BY PoolAssumption, FS_Subset DEF Idle
<1> QED
  BY <1>1, FS_CardinalityType

\* What a look at the queue does to the threads that are idle.
LEMMA IdleLook ==
    ASSUME TypeOK, NEW th \in Threads, Take(th) \/ Resume(th)
    PROVE  /\ Dequeue(th) => Idle' = Idle \ {th}
           /\ Sleep(th) => Idle' = Idle \cup {th}
           /\ th \in Idle <=> pc[th] = "woken"
BY Looks DEF Dequeue, Sleep, Move, Idle, TypeOK

LEMMA WaitingStep ==
    ASSUME TypeOK, WaitingExact, Limit, Next
    PROVE  WaitingExact' /\ Limit'
<1>0. waiting \in Int /\ Len(queue) \in Nat /\ MaxQueue \in Nat /\ queue \in Seq(Jobs)
  BY PoolAssumption DEF TypeOK
<1>i. IsFiniteSet(Idle) /\ Cardinality(Idle) \in Nat
  BY IdleFinite
<1>1. ASSUME NEW x \in Jobs, Enqueue(x) PROVE WaitingExact' /\ Limit'
  <2>1. Idle' = Idle
    BY <1>1, SignalWakes DEF Enqueue, Idle, TypeOK
  <2>2. Len(queue') = Len(queue) + 1 /\ waiting' = waiting + 1 /\ waiting < MaxQueue
    BY <1>0, <1>1, AppendElems DEF Enqueue
  <2> QED
    BY <1>0, <1>i, <2>1, <2>2 DEF WaitingExact, Limit
<1>2. ASSUME NEW th \in Threads, Take(th) \/ Resume(th) PROVE WaitingExact' /\ Limit'
  <2>1. waiting' = IF pc[th] = "top" THEN waiting - 1 ELSE waiting
    BY <1>2, Looks
  <2>2. pc[th] = "top" <=> th \notin Idle
    BY <1>2, IdleLook, Looks
  <2>3. CASE Dequeue(th)
    <3>1. Len(queue') = Len(queue) - 1 /\ Idle' = Idle \ {th}
      BY <1>0, <1>2, <2>3, IdleLook, TailElems DEF Dequeue
    <3>2. Cardinality(Idle \ {th}) = IF th \in Idle THEN Cardinality(Idle) - 1 ELSE Cardinality(Idle)
      BY <1>i, FS_RemoveElement
    <3> QED
      BY <1>0, <1>i, <2>1, <2>2, <3>1, <3>2 DEF WaitingExact, Limit
  <2>4. CASE Sleep(th)
    <3>1. queue' = queue /\ Idle' = Idle \cup {th}
      BY <1>2, <2>4, IdleLook DEF Sleep
    <3>2. Cardinality(Idle \cup {th}) = IF th \in Idle THEN Cardinality(Idle) ELSE Cardinality(Idle) + 1
      BY <1>i, FS_AddElement
    <3> QED
      BY <1>0, <1>i, <2>1, <2>2, <3>1, <3>2 DEF WaitingExact, Limit
  <2> QED
    BY <1>2, <2>3, <2>4, Looks
<1>3. ASSUME NEW th \in Threads,
             RunTask(th) \/ RunExit(th) \/ AppendDone(th) \/ Notify(th) \/ SpuriousWakeup(th)
      PROVE  WaitingExact' /\ Limit'
  <2>1. Idle' = Idle /\ UNCHANGED <<queue, waiting>>
    BY <1>3 DEF RunTask, RunExit, AppendDone, Notify, SpuriousWakeup, Move, Idle, TypeOK
  <2> QED
    BY <2>1 DEF WaitingExact, Limit
<1>4. ASSUME UNCHANGED <<queue, waiting, pc>> PROVE WaitingExact' /\ Limit'
  BY <1>4 DEF WaitingExact, Limit, Idle
<1>5. ASSUME LoopStep \/ ExitWorker, ~PostExit PROVE UNCHANGED <<queue, waiting, pc>>
  BY <1>5 DEF LoopStep, PollNotify, TakeDone, CompleteTask, HandlerReturns, ExitWorker,
              PostExitFails, ThreadStopped, DestroyPool
<1>6. ASSUME NEW t \in Tasks, Post(t) PROVE WaitingExact' /\ Limit'
  BY <1>1, <1>6 DEF Post, Jobs
<1>7. ASSUME PostExit PROVE WaitingExact' /\ Limit'
  BY <1>1, <1>7 DEF PostExit, Jobs
<1> QED
  BY <1>2, <1>3, <1>4, <1>5, <1>6, <1>7 DEF Next, ThreadStep

\* The limit on the counter is a limit on the queue.
LEMMA BoundedQueue == TypeOK /\ WaitingExact /\ Limit => QueueBounded
BY IdleFinite, PoolAssumption DEF TypeOK, WaitingExact, Limit, QueueBounded

----------------------------------------------------------------------------
(* Every accepted task is in one place.                                    *)

\* OneTaskOnePlace in two parts: the flag follows the places, and the places
\* are apart.
Placed(t) == \/ t \in Elems(queue) \/ t \in Elems(done) \/ t \in Elems(todo)
             \/ \E th \in Threads : job[th] = t
FlagExact == \A t \in Tasks : active[t] <=> Placed(t)
Apart == /\ Distinct(queue) /\ Distinct(done) /\ Distinct(todo)
         /\ Elems(queue) \cap Elems(done) = {}
         /\ Elems(queue) \cap Elems(todo) = {}
         /\ Elems(done) \cap Elems(todo) = {}
         /\ \A th \in Threads : job[th] \notin Elems(queue) \cup Elems(done) \cup Elems(todo)
         /\ \A th, u \in Threads : job[th] = job[u] /\ job[th] # NoTask => th = u

LEMMA Split == OneTaskOnePlace <=> FlagExact /\ Apart
BY DEF OneTaskOnePlace, FlagExact, Placed, Apart, Distinct, Runs

LEMMA ElemsOf == ASSUME NEW S, NEW s \in Seq(S) PROVE Elems(s) \subseteq S
BY DEF Elems

LEMMA ElemsEmpty == Elems(<<>>) = {} /\ Distinct(<<>>)
BY DEF Elems, Distinct

\* A task that is nowhere can join the queue.
LEMMA ApartEnqueue ==
    ASSUME TypeOK, Apart, NEW x \in Jobs, ~Placed(x), queue' = Append(queue, x),
           UNCHANGED <<job, done, todo>>
    PROVE  Apart' /\ Elems(queue') = Elems(queue) \cup {x}
<1>1. Distinct(queue') /\ Elems(queue') = Elems(queue) \cup {x}
  BY AppendElems DEF TypeOK, Apart, Placed
<1>2. UNCHANGED <<Elems(done), Elems(todo), Distinct(done), Distinct(todo)>>
  OBVIOUS
<1> QED
  BY <1>1, <1>2 DEF Apart, Placed

\* A thread takes the head of the queue: nothing else moves.
LEMMA ApartDequeue ==
    ASSUME TypeOK, HasJob, Apart, NEW th \in Threads, pc[th] \in {"top", "woken"},
           Dequeue(th), UNCHANGED <<done, todo>>
    PROVE  Apart' /\ \A t \in Jobs : Placed(t)' <=> Placed(t)
<1>1. /\ queue \in Seq(Jobs) /\ queue # <<>>
      /\ job \in [Threads -> Jobs \cup {NoTask}] /\ job[th] = NoTask
      /\ job' = [job EXCEPT ![th] = Head(queue)] /\ queue' = Tail(queue)
  BY DEF TypeOK, HasJob, Dequeue
<1>2. /\ Head(queue) \in Elems(queue) /\ Distinct(queue')
      /\ Elems(queue') = Elems(queue) \ {Head(queue)}
  BY <1>1, TailElems DEF Apart
<1>3. UNCHANGED <<Elems(done), Elems(todo), Distinct(done), Distinct(todo)>>
  OBVIOUS
<1>4. job'[th] = Head(queue) /\ \A u \in Threads : u # th => job'[u] = job[u]
  BY <1>1
<1>5. Apart'
  BY <1>2, <1>3, <1>4 DEF Apart
<1>6. ASSUME NEW t \in Jobs PROVE Placed(t)' <=> Placed(t)
  <2>1. t # NoTask
    BY PoolAssumption DEF Jobs
  <2>2. Placed(t)' => Placed(t)
    BY <1>2, <1>3, <1>4 DEF Placed
  <2>3. Placed(t) => Placed(t)'
    BY <1>1, <1>2, <1>3, <1>4, <2>1 DEF Placed
  <2> QED
    BY <2>2, <2>3
<1> QED
  BY <1>5, <1>6

LEMMA PlaceStep ==
    ASSUME TypeOK, HasJob, Walked, ExitPlace, FlagExact, Apart, Next
    PROVE  FlagExact' /\ Apart'
<1>1. ASSUME NEW t \in Tasks, Post(t) PROVE FlagExact' /\ Apart'
  <2>1. /\ t \in Jobs /\ ~Placed(t) /\ queue' = Append(queue, t)
        /\ UNCHANGED <<job, done, todo>>
    BY <1>1 DEF Post, Enqueue, FlagExact, Jobs
  <2>2. Apart' /\ Elems(queue') = Elems(queue) \cup {t}
    BY <2>1, ApartEnqueue
  <2>3. \A u \in Tasks : Placed(u)' <=> Placed(u) \/ u = t
    BY <2>1, <2>2 DEF Placed
  <2>4. /\ active'[t] = TRUE
        /\ \A u \in Tasks \ {t} : active'[u] = active[u]
    BY <1>1, ActiveType DEF Post, TypeOK
  <2> QED
    BY <2>2, <2>3, <2>4 DEF FlagExact
<1>2. ASSUME NEW th \in Threads, Take(th) \/ Resume(th) PROVE FlagExact' /\ Apart'
  <2>0. pc[th] \in {"top", "woken"} /\ UNCHANGED <<done, todo, active>>
    BY <1>2, Looks
  <2>1. CASE Dequeue(th)
    <3>1. Apart' /\ \A t \in Jobs : Placed(t)' <=> Placed(t)
      BY <2>0, <2>1, ApartDequeue
    <3> QED
      BY <2>0, <3>1 DEF FlagExact, Jobs
  <2>2. CASE Sleep(th)
    BY <2>0, <2>2 DEF Sleep, FlagExact, Placed, Apart
  <2> QED
    BY <1>2, <2>1, <2>2, Looks
<1>3. ASSUME UNCHANGED <<queue, job, done, todo, active>> PROVE FlagExact' /\ Apart'
  BY <1>3 DEF FlagExact, Placed, Apart
<1>4. ASSUME NEW th \in Threads, RunExit(th) PROVE FlagExact' /\ Apart'
  <2>1. /\ job[th] = ExitTask /\ job' = [job EXCEPT ![th] = NoTask]
        /\ UNCHANGED <<queue, done, todo, active>>
    BY <1>4 DEF RunExit
  <2>2. \A u \in Threads : job'[u] = IF u = th THEN NoTask ELSE job[u]
    BY <2>1 DEF TypeOK
  <2>3. NoTask \notin Elems(queue) \cup Elems(done) \cup Elems(todo)
    BY ElemsOf, PoolAssumption DEF TypeOK, Jobs
  <2>4. \A t \in Tasks : Placed(t)' <=> Placed(t)
    BY <2>1, <2>2, PoolAssumption DEF Placed
  <2>5. Apart'
    BY <2>1, <2>2, <2>3 DEF Apart
  <2> QED
    BY <2>1, <2>4, <2>5 DEF FlagExact
<1>5. ASSUME NEW th \in Threads, AppendDone(th) PROVE FlagExact' /\ Apart'
  <2>1. /\ job[th] \in Tasks /\ job' = [job EXCEPT ![th] = NoTask]
        /\ done' = Append(done, job[th])
        /\ UNCHANGED <<queue, todo, active>>
    BY <1>5 DEF AppendDone, HasJob
  <2>2. \A u \in Threads : job'[u] = IF u = th THEN NoTask ELSE job[u]
    BY <2>1 DEF TypeOK
  <2>3. NoTask \notin Elems(queue) \cup Elems(done) \cup Elems(todo) \cup Tasks
    BY ElemsOf, PoolAssumption DEF TypeOK, Jobs
  <2>4. Elems(done') = Elems(done) \cup {job[th]} /\ Distinct(done')
    BY <2>1, AppendElems DEF TypeOK, Apart
  <2>5. \A t \in Tasks : Placed(t)' <=> Placed(t)
    BY <2>1, <2>2, <2>3, <2>4 DEF Placed
  <2>6. Apart'
    BY <2>1, <2>2, <2>3, <2>4 DEF Apart
  <2> QED
    BY <2>1, <2>5, <2>6 DEF FlagExact
<1>6. ASSUME TakeDone PROVE FlagExact' /\ Apart'
  <2>1. todo = <<>> /\ todo' = done /\ done' = <<>> /\ UNCHANGED <<queue, job, active>>
    BY <1>6 DEF TakeDone, Walked
  <2>2. /\ Elems(todo) = {} /\ Elems(done') = {} /\ Distinct(done')
        /\ Elems(todo') = Elems(done) /\ Distinct(todo') = Distinct(done)
    BY <2>1, ElemsEmpty
  <2>3. \A t \in Tasks : Placed(t)' <=> Placed(t)
    BY <2>1, <2>2 DEF Placed
  <2>4. Apart'
    BY <2>1, <2>2 DEF Apart
  <2> QED
    BY <2>1, <2>3, <2>4 DEF FlagExact
<1>7. ASSUME CompleteTask PROVE FlagExact' /\ Apart'
  <2>1. /\ todo # <<>> /\ todo' = Tail(todo) /\ UNCHANGED <<queue, job, done>>
        /\ active' = [active EXCEPT ![Head(todo)] = FALSE]
    BY <1>7 DEF CompleteTask
  <2>2. /\ Head(todo) \in Elems(todo) /\ Head(todo) \in Tasks
        /\ Elems(todo') = Elems(todo) \ {Head(todo)} /\ Distinct(todo')
    BY <2>1, TailElems DEF TypeOK, Apart
  <2>3. \A t \in Tasks : Placed(t)' <=> Placed(t) /\ t # Head(todo)
    BY <2>1, <2>2 DEF Placed, Apart
  <2>4. Apart'
    BY <2>1, <2>2 DEF Apart
  <2>5. /\ active'[Head(todo)] = FALSE
        /\ \A u \in Tasks \ {Head(todo)} : active'[u] = active[u]
    BY <2>1, <2>2, ActiveType DEF TypeOK
  <2> QED
    BY <2>3, <2>4, <2>5 DEF FlagExact
<1>8. ASSUME PostExit PROVE FlagExact' /\ Apart'
  <2>1. ~Placed(ExitTask)
    <3>1. ExitTask \notin Elems(done) \cup Elems(todo)
      BY ElemsOf, PoolAssumption DEF TypeOK
    <3> QED
      BY <1>8, <3>1 DEF PostExit, ExitPlace, ExitHeld, Placed
  <2>2. queue' = Append(queue, ExitTask) /\ UNCHANGED <<job, done, todo, active>>
    BY <1>8 DEF PostExit, Enqueue
  <2>3. Apart' /\ Elems(queue') = Elems(queue) \cup {ExitTask}
    BY <2>1, <2>2, ApartEnqueue DEF Jobs
  <2>4. \A t \in Tasks : Placed(t)' <=> Placed(t)
    BY <2>2, <2>3, PoolAssumption DEF Placed
  <2> QED
    BY <2>2, <2>3, <2>4 DEF FlagExact
<1>9. ASSUME NEW th \in Threads, RunTask(th) \/ Notify(th) \/ SpuriousWakeup(th)
      PROVE  FlagExact' /\ Apart'
  BY <1>3, <1>9 DEF RunTask, Notify, SpuriousWakeup
<1>10. ASSUME PollNotify \/ HandlerReturns \/ ExitWorker \/ PostExitFails \/ ThreadStopped
              \/ DestroyPool
       PROVE  FlagExact' /\ Apart'
  BY <1>3, <1>10 DEF PollNotify, HandlerReturns, ExitWorker, PostExitFails, ThreadStopped,
                     DestroyPool
<1> QED
  BY <1>1, <1>2, <1>4, <1>5, <1>6, <1>7, <1>8, <1>9, <1>10 DEF Next, ThreadStep, LoopStep

----------------------------------------------------------------------------
(* Notifications, and the list the loop walks.                             *)

LEMMA ToldStep ==
    ASSUME TypeOK, Walked, LoopIsTold, Next
    PROVE  Walked' /\ LoopIsTold'
<1> USE DEF Walked, LoopIsTold
<1>1. ASSUME NEW t \in Tasks, Post(t) PROVE Walked' /\ LoopIsTold'
  <2>1. /\ \A th \in Threads : pc[th] = "notify" => pc'[th] = "notify"
        /\ UNCHANGED <<done, edge, todo, loop>>
    BY <1>1, SignalWakes DEF Post, Enqueue, TypeOK
  <2> QED
    BY <2>1
<1>2. ASSUME NEW th \in Threads, Take(th) \/ Resume(th) \/ RunTask(th) \/ RunExit(th)
                                 \/ SpuriousWakeup(th)
      PROVE  Walked' /\ LoopIsTold'
  <2>1. /\ \A u \in Threads : pc[u] = "notify" => pc'[u] = "notify"
        /\ UNCHANGED <<done, edge, todo, loop>>
    BY <1>2 DEF Take, Resume, Dequeue, Sleep, RunTask, RunExit, SpuriousWakeup, Move, TypeOK
  <2> QED
    BY <2>1
<1>3. ASSUME NEW th \in Threads, AppendDone(th) \/ Notify(th) PROVE Walked' /\ LoopIsTold'
  BY <1>3 DEF AppendDone, Notify, Move, TypeOK
<1>4. ASSUME LoopStep \/ ExitWorker, ~PostExit PROVE Walked' /\ LoopIsTold'
  BY <1>4 DEF LoopStep, PollNotify, TakeDone, CompleteTask, HandlerReturns, ExitWorker,
              PostExitFails, ThreadStopped, DestroyPool
<1>5. CASE PostExit
  <2>1. /\ \A th \in Threads : pc[th] = "notify" => pc'[th] = "notify"
        /\ UNCHANGED <<done, edge, todo>> /\ loop = "destroy" /\ loop' = "spin"
    BY <1>5, SignalWakes DEF PostExit, Enqueue, TypeOK
  <2> QED
    BY <2>1
<1> QED
  BY <1>1, <1>2, <1>3, <1>4, <1>5 DEF Next, ThreadStep

----------------------------------------------------------------------------
(* Threads leave one by one.                                               *)

LEMMA GoneFinite == /\ IsFiniteSet(Gone) /\ Cardinality(Gone) \in Nat
                    /\ Cardinality(Gone) <= Cardinality(Threads)
                    /\ Cardinality(Gone) = Cardinality(Threads) => Gone = Threads
                    /\ Cardinality(Threads) \in Nat \ {0}
                    /\ Cardinality(Gone) = 0 <=> Gone = {}
<1>1. Gone \subseteq Threads /\ IsFiniteSet(Threads) /\ Threads # {}
  BY PoolAssumption DEF Gone
<1> QED
  BY <1>1, FS_Subset, FS_CardinalityType, FS_EmptySet

LEMMA GoneStep ==
    ASSUME TypeOK, ExitPlace, GoneCounted, Next
    PROVE  GoneCounted'
<1>0. /\ exits \in Nat /\ lock \in {0, 1} /\ Cardinality(Gone) \in Nat
      /\ IsFiniteSet(Gone) /\ Cardinality(Threads) \in Nat
  BY GoneFinite DEF TypeOK
<1>1. ASSUME Gone' = Gone, UNCHANGED <<loop, lock, exits>> PROVE GoneCounted'
  BY <1>1 DEF GoneCounted, Stopped
<1>2. ASSUME NEW x, Enqueue(x) PROVE Gone' = Gone
  BY <1>2, SignalWakes DEF Enqueue, Gone, TypeOK
<1>3. ASSUME NEW t \in Tasks, Post(t) PROVE GoneCounted'
  BY <1>1, <1>2, <1>3 DEF Post
<1>4. ASSUME NEW th \in Threads, Take(th) \/ Resume(th) \/ RunTask(th) \/ AppendDone(th)
                                 \/ Notify(th) \/ SpuriousWakeup(th)
      PROVE  GoneCounted'
  <2>1. Gone' = Gone /\ UNCHANGED <<loop, lock, exits>>
    BY <1>4 DEF Take, Resume, Dequeue, Sleep, RunTask, AppendDone, Notify, SpuriousWakeup,
                Move, Gone, TypeOK
  <2> QED
    BY <1>1, <2>1
<1>5. ASSUME NEW th \in Threads, RunExit(th) PROVE GoneCounted'
  <2>1. loop = "spin" /\ lock = 1 /\ lock' = 0 /\ UNCHANGED <<loop, exits>>
    BY <1>5 DEF RunExit, ExitPlace, ExitHeld
  <2>2. th \notin Gone /\ Gone' = Gone \cup {th}
    BY <1>5 DEF RunExit, Move, Gone, TypeOK
  <2>3. Cardinality(Gone') = Cardinality(Gone) + 1
    BY <1>0, <2>2, FS_AddElement
  <2> QED
    BY <1>0, <2>1, <2>3 DEF GoneCounted, Stopped
<1>6. ASSUME PollNotify \/ TakeDone \/ CompleteTask \/ HandlerReturns \/ ExitWorker
      PROVE  GoneCounted'
  <2>1. Gone' = Gone /\ UNCHANGED <<lock, exits>>
    BY <1>6 DEF PollNotify, TakeDone, CompleteTask, HandlerReturns, ExitWorker, Gone
  <2>2. loop \in {"loop", "handler", "completing"}
        /\ loop' \in {"loop", "handler", "completing", "destroy"}
    BY <1>6 DEF PollNotify, TakeDone, CompleteTask, HandlerReturns, ExitWorker
  <2> QED
    BY <2>1, <2>2 DEF GoneCounted, Stopped
<1>7. ASSUME PostExit PROVE GoneCounted'
  <2>1. Gone' = Gone
    BY <1>2, <1>7 DEF PostExit
  <2>2. /\ loop = "destroy" /\ loop' = "spin" /\ lock' = 1 /\ exits' = exits
        /\ exits < Cardinality(Threads)
    BY <1>7 DEF PostExit
  <2> QED
    BY <2>1, <2>2 DEF GoneCounted, Stopped
<1>8. ASSUME PostExitFails \/ ThreadStopped \/ DestroyPool PROVE GoneCounted'
  <2>1. Gone' = Gone
    BY <1>8 DEF PostExitFails, ThreadStopped, DestroyPool, Gone
  <2> QED
    BY <1>0, <1>8, <2>1 DEF PostExitFails, ThreadStopped, DestroyPool, GoneCounted, Stopped
<1> QED
  BY <1>3, <1>4, <1>5, <1>6, <1>7, <1>8 DEF Next, ThreadStep, LoopStep

\* The exit task on its way through the queue; it is the last one in.
LEMMA ExitStep ==
    ASSUME TypeOK, HasJob, GoneCounted, Apart, ExitPlace, Next
    PROVE  ExitPlace'
<1>0. queue \in Seq(Jobs) /\ job \in [Threads -> Jobs \cup {NoTask}] /\ lock \in {0, 1}
  BY DEF TypeOK
<1>1. ASSUME UNCHANGED <<queue, job, lock, exits, loop>> PROVE ExitPlace'
  BY <1>1 DEF ExitPlace, Emptied, ExitHeld
<1>2. ASSUME NEW t \in Tasks, Post(t) PROVE ExitPlace'
  <2>1. /\ Elems(queue') = Elems(queue) \cup {t} /\ t # ExitTask
        /\ loop \in {"loop", "completing"} /\ UNCHANGED <<job, loop, lock, exits>>
    BY <1>0, <1>2, AppendElems, PoolAssumption DEF Post, Enqueue, Jobs
  <2> QED
    BY <2>1 DEF ExitPlace, Emptied, ExitHeld
<1>3. ASSUME NEW th \in Threads, Take(th) \/ Resume(th) PROVE ExitPlace'
  <2>0. pc[th] \in {"top", "woken"} /\ UNCHANGED <<loop, lock, exits>> /\ job[th] = NoTask
    BY <1>3, Looks DEF HasJob
  <2>1. CASE Sleep(th)
    BY <1>1, <2>0, <2>1 DEF Sleep
  <2>2. CASE Dequeue(th)
    <3>1. /\ queue # <<>> /\ queue' = Tail(queue)
          /\ \A u \in Threads : job'[u] = IF u = th THEN Head(queue) ELSE job[u]
      BY <1>0, <2>2 DEF Dequeue
    <3>2. /\ Head(queue) \in Elems(queue) /\ Elems(queue') = Elems(queue) \ {Head(queue)}
      BY <1>0, <3>1, TailElems DEF Apart
    <3>3. CASE loop = "spin" /\ lock = 1
      <4>1. queue[Len(queue)] = ExitTask /\ ~ExitHeld
        BY <3>1, <3>3 DEF ExitPlace, Emptied
      <4>2. CASE Len(queue) = 1
        <5>1. queue' = <<>> /\ Head(queue) = ExitTask
          BY <1>0, <3>1, <4>1, <4>2
        <5>2. job'[th] = ExitTask
          BY <3>1, <5>1
        <5> QED
          BY <2>0, <3>3, <5>1, <5>2 DEF ExitPlace, Emptied, ExitHeld
      <4>3. CASE Len(queue) # 1
        <5>1. /\ Len(queue) \in Nat /\ Len(queue) > 1 /\ Len(queue') = Len(queue) - 1
              /\ \A i \in 1 .. Len(queue) - 1 : queue'[i] = queue[i + 1]
          <6>1. /\ Len(queue) \in Nat \ {0} /\ Len(Tail(queue)) = Len(queue) - 1
                /\ \A i \in 1 .. Len(queue) - 1 : Tail(queue)[i] = queue[i + 1]
            BY <1>0, <3>1, TailElems
          <6>2. Len(queue) \in Nat /\ Len(queue) > 1
            BY <4>3, <6>1
          <6> QED
            BY <3>1, <6>1, <6>2
        <5>2. Head(queue) # ExitTask
          BY <1>0, <4>1, <5>1 DEF Apart, Distinct
        <5>3. queue' # <<>> /\ queue'[Len(queue')] = ExitTask
          <6>1. Len(queue) - 1 \in 1 .. Len(queue) - 1 /\ (Len(queue) - 1) + 1 = Len(queue)
            BY <5>1
          <6>2. queue'[Len(queue')] = queue[Len(queue)] /\ Len(queue') # 0
            BY <5>1, <6>1
          <6> QED
            BY <4>1, <6>2
        <5>4. ~ExitHeld'
          BY <3>1, <4>1, <5>2 DEF ExitHeld
        <5> QED
          BY <2>0, <3>3, <5>3, <5>4 DEF ExitPlace, Emptied
      <4> QED
        BY <4>2, <4>3
    <3>4. CASE ~(loop = "spin" /\ lock = 1)
      <4>1. ExitTask \notin Elems(queue') /\ ~ExitHeld'
        BY <3>1, <3>2, <3>4 DEF ExitPlace, Emptied, ExitHeld
      <4> QED
        BY <2>0, <3>1, <3>4, <4>1 DEF ExitPlace, Emptied
    <3> QED
      BY <3>3, <3>4
  <2> QED
    BY <1>3, <2>1, <2>2, Looks
<1>4. ASSUME NEW th \in Threads, RunExit(th) PROVE ExitPlace'
  <2>1. loop = "spin" /\ lock = 1 /\ queue = <<>>
    BY <1>4 DEF RunExit, ExitPlace, Emptied, ExitHeld
  <2>2. job[th] = ExitTask /\ UNCHANGED <<queue, loop, exits>> /\ lock' = 0
        /\ \A u \in Threads : job'[u] = IF u = th THEN NoTask ELSE job[u]
    BY <1>0, <1>4 DEF RunExit
  <2>3. \A u \in Threads : u # th => job[u] # ExitTask
    BY <2>2, PoolAssumption DEF Apart
  <2>4. ~ExitHeld' /\ ExitTask \notin Elems(queue')
    BY <2>1, <2>2, <2>3, PoolAssumption, ElemsEmpty DEF ExitHeld
  <2> QED
    BY <2>1, <2>2, <2>4 DEF ExitPlace, Emptied
<1>5. ASSUME NEW th \in Threads, AppendDone(th) PROVE ExitPlace'
  <2>1. /\ job[th] \in Tasks /\ UNCHANGED <<queue, loop, lock, exits>>
        /\ \A u \in Threads : job'[u] = IF u = th THEN NoTask ELSE job[u]
    BY <1>0, <1>5 DEF AppendDone, HasJob
  <2>2. ExitHeld' <=> ExitHeld
    BY <2>1, PoolAssumption DEF ExitHeld
  <2> QED
    BY <2>1, <2>2 DEF ExitPlace, Emptied
<1>6. ASSUME NEW th \in Threads, RunTask(th) \/ Notify(th) \/ SpuriousWakeup(th) PROVE ExitPlace'
  BY <1>1, <1>6 DEF RunTask, Notify, SpuriousWakeup
<1>7. ASSUME PollNotify \/ TakeDone \/ CompleteTask \/ HandlerReturns \/ ExitWorker
      PROVE  ExitPlace'
  <2>1. UNCHANGED <<queue, job, lock, exits>>
    BY <1>7 DEF PollNotify, TakeDone, CompleteTask, HandlerReturns, ExitWorker
  <2>2. loop \in {"loop", "handler", "completing"}
        /\ loop' \in {"loop", "handler", "completing", "destroy"}
    BY <1>7 DEF PollNotify, TakeDone, CompleteTask, HandlerReturns, ExitWorker
  <2>3. exits = 0 /\ ExitTask \notin Elems(queue) /\ ~ExitHeld
    BY <2>2 DEF GoneCounted, ExitPlace, Emptied
  <2> QED
    BY <2>1, <2>2, <2>3 DEF ExitPlace, Emptied, ExitHeld
<1>8. ASSUME PostExit PROVE ExitPlace'
  <2>1. /\ loop = "destroy" /\ loop' = "spin" /\ lock' = 1 /\ queue' = Append(queue, ExitTask)
        /\ job' = job
    BY <1>8 DEF PostExit, Enqueue
  <2>2. queue' # <<>> /\ queue'[Len(queue')] = ExitTask
    BY <1>0, <2>1, AppendElems DEF Jobs
  <2>3. ~ExitHeld'
    BY <2>1 DEF ExitPlace, Emptied, ExitHeld
  <2> QED
    BY <2>1, <2>2, <2>3 DEF ExitPlace, Emptied
<1>9. ASSUME PostExitFails \/ ThreadStopped \/ DestroyPool PROVE ExitPlace'
  <2>1. UNCHANGED <<queue, job>>
    BY <1>9 DEF PostExitFails, ThreadStopped, DestroyPool
  <2>2. ExitTask \notin Elems(queue) /\ ~ExitHeld
    BY <1>9 DEF PostExitFails, ThreadStopped, DestroyPool, ExitPlace, Emptied
  <2>3. CASE PostExitFails
    BY <2>1, <2>2, <2>3 DEF PostExitFails, ExitPlace, Emptied, ExitHeld
  <2>4. CASE ThreadStopped
    BY <2>1, <2>2, <2>4 DEF ThreadStopped, ExitPlace, Emptied, ExitHeld
  <2>5. CASE DestroyPool
    <3>1. exits > 0
      BY <2>5, GoneFinite DEF DestroyPool
    <3>2. queue' = <<>> /\ loop' = "destroyed"
      BY <2>1, <2>5, <3>1 DEF DestroyPool, ExitPlace, Emptied
    <3>3. ExitTask \notin Elems(queue') /\ ~ExitHeld'
      BY <2>1, <2>2 DEF ExitHeld
    <3> QED
      BY <3>2, <3>3 DEF ExitPlace, Emptied
  <2> QED
    BY <1>9, <2>3, <2>4, <2>5
<1> QED
  BY <1>2, <1>3, <1>4, <1>5, <1>6, <1>7, <1>8, <1>9 DEF Next, ThreadStep, LoopStep

----------------------------------------------------------------------------
(* Signals.                                                                *)

\* After a post somebody is up: whoever was, or whom the signal woke.
LEMMA EnqueueWakes ==
    ASSUME TypeOK, NEW x, Enqueue(x), Gone # Threads
    PROVE  SomebodyTakes'
<1>1. PICK th \in Threads : pc[th] # "gone"
  BY DEF Gone
<1>2. Signal
  BY DEF Enqueue
<1>3. CASE pc' = pc /\ \A u \in Threads : pc[u] # "asleep"
  BY <1>1, <1>3 DEF SomebodyTakes
<1>4. CASE \E u \in Threads : pc[u] = "asleep" /\ pc' = [pc EXCEPT ![u] = "woken"]
  BY <1>4 DEF SomebodyTakes, TypeOK
<1> QED
  BY <1>2, <1>3, <1>4, SignalWakes

LEMMA TakesStep ==
    ASSUME TypeOK, GoneCounted, ExitPlace, SomebodyTakes, Next
    PROVE  SomebodyTakes'
<1>1. ASSUME NEW t \in Tasks, Post(t) PROVE SomebodyTakes'
  <2>1. exits = 0 /\ Cardinality(Gone) = 0
    BY <1>1 DEF Post, GoneCounted, Stopped
  <2>2. Gone # Threads
    BY <2>1, GoneFinite
  <2> QED
    BY <1>1, <2>2, EnqueueWakes DEF Post
<1>2. ASSUME PostExit PROVE SomebodyTakes'
  <2>1. Cardinality(Gone) = exits /\ exits < Cardinality(Threads)
    BY <1>2 DEF PostExit, GoneCounted, Stopped
  <2>2. Gone # Threads
    BY <2>1, GoneFinite
  <2> QED
    BY <1>2, <2>2, EnqueueWakes DEF PostExit
<1>3. ASSUME NEW th \in Threads, Take(th) \/ Resume(th) PROVE SomebodyTakes'
  BY <1>3, Looks DEF Dequeue, Sleep, Move, SomebodyTakes, TypeOK
<1>4. ASSUME NEW th \in Threads, RunTask(th) \/ AppendDone(th) \/ Notify(th) \/ SpuriousWakeup(th)
      PROVE  SomebodyTakes'
  <2>1. queue' = queue
        /\ \A u \in Threads : pc[u] \notin {"asleep", "gone"} => pc'[u] \notin {"asleep", "gone"}
    BY <1>4 DEF RunTask, AppendDone, Notify, SpuriousWakeup, Move, TypeOK
  <2> QED
    BY <2>1 DEF SomebodyTakes
<1>5. ASSUME NEW th \in Threads, RunExit(th) PROVE SomebodyTakes'
  <2>1. queue = <<>> /\ queue' = queue
    BY <1>5 DEF RunExit, ExitPlace, ExitHeld
  <2> QED
    BY <2>1 DEF SomebodyTakes
<1>6. ASSUME LoopStep \/ ExitWorker, ~PostExit PROVE SomebodyTakes'
  <2>1. UNCHANGED <<queue, pc>>
    BY <1>6 DEF LoopStep, PollNotify, TakeDone, CompleteTask, HandlerReturns, ExitWorker,
                PostExitFails, ThreadStopped, DestroyPool
  <2> QED
    BY <2>1 DEF SomebodyTakes
<1> QED
  BY <1>1, <1>2, <1>3, <1>4, <1>5, <1>6 DEF Next, ThreadStep

----------------------------------------------------------------------------
(* The theorems.                                                           *)

LEMMA InitInv == Init => Inv
<1> SUFFICES ASSUME Init PROVE Inv
  OBVIOUS
<1>1. queue = <<>> /\ done = <<>> /\ todo = <<>> /\ Gone = {} /\ Idle = {}
      /\ exits = 0 /\ loop = "loop" /\ waiting = 0 /\ lock = 0
  BY DEF Init, Gone, Idle
<1>2. Cardinality({}) = 0
  BY FS_EmptySet
<1>3. TypeOK /\ HasJob
  <2>1. /\ queue \in Seq(Jobs) /\ done \in Seq(Tasks) /\ todo \in Seq(Tasks)
        /\ waiting \in Int /\ exits \in Nat /\ lock \in {0, 1} /\ loop \in LoopPlaces
    BY <1>1 DEF LoopPlaces
  <2>2. /\ pc \in [Threads -> ThreadPlaces] /\ job \in [Threads -> Jobs \cup {NoTask}]
        /\ HasJob
    BY DEF Init, HasJob, ThreadPlaces
  <2>3. active \in [Tasks -> BOOLEAN] /\ edge \in BOOLEAN
    BY DEF Init
  <2> QED
    BY <2>1, <2>2, <2>3 DEF TypeOK
<1>4. Limit /\ Walked /\ WaitingExact /\ GoneCounted /\ SomebodyTakes /\ LoopIsTold
  BY <1>1, <1>2, PoolAssumption
     DEF Limit, Walked, WaitingExact, GoneCounted, Stopped, SomebodyTakes, LoopIsTold
<1>5. \A th \in Threads : job[th] = NoTask
  BY DEF Init
<1>6. FlagExact
  BY <1>1, <1>5, ElemsEmpty, PoolAssumption DEF Init, FlagExact, Placed
<1>7. Apart /\ ExitPlace
  BY <1>1, <1>5, ElemsEmpty, PoolAssumption DEF Apart, ExitPlace, Emptied, ExitHeld
<1> QED
  BY <1>3, <1>4, <1>6, <1>7, Split DEF Inv

LEMMA InvStep == Inv /\ [Next]_vars => Inv'
<1> SUFFICES ASSUME Inv, [Next]_vars PROVE Inv'
  OBVIOUS
<1>1. CASE UNCHANGED vars
  BY <1>1 DEF vars, Inv, TypeOK, HasJob, Limit, Walked, WaitingExact, Idle, OneTaskOnePlace,
              Runs, GoneCounted, Gone, Stopped, ExitPlace, Emptied, ExitHeld, SomebodyTakes,
              LoopIsTold
<1>2. CASE Next
  <2>1. FlagExact /\ Apart
    BY Split DEF Inv
  <2>2. TypeOK' /\ HasJob'
    BY <1>2, TypeStep DEF Inv
  <2>3. WaitingExact' /\ Limit'
    BY <1>2, WaitingStep DEF Inv
  <2>4. FlagExact' /\ Apart'
    BY <1>2, <2>1, PlaceStep DEF Inv
  <2>5. Walked' /\ LoopIsTold'
    BY <1>2, ToldStep DEF Inv
  <2>6. GoneCounted' /\ ExitPlace'
    BY <1>2, <2>1, GoneStep, ExitStep DEF Inv
  <2>7. SomebodyTakes'
    BY <1>2, TakesStep DEF Inv
  <2>8. OneTaskOnePlace'
    BY <2>4, Split, PTL
  <2> QED
    BY <2>2, <2>3, <2>5, <2>6, <2>7, <2>8 DEF Inv
<1> QED
  BY <1>1, <1>2

\* The inductive invariant.
THEOREM PoolInvariant == Spec => []Inv
BY InitInv, InvStep, PTL DEF Spec

\* Types: no counter, list or flag leaves its range, and a thread's task is one.
THEOREM TypeCorrect == Spec => []TypeOK
BY PoolInvariant, PTL DEF Inv

\* tp->waiting is the length of the queue less the threads that wait.
THEOREM WaitingCounts == Spec => []WaitingExact
BY PoolInvariant, PTL DEF Inv

\* The check of max_queue before the increment bounds the queue.
THEOREM QueueLimited == Spec => []QueueBounded
<1>1. Inv => QueueBounded
  BY BoundedQueue DEF Inv
<1> QED
  BY <1>1, PoolInvariant, PTL

\* No task is lost, run twice or completed twice.
THEOREM TasksInOnePlace == Spec => []OneTaskOnePlace
BY PoolInvariant, PTL DEF Inv

\* No signal of ngx_thread_task_post and no notification of the event loop is
\* lost: what was queued will be looked at, what is done will be completed.
THEOREM NoSignalLost == Spec => []NothingForgotten
<1>1. Inv => NothingForgotten
  BY DEF Inv, NothingForgotten
<1> QED
  BY <1>1, PoolInvariant, PTL

\* What the threads use is destroyed after the last of them has gone.
THEOREM DestroyedLast == Spec => []DestroyedAfterUse
<1>1. Inv => DestroyedAfterUse
  <2> SUFFICES ASSUME Inv, loop = "destroyed"
               PROVE  queue = <<>> /\ \A th \in Threads : pc[th] = "gone"
    BY DEF DestroyedAfterUse
  <2>1. queue = <<>>
    BY DEF Inv, ExitPlace, Emptied
  <2>2. Gone = Threads
    BY GoneFinite DEF Inv, GoneCounted, Stopped
  <2> QED
    BY <2>1, <2>2 DEF Gone
<1> QED
  BY <1>1, PoolInvariant, PTL

----------------------------------------------------------------------------
(* The pool implements TaskOffload.                                        *)

\* A task whose handler has returned but whose completion has not begun.
Ran(t) == \/ t \in Elems(done) \/ t \in Elems(todo)
          \/ \E th \in Threads : job[th] = t /\ pc[th] = "append"

PhaseExact ==
    /\ Phase \in [Tasks -> {"idle", "posted", "ran"}]
    /\ \A t \in Tasks : /\ Phase[t] = "idle" <=> ~active[t]
                        /\ Phase[t] = "posted" <=> active[t] /\ ~Ran(t)
                        /\ Phase[t] = "ran" <=> active[t] /\ Ran(t)

LEMMA PhaseOf == PhaseExact
<1>1. \A t \in Tasks : t \in Elems(done) \cup Elems(todo)
                         \/ (\E th \in Threads : Runs(th, t) /\ pc[th] = "append")
                       <=> Ran(t)
  BY DEF Ran, Runs
<1> QED
  BY <1>1 DEF Phase, PhaseExact

LEMMA PhaseNext == PhaseExact'
BY PhaseOf, PTL

\* Where nothing is seen of a task its phase stays.
Same(u) == (active'[u] <=> active[u]) /\ (Ran(u)' <=> Ran(u))

LEMMA PhaseStays == \A u \in Tasks : Same(u) => Phase'[u] = Phase[u]
<1> SUFFICES ASSUME NEW u \in Tasks, Same(u) PROVE Phase'[u] = Phase[u]
  OBVIOUS
<1>1. Phase[u] \in {"idle", "posted", "ran"}
  BY PhaseOf DEF PhaseExact
<1>2. Phase[u] = "idle" => Phase'[u] = "idle"
  BY PhaseOf, PhaseNext, Zenon DEF Same, PhaseExact
<1>3. Phase[u] = "posted" => Phase'[u] = "posted"
  BY PhaseOf, PhaseNext, Zenon DEF Same, PhaseExact
<1>4. Phase[u] = "ran" => Phase'[u] = "ran"
  BY PhaseOf, PhaseNext, Zenon DEF Same, PhaseExact
<1> QED
  BY <1>1, <1>2, <1>3, <1>4

LEMMA PhaseSame == (\A u \in Tasks : Same(u)) => Phase' = Phase
BY PhaseStays, PhaseOf, PhaseNext DEF PhaseExact

\* One task changes its phase.
LEMMA PhaseMoves ==
    ASSUME NEW t \in Tasks, \A u \in Tasks \ {t} : Same(u), NEW p, Phase'[t] = p
    PROVE  Phase' = [Phase EXCEPT ![t] = p]
BY PhaseStays, PhaseOf, PhaseNext DEF PhaseExact

LEMMA PhaseStep ==
    ASSUME TypeOK, HasJob, Walked, FlagExact, Apart, Next
    PROVE  Phase' = Phase \/ \E t \in Tasks : O!Post(t) \/ O!Run(t) \/ O!Complete(t)
<1> USE DEF Ran
<1>0. /\ pc \in [Threads -> ThreadPlaces] /\ job \in [Threads -> Jobs \cup {NoTask}]
      /\ queue \in Seq(Jobs) /\ done \in Seq(Tasks) /\ todo \in Seq(Tasks)
      /\ ExitTask \notin Tasks /\ NoTask \notin Tasks
  BY PoolAssumption DEF TypeOK
<1>1. ASSUME NEW t \in Tasks, Post(t) PROVE O!Post(t)
  <2>1. ~active[t] /\ ~Ran(t)
    BY <1>1 DEF Post, FlagExact, Placed
  <2>2. Signal /\ UNCHANGED <<job, done, todo>> /\ active' = [active EXCEPT ![t] = TRUE]
    BY <1>1 DEF Post, Enqueue
  <2>3. \A th \in Threads : pc'[th] = "append" <=> pc[th] = "append"
    BY <1>0, <2>2, SignalWakes
  <2>4. \A u \in Tasks : Ran(u)' <=> Ran(u)
    BY <2>2, <2>3
  <2>5. active'[t] = TRUE /\ \A u \in Tasks \ {t} : active'[u] = active[u]
    BY <2>2, ActiveType DEF TypeOK
  <2>6. Phase[t] = "idle" /\ Phase'[t] = "posted"
    BY <2>1, <2>4, <2>5, PhaseOf, PhaseNext DEF PhaseExact
  <2>7. \A u \in Tasks \ {t} : Same(u)
    BY <2>4, <2>5 DEF Same
  <2> QED
    BY <2>6, <2>7, PhaseMoves DEF O!Post
<1>2. ASSUME UNCHANGED active, \A u \in Tasks : Ran(u)' <=> Ran(u) PROVE Phase' = Phase
  BY <1>2, PhaseSame DEF Same
<1>3. ASSUME NEW th \in Threads, Take(th) \/ Resume(th) PROVE Phase' = Phase
  <2>0. pc[th] \in {"top", "woken"} /\ UNCHANGED <<done, todo, active>> /\ job[th] = NoTask
    BY <1>3, Looks DEF HasJob
  <2>1. /\ \A u \in Threads \ {th} : pc'[u] = pc[u] /\ job'[u] = job[u]
        /\ pc'[th] \in {"run", "asleep"}
    BY <1>0, <1>3, Looks DEF Dequeue, Sleep, Move
  <2>2. \A u \in Tasks : Ran(u)' <=> Ran(u)
    BY <2>0, <2>1
  <2> QED
    BY <1>2, <2>0, <2>2
<1>4. ASSUME NEW th \in Threads, RunExit(th) \/ Notify(th) \/ SpuriousWakeup(th)
      PROVE  Phase' = Phase
  <2>1. /\ \A u \in Threads \ {th} : pc'[u] = pc[u] /\ job'[u] = job[u]
        /\ pc[th] # "append" /\ pc'[th] # "append"
        /\ UNCHANGED <<done, todo, active>>
    BY <1>0, <1>4 DEF RunExit, Notify, SpuriousWakeup, Move
  <2>2. \A u \in Tasks : Ran(u)' <=> Ran(u)
    BY <2>1
  <2> QED
    BY <1>2, <2>1, <2>2
<1>5. ASSUME NEW th \in Threads, RunTask(th) PROVE O!Run(job[th])
  <2> DEFINE t == job[th]
  <2>1. /\ t \in Tasks /\ pc[th] = "run" /\ pc' = [pc EXCEPT ![th] = "append"]
        /\ UNCHANGED <<job, done, todo, active>>
    BY <1>5 DEF RunTask, Move, HasJob, Jobs
  <2>2. active[t] /\ ~Ran(t)
    BY <1>0, <2>1 DEF FlagExact, Placed, Apart
  <2>3. Ran(t)'
    BY <1>0, <2>1
  <2>4. \A u \in Tasks \ {t} : Same(u)
    BY <1>0, <2>1 DEF Same
  <2>5. Phase[t] = "posted" /\ Phase'[t] = "ran"
    BY <2>1, <2>2, <2>3, PhaseOf, PhaseNext DEF PhaseExact
  <2> QED
    BY <2>1, <2>4, <2>5, PhaseMoves DEF O!Run
<1>6. ASSUME NEW th \in Threads, AppendDone(th) PROVE Phase' = Phase
  <2>1. /\ pc[th] = "append" /\ job[th] \in Tasks /\ UNCHANGED <<todo, active>>
        /\ \A u \in Threads \ {th} : pc'[u] = pc[u] /\ job'[u] = job[u]
        /\ pc'[th] = "notify"
    BY <1>0, <1>6 DEF AppendDone, Move, HasJob
  <2>2. Elems(done') = Elems(done) \cup {job[th]}
    BY <1>0, <1>6, <2>1, AppendElems DEF AppendDone
  <2>3. \A u \in Tasks : Ran(u)' <=> Ran(u)
    BY <2>1, <2>2
  <2> QED
    BY <1>2, <2>1, <2>3
<1>7. ASSUME TakeDone PROVE Phase' = Phase
  <2>1. todo = <<>> /\ todo' = done /\ done' = <<>> /\ UNCHANGED <<pc, job, active>>
    BY <1>7 DEF TakeDone, Walked
  <2>2. Elems(todo) = {} /\ Elems(done') = {} /\ Elems(todo') = Elems(done)
    BY <2>1, ElemsEmpty
  <2>3. \A u \in Tasks : Ran(u)' <=> Ran(u)
    BY <2>1, <2>2
  <2> QED
    BY <1>2, <2>1, <2>3
<1>8. ASSUME CompleteTask PROVE O!Complete(Head(todo))
  <2> DEFINE t == Head(todo)
  <2>1. /\ todo # <<>> /\ todo' = Tail(todo) /\ UNCHANGED <<pc, job, done>>
        /\ active' = [active EXCEPT ![t] = FALSE]
    BY <1>8 DEF CompleteTask
  <2>2. t \in Elems(todo) /\ t \in Tasks /\ Elems(todo') = Elems(todo) \ {t}
    BY <1>0, <2>1, TailElems DEF Apart
  <2>3. active'[t] = FALSE /\ \A u \in Tasks \ {t} : active'[u] = active[u]
    BY <2>1, <2>2, ActiveType DEF TypeOK
  <2>4. active[t] /\ Ran(t)
    BY <2>2 DEF FlagExact, Placed
  <2>5. \A u \in Tasks \ {t} : Same(u)
    BY <2>1, <2>2, <2>3 DEF Same
  <2>6. Phase[t] = "ran" /\ Phase'[t] = "idle"
    BY <2>2, <2>3, <2>4, PhaseOf, PhaseNext DEF PhaseExact
  <2> QED
    BY <2>2, <2>5, <2>6, PhaseMoves DEF O!Complete
<1>9. ASSUME PostExit PROVE Phase' = Phase
  <2>1. Signal /\ UNCHANGED <<job, done, todo, active>>
    BY <1>9 DEF PostExit, Enqueue
  <2>2. \A th \in Threads : pc'[th] = "append" <=> pc[th] = "append"
    BY <1>0, <2>1, SignalWakes
  <2>3. \A u \in Tasks : Ran(u)' <=> Ran(u)
    BY <2>1, <2>2
  <2> QED
    BY <1>2, <2>1, <2>3
<1>10. ASSUME PollNotify \/ HandlerReturns \/ ExitWorker \/ PostExitFails \/ ThreadStopped
              \/ DestroyPool
       PROVE  Phase' = Phase
  <2>1. UNCHANGED <<pc, job, done, todo, active>>
    BY <1>10 DEF PollNotify, HandlerReturns, ExitWorker, PostExitFails, ThreadStopped, DestroyPool
  <2> QED
    BY <1>2, <2>1
<1>11. ASSUME NEW th \in Threads, RunTask(th) PROVE job[th] \in Tasks
  BY <1>11 DEF RunTask, HasJob, Jobs
<1>12. ASSUME CompleteTask PROVE Head(todo) \in Tasks
  BY <1>0, <1>12, TailElems DEF CompleteTask
<1> QED
  BY <1>1, <1>3, <1>4, <1>5, <1>6, <1>7, <1>8, <1>9, <1>10, <1>11, <1>12
     DEF Next, ThreadStep, LoopStep

\* Seen from the event loop the pool is the abstract executor: an accepted task
\* is run once, then completed once, and only then accepted again.
THEOREM Refinement == Spec => OffloadsSafely
<1>1. Init => O!Init
  <2> SUFFICES ASSUME Init PROVE Phase = [t \in Tasks |-> "idle"]
    BY DEF O!Init
  <2>1. \A t \in Tasks : ~active[t]
    BY DEF Init
  <2> QED
    BY <2>1 DEF Phase
<1>2. Inv /\ [Next]_vars => [O!Next]_Phase
  <2> SUFFICES ASSUME Inv, [Next]_vars PROVE O!Next \/ Phase' = Phase
    OBVIOUS
  <2>1. CASE Next
    BY <2>1, PhaseStep, Split DEF Inv, O!Next
  <2>2. CASE UNCHANGED vars
    BY <2>2, PhaseSame DEF vars, Same, Ran
  <2> QED
    BY <2>1, <2>2
<1> QED
  BY <1>1, <1>2, PoolInvariant, PTL DEF Spec, OffloadsSafely, O!SafeSpec
=============================================================================
