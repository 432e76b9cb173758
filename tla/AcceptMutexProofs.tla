------------------------- MODULE AcceptMutexProofs -------------------------
(***************************************************************************)
(* Proofs about AcceptMutex for any set of workers: the flag               *)
(* ngx_accept_mutex_held follows the registration of the socket, posting   *)
(* is done under the mutex, and nobody loses the mutex to another worker.  *)
(***************************************************************************)
EXTENDS AcceptMutex, TLAPS

\* The flag alone says nothing of the owner; the place after the
\* compare-and-set does.
LockedOwns == \A w \in Workers : pc[w] = "locked" => lock = w

\* Connections to close are left over only from epoll_wait to the posted events.
ClosingLater == \A w \in Workers : closing[w] # 0 => pc[w] \in {"accept", "release", "work"}

\* No more clients wait than have come.
Arrived == arrivals \in 0 .. MaxArrivals /\ backlog \in 0 .. arrivals

Inv == /\ TypeOK /\ HeldMeansArmed /\ PostingHoldsLock
       /\ LockedOwns /\ ClosingLater /\ Arrived

\* Every action of one worker.
Step(w) == Iteration(w) \/ PollOther(w) \/ Fault(w) \/ Reap(w)

LEMMA InitInv == Init => Inv
<1> SUFFICES ASSUME Init PROVE Inv
  OBVIOUS
<1>1. TypeOK
  <2>1. \A w \in Workers : free[w] \in 0 .. ConnectionN /\ closing[w] = 0
    BY AcceptAssumption DEF Init
  <2>2. free \in [Workers -> 0 .. ConnectionN] /\ closing \in [Workers -> {0, 1}]
    BY <2>1 DEF Init
  <2>3. \A w \in Workers : free[w] + closing[w] <= ConnectionN
    BY <2>1, AcceptAssumption
  <2> QED
    BY <2>2, <2>3, AcceptAssumption DEF Init, TypeOK, Places
<1> QED
  BY <1>1, AcceptAssumption DEF Init, Inv, HeldMeansArmed, PostingHoldsLock, LockedOwns, ClosingLater, Arrived

\* What a step of w does to the mutex: it is taken when free, by w, and given
\* back only when it is w's, in a step that moves w.
LEMMA LockStep ==
    ASSUME Inv, NEW w \in Workers, Step(w)
    PROVE  \/ lock' = lock
           \/ lock = Free /\ lock' = w
           \/ lock = w /\ lock' = Free /\ pc'[w] \in {"top", "release", "work"}
                                       /\ pc'[w] # pc[w]
<1> USE DEF Inv, TypeOK, Goto, Set, Places
<1>1. CASE Iteration(w)
  BY <1>1 DEF Iteration, SkipLock, TryLock, Enable, TryLockFails, PollAccept, PollTimeout,
              AcceptNothing, Accept, Release, Work
<1>2. CASE PollOther(w)
  BY <1>2 DEF PollOther
<1>3. CASE Fault(w)
  BY <1>3 DEF Fault, EnableFails, DisableFails, Crash, AcceptAborted, AcceptNoFile,
              AcceptNoFileStays
<1>4. CASE Reap(w)
  BY <1>4 DEF Reap
<1> QED
  BY <1>1, <1>2, <1>3, <1>4 DEF Step

LEMMA SetType ==
    ASSUME NEW T, NEW f \in [Workers -> T], NEW w \in Workers, NEW v \in T
    PROVE  Set(f, w, v) \in [Workers -> T]
BY DEF Set

LEMMA SetAt ==
    ASSUME NEW T, NEW f \in [Workers -> T], NEW w \in Workers, NEW v
    PROVE  Set(f, w, v)[w] = v /\ \A u \in Workers \ {w} : Set(f, w, v)[u] = f[u]
BY DEF Set

\* The types of what does not count connections.
Control == /\ lock \in Workers \cup {Free} /\ nofile \subseteq Workers
           /\ pc \in [Workers -> Places]
           /\ held \in [Workers -> BOOLEAN] /\ armed \in [Workers -> BOOLEAN]
           /\ post \in [Workers -> BOOLEAN] /\ timed \in [Workers -> BOOLEAN]

Counts == /\ disabled \in [Workers -> Int]
          /\ free \in [Workers -> 0 .. ConnectionN]
          /\ closing \in [Workers -> {0, 1}]
          /\ \A w \in Workers : free[w] + closing[w] <= ConnectionN

LEMMA ControlStep ==
    ASSUME Control, NEW w \in Workers, Step(w)
    PROVE  Control'
<1> USE SetType DEF Control, Goto, aux
<1>0. /\ \A p \in {"top", "locked", "poll", "accept", "release", "work", "dead"} :
            Set(pc, w, p) \in [Workers -> Places]
      /\ \A f \in [Workers -> BOOLEAN], v \in BOOLEAN : Set(f, w, v) \in [Workers -> BOOLEAN]
  BY DEF Places
<1>1. CASE SkipLock(w) \/ TryLockFails(w)
  BY <1>0, <1>1 DEF SkipLock, TryLockFails, Poll
<1>2. CASE TryLock(w) \/ AcceptNothing(w) \/ Accept(w) \/ Work(w) \/ PollTimeout(w)
  BY <1>0, <1>2 DEF TryLock, AcceptNothing, Accept, Again, Work, PollTimeout
<1>3. CASE Enable(w)
  BY <1>0, <1>3 DEF Enable, Poll
<1>4. CASE PollAccept(w) \/ PollOther(w)
  BY <1>0, <1>4 DEF PollAccept, PollOther
<1>5. CASE Release(w) \/ Reap(w)
  BY <1>0, <1>5 DEF Release, Reap, Forget
<1>6. CASE EnableFails(w) \/ DisableFails(w) \/ AcceptAborted(w) \/ AcceptNoFileStays(w)
  BY <1>0, <1>6 DEF EnableFails, DisableFails, AcceptAborted, Again, AcceptNoFileStays, worker
<1>7. CASE AcceptNoFile(w) \/ Crash(w)
  BY <1>0, <1>7 DEF AcceptNoFile, Crash, Forget
<1> QED
  BY <1>1, <1>2, <1>3, <1>4, <1>5, <1>6, <1>7 DEF Step, Iteration, Fault

\* The counts of w change together, within the number of connections.
LEMMA CountsChange ==
    ASSUME Counts, NEW w \in Workers, NEW d \in Int, NEW f \in Int, NEW c \in {0, 1},
           f >= 0, f + c <= ConnectionN,
           disabled' = Set(disabled, w, d),
           free' = Set(free, w, f), closing' = Set(closing, w, c)
    PROVE  Counts'
BY AcceptAssumption DEF Counts, Set

LEMMA CountsStep ==
    ASSUME Counts, ClosingLater, NEW w \in Workers, Step(w)
    PROVE  Counts'
<1>0. /\ disabled[w] \in Int /\ free[w] \in 0 .. ConnectionN /\ closing[w] \in {0, 1}
      /\ free[w] + closing[w] <= ConnectionN /\ ConnectionN \div 8 \in Int
      /\ disabled = Set(disabled, w, disabled[w])
      /\ free = Set(free, w, free[w])
      /\ closing = Set(closing, w, closing[w])
  BY AcceptAssumption DEF Counts, Set
<1>1. CASE UNCHANGED <<disabled, free, closing>>
  BY <1>1 DEF Counts
<1>2. CASE SkipLock(w) \/ AcceptNoFile(w)
  <2>1. UNCHANGED <<free, closing>>
    BY <1>2 DEF SkipLock, AcceptNoFile
  <2>2. PICK d \in Int : disabled' = Set(disabled, w, d)
    <3>1. CASE SkipLock(w)
      <4>1. disabled[w] - 1 \in Int /\ disabled' = Set(disabled, w, disabled[w] - 1)
        BY <1>0, <3>1 DEF SkipLock
      <4> QED BY <4>1
    <3>2. CASE AcceptNoFile(w)
      BY <3>2 DEF AcceptNoFile
    <3> QED BY <1>2, <3>1, <3>2
  <2>3. free' = Set(free, w, free[w]) /\ closing' = Set(closing, w, closing[w])
    BY <1>0, <2>1
  <2> QED
    BY <1>0, <2>2, <2>3, CountsChange
<1>3. CASE PollAccept(w) \/ PollOther(w)
  <2>1. UNCHANGED disabled /\ \E k \in Closable(w) : Report(w, k)
    BY <1>3 DEF PollAccept, PollOther
  <2>2. PICK k \in {0, 1} : free[w] + k <= ConnectionN /\ Report(w, k)
    BY <2>1 DEF Closable
  <2>3. closing[w] = 0
    BY <1>0, <1>3 DEF ClosingLater, PollAccept, PollOther
  <2>4. disabled' = Set(disabled, w, disabled[w])
    BY <1>0, <2>1
  <2>5. CASE post[w]
    <3>1. free' = Set(free, w, free[w]) /\ closing' = Set(closing, w, k)
      BY <1>0, <2>2, <2>5 DEF Report
    <3> QED
      BY <1>0, <2>2, <2>4, <3>1, CountsChange
  <2>6. CASE ~post[w]
    <3>1. free' = Set(free, w, free[w] + k) /\ closing' = Set(closing, w, closing[w])
      BY <1>0, <2>2, <2>6 DEF Report
    <3> QED
      BY <1>0, <2>2, <2>3, <2>4, <3>1, CountsChange
  <2> QED
    BY <2>5, <2>6
<1>4. CASE Accept(w)
  <2>1. PICK x \in Int : disabled' = Set(disabled, w, x)
    BY <1>0, <1>4 DEF Accept
  <2>2. PICK d \in IF free[w] = 0 THEN {0, 1} ELSE {0} :
           IF free[w] + d > 0 THEN free' = Set(free, w, free[w] + d - 1) ELSE UNCHANGED free
    BY <1>4 DEF Accept
  <2>3. PICK f \in Int : f >= 0 /\ f <= free[w] /\ free' = Set(free, w, f)
    BY <1>0, <2>2
  <2>4. closing' = Set(closing, w, closing[w])
    BY <1>0, <1>4 DEF Accept
  <2>5. f + closing[w] <= ConnectionN
    BY <1>0, <2>3, AcceptAssumption
  <2> QED
    BY <1>0, <2>1, <2>3, <2>4, <2>5, CountsChange
<1>5. CASE Work(w)
  BY <1>0, <1>5, CountsChange DEF Work
<1>6. CASE Crash(w)
  BY <1>0, <1>6, AcceptAssumption, CountsChange DEF Crash
<1> QED
  <2>1. CASE Iteration(w)
    BY <1>1, <1>2, <1>3, <1>4, <1>5, <2>1
       DEF Iteration, TryLock, Enable, TryLockFails, PollTimeout, AcceptNothing, Release
  <2>2. CASE Fault(w)
    BY <1>1, <1>2, <1>6, <2>2
       DEF Fault, EnableFails, DisableFails, AcceptAborted, AcceptNoFileStays, worker
  <2> QED
    BY <1>1, <1>3, <2>1, <2>2 DEF Step, Reap

\* Only w's own places, flags and counts change.
LEMMA OthersStay ==
    ASSUME TypeOK, NEW w \in Workers, Step(w), NEW u \in Workers, u # w
    PROVE  pc'[u] = pc[u] /\ held'[u] = held[u] /\ armed'[u] = armed[u]
           /\ post'[u] = post[u] /\ closing'[u] = closing[u]
<1> USE DEF TypeOK, Goto, Set
<1>1. CASE Iteration(w)
  BY <1>1 DEF Iteration, SkipLock, TryLock, Enable, TryLockFails, Poll, PollAccept, Report,
              PollTimeout, AcceptNothing, Accept, Release, Forget, Work
<1>2. CASE PollOther(w)
  BY <1>2 DEF PollOther, Report
<1>3. CASE Fault(w)
  BY <1>3 DEF Fault, EnableFails, DisableFails, Crash, Forget, AcceptAborted, AcceptNoFile,
              AcceptNoFileStays, worker
<1>4. CASE Reap(w)
  BY <1>4 DEF Reap
<1> QED
  BY <1>1, <1>2, <1>3, <1>4 DEF Step

\* The step of w keeps w's part of the invariant.
LEMMA OwnStep ==
    ASSUME Inv, NEW w \in Workers, Step(w)
    PROVE  /\ held'[w] <=> armed'[w]
           /\ post'[w] /\ pc'[w] \in {"poll", "accept"} => lock' = w
           /\ pc'[w] = "locked" => lock' = w
           /\ closing'[w] # 0 => pc'[w] \in {"accept", "release", "work"}
<1>0. /\ held[w] <=> armed[w]
      /\ post[w] /\ pc[w] \in {"poll", "accept"} => lock = w
      /\ pc[w] = "locked" => lock = w
      /\ closing[w] # 0 => pc[w] \in {"accept", "release", "work"}
  BY DEF Inv, HeldMeansArmed, PostingHoldsLock, LockedOwns, ClosingLater
<1>t. /\ pc \in [Workers -> Places] /\ held \in [Workers -> BOOLEAN]
      /\ armed \in [Workers -> BOOLEAN] /\ post \in [Workers -> BOOLEAN]
      /\ closing \in [Workers -> {0, 1}]
  BY DEF Inv, TypeOK
<1> USE DEF Goto, Set
<1>1. CASE SkipLock(w) \/ TryLock(w) \/ TryLockFails(w)
  BY <1>0, <1>1, <1>t DEF SkipLock, TryLock, TryLockFails, Poll
<1>2. CASE Enable(w)
  BY <1>0, <1>2, <1>t DEF Enable, Poll
<1>3. CASE PollAccept(w) \/ PollOther(w)
  BY <1>0, <1>3, <1>t DEF PollAccept, PollOther, Report
<1>4. CASE PollTimeout(w) \/ AcceptNothing(w) \/ Accept(w)
  BY <1>0, <1>4, <1>t DEF PollTimeout, AcceptNothing, Accept, Again
<1>5. CASE Release(w) \/ Work(w) \/ Reap(w)
  BY <1>0, <1>5, <1>t DEF Release, Forget, Work, Reap
<1>6. CASE EnableFails(w) \/ DisableFails(w) \/ AcceptAborted(w) \/ AcceptNoFileStays(w)
  BY <1>0, <1>6, <1>t DEF EnableFails, DisableFails, AcceptAborted, Again,
                          AcceptNoFileStays, worker
<1>7. CASE AcceptNoFile(w) \/ Crash(w)
  BY <1>0, <1>7, <1>t DEF AcceptNoFile, Crash, Forget
<1> QED
  BY <1>1, <1>2, <1>3, <1>4, <1>5, <1>6, <1>7 DEF Step, Iteration, Fault

\* The backlog only shrinks in a step of a worker.
LEMMA BacklogStep ==
    ASSUME Arrived, NEW w \in Workers, Step(w)
    PROVE  Arrived'
<1>0. arrivals' = arrivals /\ (backlog' = backlog \/ (backlog > 0 /\ backlog' = backlog - 1))
  <2> USE DEF bounds, aux
  <2>1. CASE Iteration(w)
    BY <2>1 DEF Iteration, SkipLock, TryLock, Enable, TryLockFails, PollAccept, PollTimeout,
                AcceptNothing, Accept, Release, Work
  <2>2. CASE PollOther(w)
    BY <2>2 DEF PollOther
  <2>3. CASE Fault(w)
    BY <2>3 DEF Fault, EnableFails, DisableFails, Crash, AcceptAborted, AcceptNoFile,
                AcceptNoFileStays
  <2>4. CASE Reap(w)
    BY <2>4 DEF Reap
  <2> QED
    BY <2>1, <2>2, <2>3, <2>4 DEF Step
<1>1. arrivals \in Int /\ backlog \in Int
  BY AcceptAssumption DEF Arrived
<1> QED
  BY <1>0, <1>1, AcceptAssumption DEF Arrived

LEMMA InvStep == Inv /\ [Next]_vars => Inv'
<1> SUFFICES ASSUME Inv, [Next]_vars PROVE Inv'
  OBVIOUS
<1> USE DEF HeldMeansArmed, PostingHoldsLock, LockedOwns, ClosingLater
<1>1. CASE UNCHANGED vars
  BY <1>1 DEF vars, worker, aux, bounds, Inv, TypeOK, Arrived
<1>2. CASE Arrive
  <2>1. Arrived' /\ backlog' \in 0 .. MaxArrivals
    BY <1>2, AcceptAssumption DEF Inv, Arrived, Arrive
  <2> QED
    BY <1>2, <2>1 DEF Arrive, worker, Inv, TypeOK
<1>3. ASSUME NEW w \in Workers, Step(w) PROVE Inv'
  <2>1. Arrived' /\ backlog' \in 0 .. MaxArrivals
    <3>1. Arrived'
      BY <1>3, BacklogStep DEF Inv
    <3> QED
      BY <3>1, AcceptAssumption DEF Arrived
  <2>2. TypeOK'
    <3>1. Control' /\ Counts'
      BY <1>3, ControlStep, CountsStep DEF Inv, TypeOK, Control, Counts
    <3> QED
      BY <2>1, <3>1 DEF TypeOK, Control, Counts
  <2>3. ASSUME NEW u \in Workers, u # w
        PROVE  /\ pc'[u] = pc[u] /\ held'[u] = held[u] /\ armed'[u] = armed[u]
               /\ post'[u] = post[u] /\ closing'[u] = closing[u]
               /\ lock = u => lock' = u
    <3>1. lock = u => lock' = u
      BY <1>3, <2>3, LockStep, AcceptAssumption
    <3> QED
      BY <1>3, <2>3, <3>1, OthersStay DEF Inv
  <2>4. HeldMeansArmed'
    BY <1>3, <2>3, OwnStep DEF Inv
  <2>5. PostingHoldsLock' /\ LockedOwns'
    BY <1>3, <2>3, OwnStep DEF Inv
  <2>6. ClosingLater'
    BY <1>3, <2>3, OwnStep DEF Inv
  <2> QED
    BY <2>1, <2>2, <2>4, <2>5, <2>6 DEF Inv
<1> QED
  BY <1>1, <1>2, <1>3 DEF Next, Step

\* The invariant with its three strengthenings, of which the properties of the
\* run are parts.
THEOREM AcceptInvariant == Spec => []Inv
BY InitInv, InvStep, PTL DEF Spec

\* Types, and never more free connections than connections.
THEOREM TypeCorrect == Spec => []TypeOK
BY AcceptInvariant, PTL DEF Inv

\* ngx_accept_mutex_held is set exactly while the worker's listening socket is
\* in its epoll, whatever failed on the way.
THEOREM FlagFollowsSocket == Spec => []HeldMeansArmed
BY AcceptInvariant, PTL DEF Inv

\* With posted events the accepts are done by the owner of the mutex.
THEOREM PostedAcceptsOwned == Spec => []PostingHoldsLock
BY AcceptInvariant, PTL DEF Inv

\* A worker never loses the mutex but by a step of its own or by the master's
\* after its death, although the flag makes others unlock.
THEOREM NobodyElseUnlocks == Spec => LockOnlyByOwner
<1> DEFINE Kept == \A w \in Workers : lock = w /\ lock' # w => pc[w] = "dead" \/ pc'[w] # pc[w]
<1>1. Inv /\ [Next]_vars => [Kept]_vars
  <2> SUFFICES ASSUME Inv, [Next]_vars PROVE [Kept]_vars
    OBVIOUS
  <2>1. CASE UNCHANGED vars
    BY <2>1
  <2>2. CASE Arrive
    BY <2>2 DEF Arrive
  <2>3. ASSUME NEW v \in Workers, Step(v) PROVE Kept
    BY <2>3, LockStep, AcceptAssumption
  <2> QED
    BY <2>1, <2>2, <2>3 DEF Next, Step
<1> QED
  BY <1>1, AcceptInvariant, PTL DEF Spec, LockOnlyByOwner
=============================================================================
