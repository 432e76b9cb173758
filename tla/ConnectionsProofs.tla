------------------------- MODULE ConnectionsProofs -------------------------
(***************************************************************************)
(* Proofs about Connections for any finite set of structures, any limits   *)
(* and any batches: the pool is exact, the kernel's registrations follow   *)
(* the flags, and a structure that was reused once gets no event of its    *)
(* former use.                                                             *)
(***************************************************************************)
EXTENDS Connections, FiniteSetTheorems, SequenceTheorems, TLAPS

(* Queues.                                                                 *)

\* The elements of a set of positions are numbered in their order.
LEMMA Ranks ==
    ASSUME NEW n \in Nat, NEW I \in SUBSET (1 .. n)
    PROVE  /\ Cardinality(I) \in Nat
           /\ \A i, k \in I : i < k => Cardinality({j \in I : j <= i}) < Cardinality({j \in I : j <= k})
           /\ \A k \in 1 .. Cardinality(I) : \E i \in I : Cardinality({j \in I : j <= i}) = k
<1> DEFINE N == Cardinality(I)
           Upto(i) == {j \in I : j <= i}
           rank == [i \in I |-> Cardinality(Upto(i))]
<1>1. IsFiniteSet(I) /\ N \in Nat
  <2>1. IsFiniteSet(1 .. n)
    BY FS_Interval
  <2> QED
    BY <2>1, FS_Subset, FS_CardinalityType
<1>0. \A i \in I : i \in Int
  OBVIOUS
<1>2. ASSUME NEW i \in I PROVE IsFiniteSet(Upto(i)) /\ rank[i] \in 1 .. N
  <2>1. Upto(i) \in SUBSET I /\ i \in Upto(i)
    OBVIOUS
  <2>2. IsFiniteSet(Upto(i)) /\ Cardinality(Upto(i)) <= N
    BY <1>1, <2>1, FS_Subset
  <2>3. Cardinality(Upto(i)) \in Nat /\ Cardinality(Upto(i)) # 0
    BY <2>1, <2>2, FS_CardinalityType, FS_EmptySet
  <2> HIDE DEF Upto, N
  <2> QED
    BY <1>1, <2>2, <2>3
<1>3. ASSUME NEW i \in I, NEW k \in I, i < k PROVE rank[i] < rank[k]
  <2>1. Upto(i) \in SUBSET Upto(k) /\ Upto(i) # Upto(k)
    <3>1. k \in Upto(k) /\ k \notin Upto(i)
      BY <1>3
    <3>2. \A j \in I : j <= i => j <= k
      BY <1>0, <1>3
    <3>3. Upto(i) \in SUBSET Upto(k)
      BY <3>2
    <3> QED
      BY <3>1, <3>3
  <2>2. Cardinality(Upto(i)) <= Cardinality(Upto(k)) /\ Cardinality(Upto(i)) # Cardinality(Upto(k))
    BY <1>2, <2>1, FS_Subset
  <2> HIDE DEF Upto, N
  <2> QED
    BY <1>2, <2>2
<1>4. rank \in Surjection(I, 1 .. N)
  <2>1. Cardinality(1 .. N) = N /\ IsFiniteSet(1 .. N)
    BY <1>1, FS_Interval
  <2>2. rank \in [I -> 1 .. N]
    BY <1>2
  <2>3. \A i, k \in I : rank[i] = rank[k] => i = k
    <3> HIDE DEF rank
    <3>1. \A i \in I : rank[i] \in 1 .. N
      BY <1>2
    <3> QED
      BY <1>3, <3>1
  <2> HIDE DEF rank, N
  <2>4. rank \in Injection(I, 1 .. N)
    BY <2>2, <2>3 DEF Injection, IsInjective
  <2> QED
    BY <2>1, <2>4, FS_Injection DEF N
<1>5. \A k \in 1 .. N : \E i \in I : rank[i] = k
  <2> HIDE DEF rank, N
  <2> QED
    BY <1>4 DEF Surjection
<1> QED
  BY <1>1, <1>3, <1>5

\* Within takes positions of the queue in their order, every one that it should.
LEMMA WithinPositions ==
    ASSUME NEW T, NEW s \in Seq(T), NEW S
    PROVE  /\ Within(s, S) \in Seq(T)
           /\ \E at \in [1 .. Len(Within(s, S)) -> 1 .. Len(s)] :
                /\ \A k \in 1 .. Len(Within(s, S)) : Within(s, S)[k] = s[at[k]] /\ s[at[k]] \in S
                /\ \A k, l \in 1 .. Len(Within(s, S)) : k < l => at[k] < at[l]
                /\ \A i \in 1 .. Len(s) : s[i] \in S => \E k \in 1 .. Len(Within(s, S)) : at[k] = i
<1> DEFINE I == {i \in DOMAIN s : s[i] \in S}
           Rank(i) == Cardinality({j \in I : j <= i})
           N == Cardinality(I)
           Nth == [k \in 1 .. N |-> CHOOSE i \in I : Rank(i) = k]
           W == [k \in 1 .. N |-> s[Nth[k]]]
<1>1. Within(s, S) = W
  BY DEF Within
<1>2. Len(s) \in Nat /\ DOMAIN s = 1 .. Len(s) /\ \A i \in 1 .. Len(s) : s[i] \in T
  BY LenProperties, ElementOfSeq
<1>3. I \in SUBSET (1 .. Len(s))
  BY <1>2
<1>4. /\ N \in Nat
      /\ \A i, k \in I : i < k => Rank(i) < Rank(k)
      /\ \A k \in 1 .. N : \E i \in I : Rank(i) = k
  <2> HIDE DEF I
  <2> QED
    BY <1>2, <1>3, Ranks
<1>5. \A k \in 1 .. N : Nth[k] \in I /\ Rank(Nth[k]) = k
  <2> HIDE DEF I, Rank
  <2> QED
    BY <1>4
<1>6. \A i \in I : Rank(i) \in 1 .. N
  <2> SUFFICES ASSUME NEW i \in I PROVE Rank(i) \in 1 .. N
    OBVIOUS
  <2>1. IsFiniteSet(I)
    <3> HIDE DEF I
    <3>1. IsFiniteSet(1 .. Len(s))
      BY <1>2, FS_Interval
    <3> QED
      BY <1>3, <3>1, FS_Subset
  <2>2. {j \in I : j <= i} \in SUBSET I /\ i \in {j \in I : j <= i}
    BY <1>3
  <2>3. IsFiniteSet({j \in I : j <= i}) /\ Rank(i) <= N
    BY <2>1, <2>2, FS_Subset
  <2>4. Rank(i) \in Nat /\ Rank(i) # 0
    BY <2>2, <2>3, FS_CardinalityType, FS_EmptySet
  <2> HIDE DEF Rank, N
  <2> QED
    BY <1>4, <2>3, <2>4
<1> HIDE DEF I, Rank, N, Nth
<1>7. W \in Seq(T) /\ Len(W) = N
  <2>1. \A k \in 1 .. N : s[Nth[k]] \in T
    BY <1>2, <1>3, <1>5
  <2> QED
    BY <1>4, <2>1
<1>8. \A k, l \in 1 .. N : k < l => Nth[k] < Nth[l]
  <2> SUFFICES ASSUME NEW k \in 1 .. N, NEW l \in 1 .. N, k < l, ~(Nth[k] < Nth[l]) PROVE FALSE
    OBVIOUS
  <2>1. Nth[k] \in 1 .. Len(s) /\ Nth[l] \in 1 .. Len(s) /\ Nth[k] \in I /\ Nth[l] \in I
    BY <1>3, <1>5
  <2>2. Nth[k] = Nth[l] \/ Nth[l] < Nth[k]
    BY <1>2, <2>1
  <2>3. Rank(Nth[k]) = k /\ Rank(Nth[l]) = l
    BY <1>5
  <2> QED
    BY <1>4, <2>1, <2>2, <2>3
<1>9. \A i \in I : \E k \in 1 .. N : Nth[k] = i
  <2> SUFFICES ASSUME NEW i \in I PROVE Nth[Rank(i)] = i
    BY <1>6
  <2>1. Rank(i) \in 1 .. N
    BY <1>6
  <2>2. Nth[Rank(i)] \in I /\ Rank(Nth[Rank(i)]) = Rank(i)
    BY <1>5, <2>1
  <2>3. \A j \in I : j \in Int
    BY <1>2, <1>3
  <2>4. Rank(i) \in Int
    BY <2>1
  <2> QED
    BY <1>4, <2>2, <2>3, <2>4
<1>10. Nth \in [1 .. Len(W) -> 1 .. Len(s)]
  BY <1>3, <1>5, <1>7 DEF Nth
<1>11. \A k \in 1 .. Len(W) : W[k] = s[Nth[k]] /\ s[Nth[k]] \in S
  BY <1>5, <1>7 DEF I
<1>12. \A i \in 1 .. Len(s) : s[i] \in S => \E k \in 1 .. Len(W) : Nth[k] = i
  BY <1>2, <1>7, <1>9 DEF I
<1> HIDE DEF W
<1> QED
  BY <1>1, <1>7, <1>8, <1>10, <1>11, <1>12

\* So it has the elements of the queue that are in S, each as often as before.
LEMMA WithinElements ==
    ASSUME NEW T, NEW s \in Seq(T), NEW S
    PROVE  /\ Within(s, S) \in Seq(T)
           /\ ToSet(Within(s, S)) = ToSet(s) \cap S
           /\ IsInjective(s) => IsInjective(Within(s, S))
<1> DEFINE W == Within(s, S)
<1>1. W \in Seq(T)
  BY WithinPositions
<1>2. PICK at \in [1 .. Len(W) -> 1 .. Len(s)] :
         /\ \A k \in 1 .. Len(W) : W[k] = s[at[k]] /\ s[at[k]] \in S
         /\ \A k, l \in 1 .. Len(W) : k < l => at[k] < at[l]
         /\ \A i \in 1 .. Len(s) : s[i] \in S => \E k \in 1 .. Len(W) : at[k] = i
  BY WithinPositions
<1> HIDE DEF W
<1>3. DOMAIN W = 1 .. Len(W) /\ DOMAIN s = 1 .. Len(s) /\ Len(W) \in Nat /\ Len(s) \in Nat
  BY <1>1, LenProperties
<1>4. ToSet(W) = ToSet(s) \cap S
  <2>1. \A k \in DOMAIN W : at[k] \in DOMAIN s /\ W[k] = s[at[k]] /\ W[k] \in S
    BY <1>2, <1>3
  <2>2. ToSet(W) \subseteq ToSet(s) \cap S
    BY <2>1 DEF ToSet
  <2>3. ASSUME NEW i \in DOMAIN s, s[i] \in S PROVE s[i] \in ToSet(W)
    <3>1. PICK k \in DOMAIN W : at[k] = i
      BY <1>2, <1>3, <2>3
    <3> QED
      BY <2>1, <3>1 DEF ToSet
  <2> QED
    BY <2>2, <2>3 DEF ToSet
<1>5. ASSUME IsInjective(s), NEW k \in 1 .. Len(W), NEW l \in 1 .. Len(W), W[k] = W[l]
      PROVE  k = l
  <2>1. at[k] \in 1 .. Len(s) /\ at[l] \in 1 .. Len(s) /\ at[k] = at[l]
    BY <1>2, <1>3, <1>5 DEF IsInjective
  <2> QED
    BY <1>2, <1>3, <2>1
<1> QED
  BY <1>1, <1>3, <1>4, <1>5 DEF W, IsInjective

LEMMA Positions ==
    ASSUME NEW T, NEW s \in Seq(T)
    PROVE  /\ Len(s) \in Nat /\ DOMAIN s = 1 .. Len(s)
           /\ \A i \in DOMAIN s : s[i] \in T
           /\ ToSet(s) \subseteq T
           /\ \A i \in DOMAIN s : s[i] \in ToSet(s)
<1>1. Len(s) \in Nat /\ DOMAIN s = 1 .. Len(s) /\ \A i \in 1 .. Len(s) : s[i] \in T
  BY LenProperties, ElementOfSeq
<1> QED
  BY <1>1 DEF ToSet

\* Concatenation, head and tail of queues without repetitions.
LEMMA ConcatElements ==
    ASSUME NEW T, NEW s \in Seq(T), NEW t \in Seq(T)
    PROVE  /\ s \o t \in Seq(T)
           /\ ToSet(s \o t) = ToSet(s) \cup ToSet(t)
           /\ IsInjective(s) /\ IsInjective(t) /\ ToSet(s) \cap ToSet(t) = {}
                => IsInjective(s \o t)
<1> DEFINE u == s \o t
<1>1. /\ u \in Seq(T) /\ Len(u) = Len(s) + Len(t)
      /\ \A i \in 1 .. Len(s) + Len(t) : u[i] = IF i <= Len(s) THEN s[i] ELSE t[i - Len(s)]
  BY ConcatProperties
<1> HIDE DEF u
<1>2. /\ Len(s) \in Nat /\ Len(t) \in Nat
      /\ DOMAIN s = 1 .. Len(s) /\ DOMAIN t = 1 .. Len(t) /\ DOMAIN u = 1 .. Len(s) + Len(t)
  BY <1>1, LenProperties
<1>3. ToSet(u) \subseteq ToSet(s) \cup ToSet(t)
  <2> SUFFICES ASSUME NEW i \in DOMAIN u PROVE u[i] \in ToSet(s) \cup ToSet(t)
    BY DEF ToSet
  <2>1. CASE i <= Len(s)
    BY <1>1, <1>2, <2>1 DEF ToSet
  <2>2. CASE ~(i <= Len(s))
    <3>1. i - Len(s) \in DOMAIN t /\ u[i] = t[i - Len(s)]
      BY <1>1, <1>2, <2>2
    <3> QED
      BY <3>1 DEF ToSet
  <2> QED
    BY <2>1, <2>2
<1>4. ToSet(s) \subseteq ToSet(u)
  BY <1>1, <1>2 DEF ToSet
<1>5. ToSet(t) \subseteq ToSet(u)
  <2> SUFFICES ASSUME NEW j \in 1 .. Len(t) PROVE \E i \in DOMAIN u : u[i] = t[j]
    BY <1>2 DEF ToSet
  <2>1. Len(s) + j \in DOMAIN u /\ ~(Len(s) + j <= Len(s)) /\ (Len(s) + j) - Len(s) = j
    BY <1>2
  <2> QED
    BY <1>1, <1>2, <2>1
<1>6. ASSUME IsInjective(s), IsInjective(t), ToSet(s) \cap ToSet(t) = {},
             NEW i \in DOMAIN u, NEW j \in DOMAIN u, u[i] = u[j]
      PROVE  i = j
  <2>1. ASSUME NEW a \in DOMAIN s, NEW b \in DOMAIN t PROVE s[a] # t[b]
    BY <1>6 DEF ToSet
  <2>2. CASE i <= Len(s) /\ j <= Len(s)
    BY <1>1, <1>2, <1>6, <2>2 DEF IsInjective
  <2>3. CASE ~(i <= Len(s)) /\ ~(j <= Len(s))
    <3>1. i - Len(s) \in DOMAIN t /\ j - Len(s) \in DOMAIN t
      BY <1>2, <2>3
    <3>2. u[i] = t[i - Len(s)] /\ u[j] = t[j - Len(s)]
      BY <1>1, <1>2, <2>3
    <3>3. i - Len(s) = j - Len(s)
      BY <1>6, <3>1, <3>2 DEF IsInjective
    <3> QED
      BY <1>2, <3>3
  <2>4. CASE i <= Len(s) /\ ~(j <= Len(s))
    <3>1. i \in DOMAIN s /\ j - Len(s) \in DOMAIN t /\ u[i] = s[i] /\ u[j] = t[j - Len(s)]
      BY <1>1, <1>2, <2>4
    <3> QED
      BY <1>6, <2>1, <3>1
  <2>5. CASE ~(i <= Len(s)) /\ j <= Len(s)
    <3>1. j \in DOMAIN s /\ i - Len(s) \in DOMAIN t /\ u[j] = s[j] /\ u[i] = t[i - Len(s)]
      BY <1>1, <1>2, <2>5
    <3> QED
      BY <1>6, <2>1, <3>1
  <2> QED
    BY <2>2, <2>3, <2>4, <2>5
<1> QED
  BY <1>1, <1>3, <1>4, <1>5, <1>6 DEF u, IsInjective

LEMMA TailElements ==
    ASSUME NEW T, NEW s \in Seq(T), s # <<>>
    PROVE  /\ Head(s) = s[1] /\ Head(s) \in ToSet(s) /\ 1 \in DOMAIN s
           /\ Tail(s) \in Seq(T)
           /\ \A i \in DOMAIN Tail(s) : i + 1 \in DOMAIN s /\ Tail(s)[i] = s[i + 1]
           /\ ToSet(s) = ToSet(Tail(s)) \cup {Head(s)}
           /\ IsInjective(s) => IsInjective(Tail(s)) /\ Head(s) \notin ToSet(Tail(s))
<1>1. /\ Tail(s) \in Seq(T) /\ Len(Tail(s)) = Len(s) - 1
      /\ \A i \in 1 .. Len(Tail(s)) : Tail(s)[i] = s[i + 1]
  BY HeadTailProperties
<1>2. Len(s) \in Nat \ {0} /\ DOMAIN s = 1 .. Len(s) /\ Head(s) = s[1]
  BY LenProperties, EmptySeq
<1> DEFINE t == Tail(s)
<1>3. DOMAIN t = 1 .. Len(s) - 1 /\ \A i \in 1 .. Len(s) - 1 : t[i] = s[i + 1]
  BY <1>1, LenProperties
<1> HIDE DEF t
<1>4. \A i \in DOMAIN t : i + 1 \in DOMAIN s /\ t[i] = s[i + 1] /\ i + 1 # 1
  BY <1>2, <1>3
<1>5. ToSet(s) \subseteq ToSet(t) \cup {s[1]}
  <2> SUFFICES ASSUME NEW i \in DOMAIN s, i # 1 PROVE s[i] \in ToSet(t)
    BY DEF ToSet
  <2>1. i - 1 \in DOMAIN t /\ (i - 1) + 1 = i
    BY <1>2, <1>3
  <2> QED
    BY <1>4, <2>1 DEF ToSet
<1>6. ToSet(t) \subseteq ToSet(s) /\ s[1] \in ToSet(s) /\ 1 \in DOMAIN s
  BY <1>2, <1>4 DEF ToSet
<1>7. ASSUME IsInjective(s) PROVE IsInjective(t) /\ s[1] \notin ToSet(t)
  <2>1. \A i \in DOMAIN t : s[1] # t[i]
    BY <1>2, <1>4, <1>7 DEF IsInjective
  <2>2. ASSUME NEW i \in DOMAIN t, NEW j \in DOMAIN t, t[i] = t[j] PROVE i = j
    <3>1. i + 1 = j + 1
      BY <1>4, <1>7, <2>2 DEF IsInjective
    <3> QED
      BY <1>2, <1>3, <3>1
  <2> QED
    BY <2>1, <2>2 DEF ToSet, IsInjective
<1> QED
  BY <1>1, <1>2, <1>4, <1>5, <1>6, <1>7 DEF t

LEMMA LastElements ==
    ASSUME NEW T, NEW s \in Seq(T), NEW n \in 0 .. Len(s)
    PROVE  LET d == SubSeq(s, Len(s) - n + 1, Len(s))
           IN d \in Seq(T) /\ ToSet(d) \subseteq ToSet(s) /\ (IsInjective(s) => IsInjective(d))
<1> DEFINE m == Len(s) - n + 1
           d == SubSeq(s, m, Len(s))
<1>1. /\ Len(s) \in Nat /\ DOMAIN s = 1 .. Len(s) /\ m \in 1 .. Len(s) + 1
      /\ \A i \in 1 .. Len(s) : s[i] \in T
  BY LenProperties, ElementOfSeq
<1> HIDE DEF m
<1>2. \A i \in m .. Len(s) : s[i] \in T
  BY <1>1
<1>3. /\ d \in Seq(T)
      /\ Len(d) = IF m <= Len(s) THEN Len(s) - m + 1 ELSE 0
      /\ \A i \in 1 .. Len(s) - m + 1 : d[i] = s[m + i - 1]
  BY <1>1, <1>2, SubSeqProperties
<1> HIDE DEF d
<1>4. DOMAIN d = 1 .. Len(s) - m + 1
  BY <1>1, <1>3, LenProperties
<1>5. \A i \in DOMAIN d : m + i - 1 \in DOMAIN s /\ d[i] = s[m + i - 1]
  BY <1>1, <1>3, <1>4
<1>6. ASSUME IsInjective(s), NEW i \in DOMAIN d, NEW j \in DOMAIN d, d[i] = d[j] PROVE i = j
  <2>1. m + i - 1 = m + j - 1
    BY <1>5, <1>6 DEF IsInjective
  <2> QED
    BY <1>1, <1>4, <2>1
<1> QED
  BY <1>3, <1>5, <1>6 DEF d, m, ToSet, IsInjective

----------------------------------------------------------------------------
(* The invariant.                                                          *)

Events   == [conn : Conns, dir : Dirs, use : Nat]
Reported == [conn : Conns \cup {Listener}, mask : SUBSET Dirs, inst : {0, 1}, use : Nat]

Pool == /\ free \in Seq(Conns) /\ reusable \in Seq(Conns)
        /\ uses \in [Conns -> 0 .. MaxOpens]
        /\ ListsExact

Registered == /\ active \in [Conns -> SUBSET Dirs]
              /\ interest \in [Conns -> [mask : SUBSET Dirs, inst : {0, 1}]]
              /\ InterestExact

\* An event of the batch carries the bit of the use it was reported for.
Batched == /\ batch \in Seq(Reported)
           /\ \A e \in ToSet(batch) : e.conn # Listener => e.inst = (e.use + 1) % 2

\* While an event waits its structure is not used again.
Queued == /\ posted \in Seq(Events)
          /\ PostedIsOpen
          /\ \A e \in ToSet(posted) : uses[e.conn] # e.use + 1

Handling == /\ pc \in Places /\ post \in BOOLEAN /\ acceptq \in BOOLEAN
            /\ running.conn \in Conns \cup {Listener}

Inv == Pool /\ Registered /\ Batched /\ Queued /\ Handling

----------------------------------------------------------------------------
(* What steps do.                                                          *)

\* Only opening and closing, and the calls that are about the reusable queue,
\* touch the pool.
LEMMA PoolKept ==
    ASSUME [Next]_vars
    PROVE  \/ Open
           \/ \E c \in Conns : Close(c) \/ MakeReusable(c) \/ NotReusable(c)
           \/ UNCHANGED poolVars
BY DEF Next, vars, poolVars, Wait, SkipEvent, PostEvent, HandleEvent, BatchDone, RunAccept,
       RunPosted, PostedDone, Return, AddEvent, DelEvent, PostAgain

\* Registrations change when they are made or deleted, and with a connection.
LEMMA RegistrationsKept ==
    ASSUME [Next]_vars
    PROVE  \/ Open
           \/ \E c \in Conns : Close(c)
           \/ \E c \in Conns, dir \in Dirs : AddEvent(c, dir) \/ DelEvent(c, dir)
           \/ UNCHANGED <<open, uses, eventVars>>
BY DEF Next, vars, poolVars, eventVars, Wait, SkipEvent, PostEvent, HandleEvent, BatchDone,
       RunAccept, RunPosted, PostedDone, Return, MakeReusable, NotReusable, PostAgain

\* The batch is what is left of what epoll reported.
LEMMA BatchKept ==
    ASSUME [Next]_vars
    PROVE  \/ Wait
           \/ SkipEvent \/ PostEvent \/ HandleEvent
           \/ UNCHANGED batch
BY DEF Next, vars, queueVars, BatchDone, RunAccept, RunPosted, PostedDone, Open, Return, Close,
       MakeReusable, NotReusable, AddEvent, DelEvent, PostAgain

LEMMA QueueKept ==
    ASSUME [Next]_vars
    PROVE  \/ Open
           \/ \E c \in Conns : Close(c)
           \/ PostEvent \/ RunPosted \/ \E c \in Conns, dir \in Dirs : PostAgain(c, dir)
           \/ UNCHANGED <<open, uses, posted>>
BY DEF Next, vars, poolVars, Wait, SkipEvent, HandleEvent, BatchDone, RunAccept, PostedDone,
       Return, MakeReusable, NotReusable, AddEvent, DelEvent

\* What is drained was reusable, so it was open and is not on the free list.
LEMMA DrainedElements ==
    ASSUME Pool
    PROVE  /\ Drained \in Seq(Conns)
           /\ ToSet(Drained) \subseteq ToSet(reusable)
           /\ ToSet(Drained) \subseteq open
           /\ ToSet(Drained) \cap ToSet(free) = {}
           /\ IsInjective(Drained)
<1> DEFINE n == IF Len(reusable) < DrainN THEN Len(reusable) ELSE DrainN
<1>1. CASE free # <<>>
  <2>1. Drained = <<>>
    BY <1>1 DEF Drained
  <2> QED
    BY <2>1 DEF ToSet, IsInjective
<1>2. CASE free = <<>>
  <2>1. Drained = SubSeq(reusable, Len(reusable) - n + 1, Len(reusable))
    BY <1>2 DEF Drained
  <2>2. n \in 0 .. Len(reusable)
    BY ConnectionAssumption, LenProperties DEF Pool
  <2> HIDE DEF n
  <2> QED
    BY <2>1, <2>2, LastElements DEF Pool, ListsExact
<1> QED
  BY <1>1, <1>2

\* Opening takes a structure that nobody uses, or that draining closed just now.
LEMMA OpenFacts ==
    ASSUME Pool, Open
    PROVE  \E c \in Conns :
             /\ c \in open => c \in ToSet(Drained)
             /\ uses[c] < MaxOpens /\ uses' = [uses EXCEPT ![c] = @ + 1]
             /\ open' = (open \ ToSet(Drained)) \cup {c}
             /\ free' \in Seq(Conns) /\ IsInjective(free') /\ open' = Conns \ ToSet(free')
<1> DEFINE left == Drained \o free
           c == Head(left)
<1>1. /\ left # <<>>
      /\ uses[c] < MaxOpens /\ uses' = [uses EXCEPT ![c] = @ + 1]
      /\ open' = (open \ ToSet(Drained)) \cup {c}
      /\ free' = Tail(left)
  BY DEF Open
<1>2. free \in Seq(Conns) /\ IsInjective(free) /\ open = Conns \ ToSet(free)
  BY DEF Pool, ListsExact
<1>3. left \in Seq(Conns) /\ ToSet(left) = ToSet(Drained) \cup ToSet(free) /\ IsInjective(left)
  BY <1>2, DrainedElements, ConcatElements
<1> HIDE DEF left
<1>4. /\ c \in ToSet(left) /\ Tail(left) \in Seq(Conns) /\ IsInjective(Tail(left))
      /\ ToSet(left) = ToSet(Tail(left)) \cup {c} /\ c \notin ToSet(Tail(left))
  BY <1>1, <1>3, TailElements
<1>5. ToSet(left) \subseteq Conns
  BY <1>3, Positions
<1> HIDE DEF c
<1>6. open' = Conns \ ToSet(free')
  BY <1>1, <1>2, <1>3, <1>4, <1>5
<1> QED
  BY <1>1, <1>2, <1>3, <1>4, <1>5, <1>6

\* Closing leaves the queues without the closed connections, else as they were.
LEMMA ForgetFacts ==
    ASSUME reusable \in Seq(Conns), posted \in Seq(Events), NEW C \in SUBSET Conns, Forget(C)
    PROVE  /\ reusable' \in Seq(Conns) /\ ToSet(reusable') = ToSet(reusable) \ C
           /\ IsInjective(reusable) => IsInjective(reusable')
           /\ posted' \in Seq(Events)
           /\ ToSet(posted') = {e \in ToSet(posted) : e.conn \notin C}
<1>1. reusable' = Within(reusable, Conns \ C) /\ ToSet(reusable) \subseteq Conns
  BY Positions DEF Forget
<1>2. posted' = Within(posted, {e \in ToSet(posted) : e.conn \notin C})
  BY DEF Forget
<1>3. /\ reusable' \in Seq(Conns) /\ ToSet(reusable') = ToSet(reusable) \cap (Conns \ C)
      /\ IsInjective(reusable) => IsInjective(reusable')
  BY <1>1, WithinElements
<1>4. /\ posted' \in Seq(Events)
      /\ ToSet(posted') = ToSet(posted) \cap {e \in ToSet(posted) : e.conn \notin C}
  BY <1>2, WithinElements
<1> QED
  BY <1>1, <1>3, <1>4

----------------------------------------------------------------------------
(* Each part of the invariant is kept.                                     *)

\* Putting one at the head of a queue it is not in.
LEMMA PutFirst ==
    ASSUME NEW T, NEW c \in T, NEW s \in Seq(T), c \notin ToSet(s), IsInjective(s)
    PROVE  /\ <<c>> \o s \in Seq(T) /\ ToSet(<<c>> \o s) = {c} \cup ToSet(s)
           /\ IsInjective(<<c>> \o s)
<1> DEFINE one == <<c>>
<1>1. one \in Seq(T) /\ ToSet(one) = {c} /\ IsInjective(one)
  BY DEF ToSet, IsInjective
<1> HIDE DEF one
<1>2. ToSet(one) \cap ToSet(s) = {}
  BY <1>1
<1>3. /\ one \o s \in Seq(T) /\ ToSet(one \o s) = ToSet(one) \cup ToSet(s)
      /\ IsInjective(one \o s)
  BY <1>1, <1>2, ConcatElements
<1> QED
  BY <1>1, <1>3 DEF one

LEMMA PoolStep ==
    ASSUME Pool, posted \in Seq(Events), [Next]_vars
    PROVE  Pool'
<1>0. /\ free \in Seq(Conns) /\ reusable \in Seq(Conns) /\ IsInjective(free) /\ IsInjective(reusable)
      /\ open = Conns \ ToSet(free) /\ ToSet(reusable) \subseteq open
      /\ ToSet(free) \subseteq Conns
  BY Positions DEF Pool, ListsExact
<1>1. CASE Open
  <2>1. /\ free' \in Seq(Conns) /\ IsInjective(free') /\ open' = Conns \ ToSet(free')
        /\ open \ ToSet(Drained) \subseteq open'
    BY <1>1, OpenFacts
  <2>2. uses' \in [Conns -> 0 .. MaxOpens]
    <3>1. PICK c \in Conns : uses[c] < MaxOpens /\ uses' = [uses EXCEPT ![c] = @ + 1]
      BY <1>1, OpenFacts
    <3> QED
      BY <3>1, ConnectionAssumption DEF Pool
  <2>3. Forget(ToSet(Drained)) /\ ToSet(Drained) \subseteq Conns
    BY <1>0, <1>1, DrainedElements DEF Open
  <2>4. /\ reusable' \in Seq(Conns) /\ ToSet(reusable') = ToSet(reusable) \ ToSet(Drained)
        /\ IsInjective(reusable')
    BY <1>0, <2>3, ForgetFacts
  <2> QED
    BY <1>0, <2>1, <2>2, <2>4 DEF Pool, ListsExact
<1>2. ASSUME NEW c \in Conns, Close(c) PROVE Pool'
  <2>1. c \in open /\ open' = open \ {c} /\ free' = <<c>> \o free /\ Forget({c}) /\ uses' = uses
    BY <1>2 DEF Close
  <2>3. free' \in Seq(Conns) /\ ToSet(free') = {c} \cup ToSet(free) /\ IsInjective(free')
    BY <1>0, <2>1, PutFirst
  <2>4. /\ reusable' \in Seq(Conns) /\ ToSet(reusable') = ToSet(reusable) \ {c}
        /\ IsInjective(reusable')
    BY <1>0, <2>1, ForgetFacts
  <2> QED
    BY <1>0, <2>1, <2>3, <2>4 DEF Pool, ListsExact
<1>3. ASSUME NEW c PROVE /\ Without(reusable, c) \in Seq(Conns) /\ IsInjective(Without(reusable, c))
                         /\ ToSet(Without(reusable, c)) = ToSet(reusable) \ {c}
  BY <1>0, WithinElements DEF Without
<1>4. ASSUME NEW c \in Conns, MakeReusable(c) PROVE Pool'
  <2>1. /\ c \in open /\ reusable' = <<c>> \o Without(reusable, c)
        /\ UNCHANGED <<free, open, uses>>
    BY <1>4 DEF MakeReusable
  <2>3. /\ reusable' \in Seq(Conns) /\ IsInjective(reusable')
        /\ ToSet(reusable') = {c} \cup (ToSet(reusable) \ {c})
    BY <1>3, <2>1, PutFirst
  <2> QED
    BY <1>0, <2>1, <2>3 DEF Pool, ListsExact
<1>5. ASSUME NEW c \in Conns, NotReusable(c) PROVE Pool'
  <2>1. reusable' = Without(reusable, c) /\ UNCHANGED <<free, open, uses>>
    BY <1>5 DEF NotReusable
  <2> QED
    BY <1>0, <1>3, <2>1 DEF Pool, ListsExact
<1>6. CASE UNCHANGED poolVars
  BY <1>6 DEF poolVars, Pool, ListsExact
<1> QED
  BY <1>1, <1>2, <1>4, <1>5, <1>6, PoolKept

LEMMA InstanceType ==
    ASSUME NEW u \in Nat
    PROVE  (u + 1) % 2 \in {0, 1}
OBVIOUS

\* Closed structures have no registrations, and those of the others stay right
\* as long as their use does not change.
LEMMA RegisteredAfterClosing ==
    ASSUME Registered, NEW C \in SUBSET Conns, Forget(C),
           \A c \in Conns \ C : c \in open => c \in open' /\ uses'[c] = uses[c]
    PROVE  Registered'
<1>1. /\ active' = [c \in Conns |-> IF c \in C THEN {} ELSE active[c]]
      /\ interest' = [c \in Conns |-> IF c \in C THEN NoInterest ELSE interest[c]]
  BY DEF Forget
<1>2. /\ active' \in [Conns -> SUBSET Dirs]
      /\ interest' \in [Conns -> [mask : SUBSET Dirs, inst : {0, 1}]]
  BY <1>1 DEF Registered, NoInterest
<1>3. InterestExact'
  <2> SUFFICES ASSUME NEW c \in Conns
               PROVE  /\ interest'[c].mask = active'[c]
                      /\ active'[c] # {} => c \in open' /\ interest'[c].inst = (uses'[c] + 1) % 2
    BY DEF InterestExact, Instance
  <2>1. CASE c \in C
    BY <1>1, <2>1 DEF NoInterest
  <2>2. CASE c \notin C
    BY <1>1, <2>2 DEF Registered, InterestExact, Instance
  <2> QED
    BY <2>1, <2>2
<1> QED
  BY <1>2, <1>3 DEF Registered

LEMMA RegisteredStep ==
    ASSUME Pool, Registered, [Next]_vars
    PROVE  Registered'
<1>1. CASE Open
  <2>1. PICK c \in Conns : /\ c \in open => c \in ToSet(Drained)
                           /\ uses' = [uses EXCEPT ![c] = @ + 1]
                           /\ open' = (open \ ToSet(Drained)) \cup {c}
    BY <1>1, OpenFacts
  <2>2. Forget(ToSet(Drained)) /\ ToSet(Drained) \subseteq Conns
    BY <1>1, DrainedElements DEF Open, Pool, ListsExact
  <2>3. ASSUME NEW d \in Conns \ ToSet(Drained), d \in open PROVE d \in open' /\ uses'[d] = uses[d]
    <3>1. d # c /\ d \in open'
      BY <2>1, <2>3
    <3> QED
      BY <2>1, <3>1 DEF Pool
  <2> QED
    BY <2>2, <2>3, RegisteredAfterClosing
<1>2. ASSUME NEW c \in Conns, Close(c) PROVE Registered'
  <2>1. open' = open \ {c} /\ Forget({c}) /\ uses' = uses
    BY <1>2 DEF Close
  <2> QED
    BY <2>1, RegisteredAfterClosing
<1>3. ASSUME NEW c \in Conns, NEW dir \in Dirs, AddEvent(c, dir) PROVE Registered'
  <2>1. /\ c \in open
        /\ interest' = [interest EXCEPT ![c] = [mask |-> {dir} \cup active[c], inst |-> Instance(c)]]
        /\ active' = [active EXCEPT ![c] = @ \cup {dir}]
        /\ open' = open /\ uses' = uses
    BY <1>3 DEF AddEvent, poolVars
  <2>2. Instance(c) \in {0, 1}
    BY InstanceType DEF Instance, Pool
  <2>3. /\ active' \in [Conns -> SUBSET Dirs]
        /\ interest' \in [Conns -> [mask : SUBSET Dirs, inst : {0, 1}]]
    BY <2>1, <2>2 DEF Registered
  <2>4. InterestExact'
    BY <2>1 DEF Registered, InterestExact, Instance
  <2> QED
    BY <2>3, <2>4 DEF Registered
<1>4. ASSUME NEW c \in Conns, NEW dir \in Dirs, DelEvent(c, dir) PROVE Registered'
  <2>1. /\ dir \in active[c]
        /\ interest' = [interest EXCEPT ![c] = IF active[c] = {dir} THEN NoInterest
                                               ELSE [mask |-> active[c] \ {dir}, inst |-> Instance(c)]]
        /\ active' = [active EXCEPT ![c] = @ \ {dir}]
        /\ open' = open /\ uses' = uses
    BY <1>4 DEF DelEvent, poolVars
  <2>2. Instance(c) \in {0, 1}
    BY InstanceType DEF Instance, Pool
  <2>3. /\ active' \in [Conns -> SUBSET Dirs]
        /\ interest' \in [Conns -> [mask : SUBSET Dirs, inst : {0, 1}]]
    BY <2>1, <2>2 DEF Registered, NoInterest
  <2>4. InterestExact'
    BY <2>1 DEF Registered, InterestExact, Instance, NoInterest
  <2> QED
    BY <2>3, <2>4 DEF Registered
<1>5. CASE UNCHANGED <<open, uses, eventVars>>
  BY <1>5 DEF eventVars, Registered, InterestExact, Instance
<1> QED
  BY <1>1, <1>2, <1>3, <1>4, <1>5, RegistrationsKept

\* What epoll reports is registered, with the bit of the present use.
LEMMA ReportsRight ==
    ASSUME Pool, Registered, NEW e \in Reports
    PROVE  e \in Reported /\ (e.conn # Listener => e.inst = (e.use + 1) % 2)
<1>1. CASE e = [conn |-> Listener, mask |-> {"in"}, inst |-> 0, use |-> 0]
  BY <1>1 DEF Reported, Dirs
<1>2. ASSUME NEW c \in Conns, e \in Ready(c)
      PROVE  e \in Reported /\ (e.conn # Listener => e.inst = (e.use + 1) % 2)
  <2>1. interest[c].mask # {}
    BY <1>2 DEF Ready
  <2>2. PICK m \in SUBSET Dirs : e = [conn |-> c, mask |-> m, inst |-> interest[c].inst, use |-> uses[c]]
    BY <1>2, <2>1 DEF Ready, Registered, Dirs
  <2>3. interest[c].inst = (uses[c] + 1) % 2 /\ interest[c].inst \in {0, 1} /\ uses[c] \in Nat
    BY <2>1 DEF Registered, InterestExact, Instance, Pool
  <2> QED
    BY <2>2, <2>3 DEF Reported
<1>3. e = [conn |-> Listener, mask |-> {"in"}, inst |-> 0, use |-> 0] \/ \E c \in Conns : e \in Ready(c)
  BY DEF Reports
<1> QED
  BY <1>1, <1>2, <1>3

\* A batch is a sequence: it has at most one report for each structure.
LEMMA BatchElements ==
    ASSUME NEW b \in Batches
    PROVE  b \in Seq(Reports)
<1>1. CASE b = <<>>
  BY <1>1
<1>2. ASSUME NEW S \in SUBSET Reports, \A r, s \in S : r.conn = s.conn => r = s, b \in SetToSeqs(S)
      PROVE  b \in Seq(Reports)
  <2> DEFINE conn == [r \in S |-> r.conn]
  <2>1. \A r \in Reports : r.conn \in Conns \cup {Listener}
    <3> SUFFICES ASSUME NEW r \in Reports PROVE r.conn \in Conns \cup {Listener}
      OBVIOUS
    <3>1. r = [conn |-> Listener, mask |-> {"in"}, inst |-> 0, use |-> 0]
            \/ \E c \in Conns : r \in Ready(c)
      BY DEF Reports
    <3>2. ASSUME NEW c \in Conns, r \in Ready(c) PROVE r.conn = c
      <4>1. interest[c].mask # {}
        BY <3>2 DEF Ready
      <4> QED
        BY <3>2, <4>1 DEF Ready
    <3> QED
      BY <3>1, <3>2
  <2>2. conn \in Injection(S, Conns \cup {Listener})
    BY <1>2, <2>1 DEF Injection, IsInjective
  <2>3. IsFiniteSet(Conns \cup {Listener})
    BY ConnectionAssumption, FS_AddElement
  <2>4. IsFiniteSet(S)
    <3> HIDE DEF conn
    <3> QED
      BY <2>2, <2>3, FS_Injection
  <2>5. Cardinality(S) \in Nat
    BY <2>4, FS_CardinalityType
  <2>6. b \in [1 .. Cardinality(S) -> S]
    BY <1>2 DEF SetToSeqs
  <2> QED
    BY <2>5, <2>6
<1> QED
  BY <1>1, <1>2 DEF Batches

LEMMA BatchedStep ==
    ASSUME Pool, Registered, Batched, [Next]_vars
    PROVE  Batched'
<1> DEFINE Right(e) == e \in Reported /\ (e.conn # Listener => e.inst = (e.use + 1) % 2)
<1>0. ASSUME batch' \in Seq(Reported), \A e \in ToSet(batch') : Right(e) PROVE Batched'
  BY <1>0 DEF Batched
<1>1. CASE Wait
  <2>1. batch' \in Seq(Reports)
    BY <1>1, BatchElements DEF Wait
  <2>2. \A e \in ToSet(batch') : Right(e)
    <3>1. ToSet(batch') \subseteq Reports
      BY <2>1, Positions
    <3> QED
      BY <3>1, ReportsRight
  <2>3. batch' \in Seq(Reported)
    <3>1. Reports \subseteq Reported
      BY ReportsRight
    <3> QED
      BY <2>1, <3>1, SeqMonotonic
  <2> QED
    BY <1>0, <2>2, <2>3
<1>2. ASSUME batch # <<>>
      PROVE  /\ Head(batch) \in ToSet(batch) /\ Right(Head(batch))
             /\ Tail(batch) \in Seq(Reported) /\ \A e \in ToSet(Tail(batch)) : Right(e)
  <2>1. /\ Head(batch) \in ToSet(batch) /\ Tail(batch) \in Seq(Reported)
        /\ ToSet(batch) = ToSet(Tail(batch)) \cup {Head(batch)}
    BY <1>2, TailElements DEF Batched
  <2>2. \A e \in ToSet(batch) : Right(e)
    BY Positions DEF Batched
  <2> QED
    BY <2>1, <2>2
<1>3. ASSUME NEW dir, batch # <<>>, batch' = Rest(Head(batch), dir) \o Tail(batch) PROVE Batched'
  <2> DEFINE e == Head(batch)
  <2>1. /\ Rest(e, dir) \in Seq(Reported)
        /\ \A x \in ToSet(Rest(e, dir)) : Right(x)
    <3>1. Right(e)
      BY <1>2, <1>3
    <3> HIDE DEF e
    <3>2. CASE Rest(e, dir) = <<>>
      BY <3>2 DEF ToSet
    <3>3. CASE Rest(e, dir) = <<[e EXCEPT !.mask = {"out"}]>>
      <4> DEFINE x == [e EXCEPT !.mask = {"out"}]
      <4>1. Right(x)
        BY <3>1 DEF Reported, Dirs
      <4> HIDE DEF x, Right
      <4>2. <<x>> \in Seq({x}) /\ ToSet(<<x>>) = {x}
        BY DEF ToSet
      <4>3. x \in Reported
        BY <4>1 DEF Right
      <4>4. <<x>> \in Seq(Reported)
        BY <4>3
      <4> QED
        BY <3>3, <4>1, <4>2, <4>4 DEF x
    <3> QED
      BY <3>2, <3>3 DEF Rest
  <2>2. /\ Tail(batch) \in Seq(Reported) /\ \A x \in ToSet(Tail(batch)) : Right(x)
    BY <1>2, <1>3
  <2> HIDE DEF e, Right
  <2>3. /\ batch' \in Seq(Reported)
        /\ ToSet(batch') = ToSet(Rest(e, dir)) \cup ToSet(Tail(batch))
    BY <1>3, <2>1, <2>2, ConcatElements DEF e
  <2> QED
    BY <1>0, <2>1, <2>2, <2>3
<1>4. CASE SkipEvent
  <2>1. batch # <<>> /\ batch' = Tail(batch)
    BY <1>4 DEF SkipEvent
  <2> QED
    BY <1>0, <1>2, <2>1
<1>5. CASE PostEvent
  <2>1. batch # <<>> /\ \E dir : batch' = Rest(Head(batch), dir) \o Tail(batch)
    BY <1>5 DEF PostEvent
  <2> QED
    BY <1>3, <2>1
<1>6. CASE HandleEvent
  <2>1. batch # <<>> /\ \E dir : batch' = Rest(Head(batch), dir) \o Tail(batch)
    BY <1>6 DEF HandleEvent
  <2> QED
    BY <1>3, <2>1
<1>7. CASE UNCHANGED batch
  BY <1>7 DEF Batched
<1> QED
  BY <1>1, <1>4, <1>5, <1>6, <1>7, BatchKept

\* An event that is handled or posted is not one of the use before this one:
\* the bit would differ.
LEMMA BitDiffers ==
    ASSUME NEW u \in Nat, NEW v \in Nat, (u + 1) % 2 = (v + 1) % 2
    PROVE  u # v + 1
OBVIOUS

LEMMA NotOfLastUse ==
    ASSUME Pool, Batched, batch # <<>>, ~Stale(Head(batch)), Sides(Head(batch)) # {}
    PROVE  LET e == Head(batch)
           IN /\ e \in Reported
              /\ Side(e) \in Dirs
              /\ e.conn # Listener => e.conn \in open /\ uses[e.conn] # e.use + 1
<1> DEFINE e == Head(batch)
<1>1. e \in Reported /\ (e.conn # Listener => e.inst = (e.use + 1) % 2)
  <2>1. e \in ToSet(batch)
    BY TailElements DEF Batched
  <2>2. ToSet(batch) \subseteq Reported
    BY Positions DEF Batched
  <2> QED
    BY <2>1, <2>2 DEF Batched
<1>2. Side(e) \in Dirs
  BY DEF Side, Dirs
<1>3. ASSUME e.conn # Listener PROVE e.conn \in open /\ uses[e.conn] # e.use + 1
  <2>1. e.conn \in open /\ (uses[e.conn] + 1) % 2 = (e.use + 1) % 2
    BY <1>1, <1>3 DEF Stale, Instance
  <2>2. e.use \in Nat /\ uses[e.conn] \in Nat
    BY <1>1, <1>3 DEF Reported, Pool
  <2> QED
    BY <2>1, <2>2, BitDiffers
<1> QED
  BY <1>1, <1>2, <1>3

\* Posting an event that is not queued yet.
LEMMA QueuedAfterPosting ==
    ASSUME Queued, NEW c \in Conns, NEW dir \in Dirs, NEW u \in Nat, c \in open,
           uses[c] # u + 1, ~IsPosted(c, dir), posted' = Append(posted, Event(c, dir, u)),
           UNCHANGED <<open, uses>>
    PROVE  Queued'
<1> DEFINE x == Event(c, dir, u)
<1>1. x \in Events /\ x.conn = c /\ x.dir = dir /\ x.use = u
  BY DEF Event, Events
<1> HIDE DEF x
<1>2. posted \in Seq(Events) /\ Len(posted) \in Nat /\ DOMAIN posted = 1 .. Len(posted)
  BY Positions DEF Queued
<1>3. /\ posted' \in Seq(Events) /\ DOMAIN posted' = 1 .. Len(posted) + 1
      /\ \A i \in DOMAIN posted : posted'[i] = posted[i]
      /\ posted'[Len(posted) + 1] = x
  BY <1>1, <1>2 DEF x
<1>4. \A i \in DOMAIN posted' : i \in DOMAIN posted \/ i = Len(posted) + 1
  BY <1>2, <1>3
<1>5. \A i \in DOMAIN posted : ~(posted[i].conn = c /\ posted[i].dir = dir)
  BY DEF IsPosted
<1>6. PostedIsOpen'
  BY <1>1, <1>3, <1>4, <1>5 DEF Queued, PostedIsOpen
<1>7. \A e \in ToSet(posted') : e \in ToSet(posted) \/ e = x
  BY <1>3, <1>4 DEF ToSet
<1> QED
  BY <1>1, <1>3, <1>6, <1>7 DEF Queued

\* Closing keeps the events of the connections that stay open, each still once.
LEMMA QueuedAfterClosing ==
    ASSUME Queued, NEW C \in SUBSET Conns, Forget(C),
           \A c \in Conns \ C : c \in open => c \in open' /\ uses'[c] = uses[c]
    PROVE  Queued'
<1> DEFINE K == {e \in ToSet(posted) : e.conn \notin C}
<1>1. /\ posted \in Seq(Events) /\ posted' = Within(posted, K)
      /\ DOMAIN posted = 1 .. Len(posted) /\ Len(posted) \in Nat
      /\ \A i \in DOMAIN posted : posted[i] \in Events
      /\ ToSet(posted) \subseteq Events
      /\ \A i \in DOMAIN posted : posted[i] \in ToSet(posted)
  BY Positions DEF Queued, Forget
<1> HIDE DEF K
<1>2. posted' \in Seq(Events) /\ ToSet(posted') = ToSet(posted) \cap K
  BY <1>1, WithinElements
<1>3. PICK at \in [1 .. Len(posted') -> 1 .. Len(posted)] :
         /\ \A k \in 1 .. Len(posted') : posted'[k] = posted[at[k]] /\ posted[at[k]] \in K
         /\ \A k, l \in 1 .. Len(posted') : k < l => at[k] < at[l]
  <2>1. \E at \in [1 .. Len(Within(posted, K)) -> 1 .. Len(posted)] :
           /\ \A k \in 1 .. Len(Within(posted, K)) :
                Within(posted, K)[k] = posted[at[k]] /\ posted[at[k]] \in K
           /\ \A k, l \in 1 .. Len(Within(posted, K)) : k < l => at[k] < at[l]
           /\ \A i \in 1 .. Len(posted) :
                posted[i] \in K => \E k \in 1 .. Len(Within(posted, K)) : at[k] = i
    BY <1>1, WithinPositions
  <2> QED
    BY <1>1, <2>1
<1>4. DOMAIN posted' = 1 .. Len(posted') /\ Len(posted') \in Nat
  BY <1>2, Positions
<1>5. \A i \in DOMAIN posted : posted[i].conn \in open
  BY DEF Queued, PostedIsOpen
<1>6. ASSUME NEW e \in ToSet(posted') PROVE e.conn \in open' /\ uses'[e.conn] # e.use + 1
  <2>1. e \in ToSet(posted) /\ e.conn \notin C /\ e \in Events
    BY <1>1, <1>2, <1>6 DEF K
  <2>2. PICK i \in DOMAIN posted : e = posted[i]
    BY <2>1 DEF ToSet
  <2>3. e.conn \in open /\ e.conn \in Conns \ C
    BY <1>5, <2>1, <2>2 DEF Events
  <2> QED
    BY <2>1, <2>3 DEF Queued
<1>7. ASSUME NEW k \in DOMAIN posted', NEW l \in DOMAIN posted',
             posted'[k].conn = posted'[l].conn, posted'[k].dir = posted'[l].dir
      PROVE  k = l
  <2>1. at[k] \in DOMAIN posted /\ at[l] \in DOMAIN posted
    BY <1>1, <1>3, <1>4
  <2>2. posted'[k] = posted[at[k]] /\ posted'[l] = posted[at[l]]
    BY <1>3, <1>4
  <2>3. at[k] = at[l]
    BY <1>7, <2>1, <2>2 DEF Queued, PostedIsOpen
  <2> QED
    BY <1>1, <1>3, <1>4, <2>1, <2>3
<1>8. \A i \in DOMAIN posted' : posted'[i] \in ToSet(posted')
  BY <1>2, Positions
<1>9. PostedIsOpen'
  BY <1>6, <1>7, <1>8 DEF PostedIsOpen
<1> QED
  BY <1>2, <1>6, <1>9 DEF Queued

LEMMA QueuedStep ==
    ASSUME Pool, Batched, Queued, [Next]_vars
    PROVE  Queued'
<1>0. open \subseteq Conns /\ uses \in [Conns -> 0 .. MaxOpens] /\ MaxOpens \in Nat
  BY ConnectionAssumption DEF Pool, ListsExact
<1>1. CASE Open
  <2>1. PICK c \in Conns : /\ c \in open => c \in ToSet(Drained)
                           /\ uses' = [uses EXCEPT ![c] = @ + 1]
                           /\ open' = (open \ ToSet(Drained)) \cup {c}
    BY <1>1, OpenFacts
  <2>2. Forget(ToSet(Drained)) /\ ToSet(Drained) \subseteq Conns
    BY <1>1, DrainedElements DEF Open, Pool, ListsExact
  <2>3. ASSUME NEW d \in Conns \ ToSet(Drained), d \in open PROVE d \in open' /\ uses'[d] = uses[d]
    BY <1>0, <2>1, <2>3
  <2> QED
    BY <2>2, <2>3, QueuedAfterClosing
<1>2. ASSUME NEW c \in Conns, Close(c) PROVE Queued'
  <2>1. open' = open \ {c} /\ Forget({c}) /\ uses' = uses
    BY <1>2 DEF Close
  <2> QED
    BY <2>1, QueuedAfterClosing
<1>3. CASE PostEvent
  <2> DEFINE e == Head(batch)
             dir == Side(e)
  <2>1. /\ batch # <<>> /\ ~Stale(e) /\ Sides(e) # {}
        /\ IF e.conn = Listener
           THEN UNCHANGED posted
           ELSE posted' = IF IsPosted(e.conn, dir) THEN posted
                          ELSE Append(posted, Event(e.conn, dir, e.use))
        /\ UNCHANGED <<open, uses>>
    BY <1>3 DEF PostEvent, poolVars
  <2>2. /\ e \in Reported /\ dir \in Dirs
        /\ e.conn # Listener => e.conn \in open /\ uses[e.conn] # e.use + 1
    BY <2>1, NotOfLastUse
  <2>3. e.use \in Nat
    BY <2>2 DEF Reported
  <2> HIDE DEF e, dir
  <2>4. CASE posted' = posted
    BY <2>1, <2>4 DEF Queued, PostedIsOpen
  <2>5. CASE e.conn # Listener /\ ~IsPosted(e.conn, dir)
    <3>1. e.conn \in Conns /\ posted' = Append(posted, Event(e.conn, dir, e.use))
      BY <1>0, <2>1, <2>2, <2>5
    <3> QED
      BY <2>1, <2>2, <2>3, <2>5, <3>1, QueuedAfterPosting
  <2> QED
    BY <2>1, <2>4, <2>5
<1>4. CASE RunPosted
  <2>1. posted # <<>> /\ posted' = Tail(posted) /\ UNCHANGED <<open, uses>>
    BY <1>4 DEF RunPosted, poolVars
  <2>2. /\ posted' \in Seq(Events)
        /\ \A i \in DOMAIN posted' : i + 1 \in DOMAIN posted /\ posted'[i] = posted[i + 1]
        /\ ToSet(posted') \subseteq ToSet(posted)
    BY <2>1, TailElements DEF Queued
  <2>3. DOMAIN posted' = 1 .. Len(posted')
    BY <2>2, Positions
  <2>4. PostedIsOpen'
    <3>1. \A i \in DOMAIN posted' : posted'[i].conn \in open'
      BY <2>1, <2>2 DEF Queued, PostedIsOpen
    <3>2. ASSUME NEW i \in DOMAIN posted', NEW j \in DOMAIN posted',
                 posted'[i].conn = posted'[j].conn, posted'[i].dir = posted'[j].dir
          PROVE  i = j
      <4>1. i + 1 = j + 1
        BY <2>2, <3>2 DEF Queued, PostedIsOpen
      <4> QED
        BY <2>3, <4>1
    <3> QED
      BY <3>1, <3>2 DEF PostedIsOpen
  <2> QED
    BY <2>1, <2>2, <2>4 DEF Queued
<1>5. ASSUME NEW c \in Conns, NEW dir \in Dirs, PostAgain(c, dir) PROVE Queued'
  <2>1. /\ c \in open /\ ~IsPosted(c, dir) /\ posted' = Append(posted, Event(c, dir, uses[c]))
        /\ UNCHANGED <<open, uses>>
    BY <1>5 DEF PostAgain, poolVars
  <2>2. uses[c] \in Nat /\ uses[c] # uses[c] + 1
    BY <1>0
  <2> QED
    BY <2>1, <2>2, QueuedAfterPosting
<1>6. CASE UNCHANGED <<open, uses, posted>>
  BY <1>6 DEF Queued, PostedIsOpen
<1> QED
  BY <1>1, <1>2, <1>3, <1>4, <1>5, <1>6, QueueKept

\* A handler starts for the listener, or for an event whose connection is open
\* and not in the use that follows the event's.
LEMMA HandlerStart ==
    ASSUME Pool, Batched, Queued, HandleEvent \/ RunAccept \/ RunPosted
    PROVE  /\ running'.conn \in Conns \cup {Listener}
           /\ running'.conn # Listener
                => running'.conn \in open /\ uses[running'.conn] # running'.use + 1
<1>1. CASE HandleEvent
  <2> DEFINE e == Head(batch)
             x == Event(e.conn, Side(e), e.use)
  <2>1. batch # <<>> /\ ~Stale(e) /\ Sides(e) # {} /\ running' = x
    BY <1>1 DEF HandleEvent
  <2>2. /\ e \in Reported
        /\ e.conn # Listener => e.conn \in open /\ uses[e.conn] # e.use + 1
    BY <2>1, NotOfLastUse
  <2>3. x.conn = e.conn /\ x.use = e.use /\ e.conn \in Conns \cup {Listener}
    BY <2>2 DEF Event, Reported
  <2> HIDE DEF e, x
  <2> QED
    BY <2>1, <2>2, <2>3
<1>2. CASE RunAccept
  BY <1>2 DEF RunAccept, Event
<1>3. CASE RunPosted
  <2>1. posted # <<>> /\ running' = Head(posted)
    BY <1>3 DEF RunPosted
  <2>2. /\ Head(posted) = posted[1] /\ Head(posted) \in ToSet(posted) /\ 1 \in DOMAIN posted
        /\ Head(posted) \in Events
    BY <2>1, TailElements, Positions DEF Queued
  <2> QED
    BY <2>1, <2>2 DEF Queued, PostedIsOpen, Events
<1> QED
  BY <1>1, <1>2, <1>3

\* The other steps start none.
LEMMA OnlyThreeStart ==
    ASSUME [Next]_vars, ~HandleEvent, ~RunAccept, ~RunPosted
    PROVE  /\ pc' = pc \/ pc' \in Places \ {"handler"}
           /\ running' \in {running, Idle}
<1>1. Back \in Places \ {"handler"}
  BY DEF Back, Places
<1>2. CASE Wait \/ BatchDone \/ PostedDone \/ SkipEvent \/ PostEvent
  BY <1>2 DEF Wait, BatchDone, PostedDone, SkipEvent, PostEvent, Places
<1>3. CASE Open \/ Return
  BY <1>1, <1>3 DEF Open, Return, Returns
<1>4. ASSUME NEW c \in Conns,
             \/ Close(c) \/ MakeReusable(c) \/ NotReusable(c)
             \/ \E dir \in Dirs : AddEvent(c, dir) \/ DelEvent(c, dir) \/ PostAgain(c, dir)
      PROVE  pc' = pc /\ running' = running
  BY <1>4 DEF Close, MakeReusable, NotReusable, AddEvent, DelEvent, PostAgain
<1>5. CASE UNCHANGED vars
  BY <1>5 DEF vars
<1> QED
  BY <1>2, <1>3, <1>4, <1>5 DEF Next

LEMMA HandlingStep ==
    ASSUME Pool, Batched, Queued, Handling, [Next]_vars
    PROVE  Handling'
<1>1. post' \in BOOLEAN /\ acceptq' \in BOOLEAN
  BY DEF Handling, Next, vars, queueVars, Wait, SkipEvent, PostEvent, HandleEvent, BatchDone,
         RunAccept, RunPosted, PostedDone, Open, Return, Close, MakeReusable, NotReusable,
         AddEvent, DelEvent, PostAgain
<1>2. CASE HandleEvent \/ RunAccept \/ RunPosted
  <2>1. pc' = "handler"
    BY <1>2 DEF HandleEvent, RunAccept, RunPosted
  <2> QED
    BY <1>1, <1>2, <2>1, HandlerStart DEF Handling, Places
<1>3. CASE ~HandleEvent /\ ~RunAccept /\ ~RunPosted
  <2>1. Idle.conn = Listener
    BY DEF Idle, Event
  <2>2. pc' \in Places /\ running' \in {running, Idle}
    BY <1>3, OnlyThreeStart DEF Handling
  <2> QED
    BY <1>1, <2>1, <2>2 DEF Handling
<1> QED
  BY <1>2, <1>3

----------------------------------------------------------------------------
(* Results.                                                                *)

\* In the beginning every structure is on the free list, once.
LEMMA InitInv == Init => Inv
<1> SUFFICES ASSUME Init PROVE Inv
  OBVIOUS
<1>1. free \in SetToSeqs(Conns) /\ open = {}
  BY DEF Init
<1>2. free \in [1 .. Cardinality(Conns) -> Conns] /\ IsInjective(free)
  BY <1>1 DEF SetToSeqs, IsInjective
<1>3. Cardinality(Conns) \in Nat /\ IsFiniteSet(Conns)
  BY ConnectionAssumption, FS_CardinalityType
<1>4. free \in Seq(Conns)
  BY <1>2, <1>3
<1>5. ToSet(free) = Conns
  <2>1. IsFiniteSet(1 .. Cardinality(Conns)) /\ Cardinality(1 .. Cardinality(Conns)) = Cardinality(Conns)
    BY <1>3, FS_Interval
  <2>2. free \in Injection(1 .. Cardinality(Conns), Conns)
    BY <1>2 DEF Injection, IsInjective
  <2>3. free \in Surjection(1 .. Cardinality(Conns), Conns)
    BY <1>3, <2>1, <2>2, FS_Injection
  <2> QED
    BY <1>2, <2>3 DEF Surjection, ToSet
<1>6. \A s : s = <<>> => ToSet(s) = {} /\ IsInjective(s) /\ DOMAIN s = {}
  BY DEF ToSet, IsInjective
<1>7. Pool
  <2>1. reusable = <<>> /\ uses \in [Conns -> 0 .. MaxOpens]
    BY ConnectionAssumption DEF Init
  <2> QED
    BY <1>1, <1>2, <1>4, <1>5, <1>6, <2>1 DEF Pool, ListsExact
<1>8. Registered
  BY DEF Init, Registered, InterestExact, NoInterest
<1>9. Batched
  BY <1>6 DEF Init, Batched
<1>10. Queued
  BY <1>6 DEF Init, Queued, PostedIsOpen
<1>11. Handling
  BY DEF Init, Handling, Places, Idle, Event
<1> QED
  BY <1>7, <1>8, <1>9, <1>10, <1>11 DEF Inv

THEOREM Invariance == Spec => []Inv
<1>1. Inv /\ [Next]_vars => Inv'
  <2> SUFFICES ASSUME Inv, [Next]_vars PROVE Inv'
    OBVIOUS
  <2>1. Pool /\ Registered /\ Batched /\ Queued /\ Handling /\ posted \in Seq(Events)
    BY DEF Inv, Queued
  <2>2. Pool'
    BY <2>1, PoolStep
  <2>3. Registered'
    BY <2>1, RegisteredStep
  <2>4. Batched'
    BY <2>1, BatchedStep
  <2>5. Queued'
    BY <2>1, QueuedStep
  <2>6. Handling'
    BY <2>1, HandlingStep
  <2> QED
    BY <2>2, <2>3, <2>4, <2>5, <2>6 DEF Inv
<1> QED
  BY <1>1, InitInv, PTL DEF Spec

\* Types.
THEOREM TypeCorrect == Spec => []TypeOK
<1>1. Inv => TypeOK
  BY DEF Inv, Pool, Registered, Handling, ListsExact, TypeOK
<1> QED
  BY <1>1, Invariance, PTL

\* ngx_get_connection, ngx_free_connection, ngx_close_connection and
\* ngx_drain_connections, in any order and from any handlers, lose no structure
\* and hand none out twice, and no event waits for a closed one.
THEOREM PoolStaysExact == Spec => []PoolExact
<1>1. Inv => PoolExact
  BY DEF Inv, Pool, Queued, PoolExact
<1> QED
  BY <1>1, Invariance, PTL

\* The kernel's registration of every descriptor is what read->active and
\* write->active say, with the instance bit of the present use.
THEOREM RegistrationsStayExact == Spec => []InterestExact
<1>1. Inv => InterestExact
  BY DEF Inv, Registered
<1> QED
  BY <1>1, Invariance, PTL

\* No handler starts for an event of a connection that is closed, or whose
\* structure was taken again just once since the event was reported, whoever
\* closed it and took it again: a handler of the batch, of the read side of the
\* same event, or the connection's own.
THEOREM OneReuseIsNoticed == Spec => OneReuseNoticed
<1> DEFINE Noticed == pc # "handler" /\ pc' = "handler" /\ running'.conn # Listener
                        => running'.conn \in open /\ uses[running'.conn] # running'.use + 1
<1>1. Inv /\ [Next]_vars => [Noticed]_vars
  <2> SUFFICES ASSUME Inv, [Next]_vars PROVE Noticed
    OBVIOUS
  <2>1. Pool /\ Batched /\ Queued
    BY DEF Inv
  <2>2. CASE HandleEvent \/ RunAccept \/ RunPosted
    BY <2>1, <2>2, HandlerStart
  <2>3. CASE ~HandleEvent /\ ~RunAccept /\ ~RunPosted
    BY <2>3, OnlyThreeStart
  <2> QED
    BY <2>2, <2>3
<1> QED
  BY <1>1, Invariance, PTL DEF Spec, OneReuseNoticed
=============================================================================
