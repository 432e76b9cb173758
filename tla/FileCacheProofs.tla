-------------------------- MODULE FileCacheProofs --------------------------
(***************************************************************************)
(* Proofs about FileCache for any finite set of requests, any nodes and    *)
(* keys, and any configurations: types, the queue of nodes, the exact      *)
(* count of the users of each node, and the owner of each mark of an       *)
(* update.                                                                 *)
(***************************************************************************)
EXTENDS FileCache, FiniteSetTheorems, WellFoundedInduction, TLAPS

\* Types, the counts aside: that no count is negative follows from CountExact.
Types ==
    /\ site \in Sites
    /\ key \in [Nodes -> Keys \cup {None}]
    /\ count \in [Nodes -> Int] /\ node \in [Nodes -> NodeRecord]
    /\ queue \in Seq(Nodes)
    /\ size \in Int /\ cold \in BOOLEAN /\ loading \in BOOLEAN
    /\ file \in [Keys -> {"absent", "fresh", "stale"}]
    /\ now \in 0 .. MaxTime
    /\ pc \in [Actors -> Labels]
    /\ want \in [Actors -> Keys \cup {None}] /\ c \in [Requests -> CacheRecord]
    /\ holds \in [Requests -> Nodes \cup {None}]
    /\ victim \in [Actors -> Nodes \cup {None}]
    /\ todo \subseteq Keys /\ lost \in [Nodes -> Nat]
    /\ begun \in 0 .. site.begins /\ died \in 0 .. site.deaths

Looking  == {"exists", "forced", "unlink", "unlinked", "allocate"}
Reading  == {"open", "read", "adopt", "check", "lock", "wait"}
Deleting == {"unlink", "unlinked"}

\* Who is where has what.
RequestPlace(r) ==
    /\ pc[r] \in {"idle"} \cup (Looking \ {"exists"}) => holds[r] = None
    /\ pc[r] # "idle" => want[r] \in Keys /\ c[r].main \in Keys
    /\ pc[r] \in Looking /\ c[r].opening => ~c[r].updating
    /\ pc[r] \in Reading => ~c[r].updating
    /\ pc[r] \notin {"idle"} \cup Looking /\ ~(pc[r] = "fetch" /\ c[r].bypass) => holds[r] # None

Places ==
    /\ \A r \in Requests : RequestPlace(r)
    /\ \A a \in Actors : victim[a] # None <=> pc[a] \in Deleting
    /\ pc[Loader] = "add" => want[Loader] \in Keys

Users(n) == Cardinality(Holders(n)) + Cardinality(Deleters(n)) + lost[n]

\* CountExact, of memory that is free as well.
AllCounted  == \A n \in Nodes : count[n] = Users(n)
FreeUnused  == \A n \in Nodes : key[n] = None => count[n] = 0
HeldUnderKey == \A r \in Requests : holds[r] # None => key[holds[r]] = want[r]

\* UpdatingByOne, with the time that tells the last updater from earlier ones.
Marked == \A n \in Nodes :
    key[n] # None /\ node[n].updating /\ lost[n] = 0
        => \E r \in Requests : holds[r] = n /\ c[r].updating /\ c[r].lockTime = node[n].lockTime

Inv == Types /\ Places /\ AllCounted /\ FreeUnused /\ HeldUnderKey /\ QueueExact /\ Marked

----------------------------------------------------------------------------
(* Facts about the constants, and what a new node and a new request are.   *)

LEMMA SiteFacts ==
    ASSUME site \in Sites
    PROVE  /\ site.begins \in Nat /\ site.deaths \in Nat /\ site.room \subseteq Nodes
           /\ site.minUses \in Nat \ {0} /\ site.maxSize \in Nat
           /\ site.lock \in BOOLEAN /\ site.bypass \in BOOLEAN /\ site.errors \in BOOLEAN
           /\ site.varies \in BOOLEAN /\ site.cold \in BOOLEAN /\ site.onDisk \subseteq Keys
BY CacheAssumption

LEMMA NewFacts ==
    /\ NewNode \in NodeRecord /\ ~NewNode.updating
    /\ NewCache \in CacheRecord /\ NewCache.opening /\ ~NewCache.updating
BY DEF NewNode, NodeRecord, NewCache, CacheRecord

LEMMA ActorFacts ==
    /\ Requests \subseteq Actors /\ Manager \in Actors /\ Loader \in Actors
    /\ Manager \notin Requests /\ Loader \notin Requests /\ Manager # Loader
    /\ IsFiniteSet(Actors) /\ None \notin Nodes /\ None \notin Keys
<1>1. IsFiniteSet(Requests \cup {Manager})
  BY CacheAssumption, FS_AddElement
<1>2. IsFiniteSet((Requests \cup {Manager}) \cup {Loader})
  BY <1>1, FS_AddElement
<1>3. Actors = (Requests \cup {Manager}) \cup {Loader}
  BY DEF Actors
<1> QED
  BY <1>2, <1>3, CacheAssumption DEF Actors

----------------------------------------------------------------------------
(* The queue.                                                              *)

LEMMA ConcatFacts ==
    ASSUME NEW u \in Seq(Nodes), NEW v \in Seq(Nodes)
    PROVE  /\ u \o v \in Seq(Nodes) /\ Len(u \o v) = Len(u) + Len(v)
           /\ \A j \in 1 .. Len(u) : (u \o v)[j] = u[j]
           /\ \A j \in Len(u) + 1 .. Len(u) + Len(v) : (u \o v)[j] = v[j - Len(u)]
OBVIOUS

LEMMA WithoutFacts ==
    ASSUME NEW q \in Seq(Nodes), IsInjective(q), NEW n \in ToSet(q)
    PROVE  /\ Without(q, n) \in Seq(Nodes)
           /\ IsInjective(Without(q, n))
           /\ ToSet(Without(q, n)) = ToSet(q) \ {n}
<1> DEFINE i == CHOOSE j \in DOMAIN q : q[j] = n
           u == SubSeq(q, 1, i - 1)
           v == SubSeq(q, i + 1, Len(q))
           w == u \o v
           at(j) == IF j < i THEN j ELSE j + 1
<1>1. i \in DOMAIN q /\ q[i] = n
  BY DEF ToSet
<1>2. i \in 1 .. Len(q) /\ Len(q) \in Nat
  BY <1>1
<1>9. Without(q, n) = w
  BY DEF Without, RemoveAt
<1> HIDE DEF i
<1>3. u \in Seq(Nodes) /\ Len(u) = i - 1 /\ \A j \in 1 .. i - 1 : u[j] = q[j]
  BY <1>2
<1>4. v \in Seq(Nodes) /\ Len(v) = Len(q) - i /\ \A j \in 1 .. Len(q) - i : v[j] = q[j + i]
  BY <1>2
<1> HIDE DEF u, v
<1>5. w \in Seq(Nodes) /\ Len(w) = Len(q) - 1 /\ DOMAIN w = 1 .. Len(q) - 1
  <2>1. w \in Seq(Nodes) /\ Len(w) = Len(u) + Len(v)
    BY <1>3, <1>4, ConcatFacts
  <2> HIDE DEF w
  <2>2. Len(w) = Len(q) - 1
    BY <1>2, <1>3, <1>4, <2>1
  <2> QED
    BY <2>1, <2>2
<1>6. ASSUME NEW j \in 1 .. Len(q) - 1
      PROVE  w[j] = q[at(j)] /\ at(j) \in 1 .. Len(q) /\ at(j) # i
  <2>1. CASE j < i
    BY <1>2, <1>3, <1>4, <2>1
  <2>2. CASE j >= i
    <3>1. w[j] = v[j - (i - 1)]
      BY <1>2, <1>3, <1>4, <2>2, ConcatFacts
    <3>2. j - (i - 1) \in 1 .. Len(q) - i /\ (j - (i - 1)) + i = j + 1
      BY <1>2, <2>2
    <3>3. w[j] = q[j + 1]
      BY <1>4, <3>1, <3>2
    <3>4. at(j) = j + 1 /\ j + 1 \in 1 .. Len(q) /\ j + 1 # i
      BY <1>2, <2>2
    <3> QED
      BY <3>3, <3>4
  <2>3. j < i \/ j >= i
    BY <1>2
  <2> QED
    BY <2>1, <2>2, <2>3, Zenon
<1> HIDE DEF w
<1>7. IsInjective(w)
  <2> SUFFICES ASSUME NEW j \in 1 .. Len(q) - 1, NEW k \in 1 .. Len(q) - 1, w[j] = w[k]
               PROVE  j = k
    BY <1>5 DEF IsInjective
  <2>1. q[at(j)] = q[at(k)] /\ at(j) \in DOMAIN q /\ at(k) \in DOMAIN q
    BY <1>6
  <2>2. at(j) = at(k)
    BY <2>1 DEF IsInjective
  <2> QED
    BY <2>2, <1>2
<1>8. ToSet(w) = ToSet(q) \ {n}
  <2>1. ASSUME NEW x \in ToSet(w) PROVE x \in ToSet(q) \ {n}
    <3>1. PICK j \in 1 .. Len(q) - 1 : x = w[j]
      BY <1>5 DEF ToSet
    <3>2. x = q[at(j)] /\ at(j) \in DOMAIN q /\ at(j) # i
      BY <1>6, <3>1
    <3> QED
      BY <1>1, <3>2 DEF ToSet, IsInjective
  <2>2. ASSUME NEW x \in ToSet(q) \ {n} PROVE x \in ToSet(w)
    <3>1. PICK k \in 1 .. Len(q) : x = q[k]
      BY DEF ToSet
    <3>2. k # i
      BY <1>1, <3>1
    <3> DEFINE j == IF k < i THEN k ELSE k - 1
    <3>3. j \in 1 .. Len(q) - 1 /\ at(j) = k
      BY <1>2, <3>2
    <3>4. x = w[j] /\ j \in DOMAIN w
      BY <1>5, <1>6, <3>1, <3>3
    <3> QED
      BY <3>4 DEF ToSet
  <2> QED
    BY <2>1, <2>2
<1> QED
  BY <1>5, <1>7, <1>8, <1>9

LEMMA PrependFacts ==
    ASSUME NEW q \in Seq(Nodes), IsInjective(q), NEW n \in Nodes, n \notin ToSet(q)
    PROVE  /\ <<n>> \o q \in Seq(Nodes)
           /\ IsInjective(<<n>> \o q)
           /\ ToSet(<<n>> \o q) = ToSet(q) \cup {n}
<1> DEFINE w == <<n>> \o q
<1>1. w \in Seq(Nodes) /\ Len(w) = Len(q) + 1 /\ Len(q) \in Nat /\ w[1] = n
  OBVIOUS
<1>2. \A j \in 1 .. Len(q) : w[j + 1] = q[j]
  OBVIOUS
<1>3. \A j \in 2 .. Len(q) + 1 : w[j] = q[j - 1] /\ j - 1 \in 1 .. Len(q)
  BY <1>1, <1>2
<1>4. \A j \in 1 .. Len(q) : q[j] # n
  BY DEF ToSet
<1> HIDE DEF w
<1>5. IsInjective(w)
  <2> SUFFICES ASSUME NEW j \in 1 .. Len(q) + 1, NEW k \in 1 .. Len(q) + 1, w[j] = w[k]
               PROVE  j = k
    BY <1>1 DEF IsInjective
  <2>1. CASE j = 1 \/ k = 1
    BY <1>1, <1>3, <1>4, <2>1
  <2>2. CASE j # 1 /\ k # 1
    <3>1. q[j - 1] = q[k - 1] /\ j - 1 \in DOMAIN q /\ k - 1 \in DOMAIN q
      BY <1>1, <1>3, <2>2
    <3> QED
      BY <3>1 DEF IsInjective
  <2> QED
    BY <2>1, <2>2
<1>6. ToSet(w) = ToSet(q) \cup {n}
  <2>1. ASSUME NEW x \in ToSet(w) PROVE x \in ToSet(q) \cup {n}
    <3>1. PICK j \in 1 .. Len(q) + 1 : x = w[j]
      BY <1>1 DEF ToSet
    <3> QED
      BY <1>1, <1>3, <3>1 DEF ToSet
  <2>2. ASSUME NEW x \in ToSet(q) PROVE x \in ToSet(w)
    <3>1. PICK j \in 1 .. Len(q) : x = q[j]
      BY DEF ToSet
    <3>2. j + 1 \in DOMAIN w /\ w[j + 1] = x
      BY <1>1, <1>2, <3>1
    <3> QED
      BY <3>2 DEF ToSet
  <2>3. n \in ToSet(w)
    BY <1>1 DEF ToSet
  <2> QED
    BY <2>1, <2>2, <2>3
<1> QED
  BY <1>1, <1>5, <1>6 DEF w

\* Indices in a queue have a greatest one.
LEMMA Greatest ==
    ASSUME NEW k \in Nat, NEW S, S \subseteq 1 .. k, S # {}
    PROVE  \E i \in S : \A j \in S : j <= i
<1> DEFINE T == {k - i : i \in S}
<1>1. ASSUME NEW i \in S PROVE i \in 1 .. k /\ k - i \in T /\ k - i \in Nat
  <2>1. i \in 1 .. k
    OBVIOUS
  <2> QED
    BY <2>1
<1>2. T \subseteq Nat
  BY <1>1
<1>3. T # {}
  BY <1>1
<1>4. \A x \in T : \E i \in S : x = k - i
  OBVIOUS
<1> HIDE DEF T
<1>5. PICK x \in T : \A y \in T : ~(<<y, x>> \in OpToRel(<, Nat))
  BY <1>2, <1>3, NatLessThanWellFounded, WFMin
<1>6. \A y \in T : ~(y < x)
  <2>1. OpToRel(<, Nat) = {ss \in Nat \X Nat : ss[1] < ss[2]}
    BY DEF OpToRel
  <2> QED
    BY <1>2, <1>5, <2>1
<1>7. PICK i \in S : x = k - i
  BY <1>4
<1>8. ASSUME NEW j \in S PROVE j <= i
  <2>1. ~(k - j < k - i) /\ j \in 1 .. k /\ i \in 1 .. k
    BY <1>1, <1>6, <1>7
  <2> HIDE <1>7
  <2> QED
    BY <2>1
<1> QED
  BY <1>8

\* What a section under the mutex may do to the tree and the queue.
Moves(n) == n \in Nodes /\ key[n] # None /\ key' = key /\ ToHead(n)
Enters(n, k) == /\ n \in Nodes /\ key[n] = None /\ k \in Keys
                /\ key' = [key EXCEPT ![n] = k] /\ queue' = <<n>> \o queue
Leaves(n) == n \in Nodes /\ key[n] # None /\ Forget(n)
TreeStep == \/ UNCHANGED treeVars
            \/ \E n \in Nodes : Moves(n) \/ Leaves(n) \/ (\E k \in Keys : Enters(n, k))

LEMMA QueueKept ==
    ASSUME Types, QueueExact, TreeStep
    PROVE  /\ QueueExact' /\ queue' \in Seq(Nodes)
           /\ key' \in [Nodes -> Keys \cup {None}]
<1> USE ActorFacts DEF Types
<1>1. CASE UNCHANGED treeVars
  BY <1>1 DEF treeVars, QueueExact
<1>2. ASSUME NEW n \in Nodes, Moves(n) PROVE QueueExact' /\ queue' \in Seq(Nodes) /\ key' = key
  <2>1. n \in ToSet(queue) /\ IsInjective(queue) /\ ToSet(queue) = {m \in Nodes : key[m] # None}
    BY <1>2 DEF Moves, QueueExact
  <2>2. queue' = <<n>> \o Without(queue, n) /\ key' = key
    BY <1>2 DEF Moves, ToHead
  <2>3. /\ queue' \in Seq(Nodes) /\ IsInjective(queue')
        /\ ToSet(queue') = (ToSet(queue) \ {n}) \cup {n}
    BY <2>1, <2>2, WithoutFacts, PrependFacts
  <2>4. ToSet(queue') = {m \in Nodes : key'[m] # None}
    BY <2>1, <2>2, <2>3
  <2> QED
    BY <2>2, <2>3, <2>4 DEF QueueExact
<1>3. ASSUME NEW n \in Nodes, Leaves(n) PROVE QueueExact' /\ queue' \in Seq(Nodes) /\ key' \in [Nodes -> Keys \cup {None}]
  <2>1. n \in ToSet(queue) /\ IsInjective(queue) /\ ToSet(queue) = {m \in Nodes : key[m] # None}
    BY <1>3 DEF Leaves, QueueExact
  <2>2. queue' = Without(queue, n) /\ key' = [key EXCEPT ![n] = None]
    BY <1>3 DEF Leaves, Forget
  <2>3. /\ queue' \in Seq(Nodes) /\ IsInjective(queue')
        /\ ToSet(queue') = ToSet(queue) \ {n}
    BY <2>1, <2>2, WithoutFacts
  <2>4. {m \in Nodes : key'[m] # None} = {m \in Nodes : key[m] # None} \ {n}
    BY <2>2
  <2> QED
    BY <2>1, <2>2, <2>3, <2>4 DEF QueueExact
<1>4. ASSUME NEW n \in Nodes, NEW k \in Keys, Enters(n, k)
      PROVE  QueueExact' /\ queue' \in Seq(Nodes) /\ key' \in [Nodes -> Keys \cup {None}]
  <2>1. n \notin ToSet(queue) /\ IsInjective(queue) /\ ToSet(queue) = {m \in Nodes : key[m] # None}
    BY <1>4 DEF Enters, QueueExact
  <2>2. queue' = <<n>> \o queue /\ key' = [key EXCEPT ![n] = k]
    BY <1>4 DEF Enters
  <2>3. /\ queue' \in Seq(Nodes) /\ IsInjective(queue')
        /\ ToSet(queue') = ToSet(queue) \cup {n}
    BY <2>1, <2>2, PrependFacts
  <2>4. {m \in Nodes : key'[m] # None} = {m \in Nodes : key[m] # None} \cup {n}
    BY <2>2
  <2> QED
    BY <2>1, <2>2, <2>3, <2>4 DEF QueueExact
<1> QED
  BY <1>1, <1>2, <1>3, <1>4 DEF TreeStep, treeVars

----------------------------------------------------------------------------
(* The users of a node.                                                    *)

LEMMA UsersMoved ==
    ASSUME NEW A, NEW B, NEW x, IsFiniteSet(A), IsFiniteSet(B), A \ {x} = B \ {x}
    PROVE  Cardinality(B) = Cardinality(A) + (IF x \in B THEN 1 ELSE 0)
                                           - (IF x \in A THEN 1 ELSE 0)
<1>1. Cardinality(A) \in Nat /\ Cardinality(B) \in Nat
  BY FS_CardinalityType
<1>2. Cardinality(A \ {x}) = IF x \in A THEN Cardinality(A) - 1 ELSE Cardinality(A)
  BY FS_RemoveElement
<1>3. Cardinality(B \ {x}) = IF x \in B THEN Cardinality(B) - 1 ELSE Cardinality(B)
  BY FS_RemoveElement
<1> QED
  BY <1>1, <1>2, <1>3

\* A counter goes down by one, if it is one.
LEMMA Lowered ==
    ASSUME NEW f \in [Nodes -> Int], NEW g, NEW x, g = [f EXCEPT ![x] = @ - 1]
    PROVE  /\ g \in [Nodes -> Int]
           /\ \A m \in Nodes : g[m] = f[m] - (IF x = m THEN 1 ELSE 0)
<1>1. g = [m \in Nodes |-> IF m = x THEN f[m] - 1 ELSE f[m]]
  OBVIOUS
<1>2. ASSUME NEW m \in Nodes
      PROVE  g[m] \in Int /\ g[m] = f[m] - (IF x = m THEN 1 ELSE 0)
  BY <1>1
<1>3. g \in [Nodes -> Int]
  BY <1>1, <1>2
<1> QED
  BY <1>2, <1>3

LEMMA UsersNat ==
    ASSUME Types
    PROVE  \A n \in Nodes : /\ Cardinality(Holders(n)) \in Nat /\ IsFiniteSet(Holders(n))
                            /\ Cardinality(Deleters(n)) \in Nat /\ IsFiniteSet(Deleters(n))
                            /\ lost[n] \in Nat
                            /\ Users(n) \in Nat
<1> SUFFICES ASSUME NEW n \in Nodes
             PROVE  /\ Cardinality(Holders(n)) \in Nat /\ IsFiniteSet(Holders(n))
                    /\ Cardinality(Deleters(n)) \in Nat /\ IsFiniteSet(Deleters(n))
                    /\ lost[n] \in Nat
                    /\ Users(n) \in Nat
  OBVIOUS
<1>1. Holders(n) \subseteq Requests /\ Deleters(n) \subseteq Actors
  BY DEF Holders, Deleters
<1>2. /\ IsFiniteSet(Holders(n)) /\ Cardinality(Holders(n)) \in Nat
      /\ IsFiniteSet(Deleters(n)) /\ Cardinality(Deleters(n)) \in Nat
  BY <1>1, ActorFacts, CacheAssumption, FS_Subset, FS_CardinalityType
<1> QED
  BY <1>2 DEF Users, Types

\* A node that somebody has is counted.
Used == /\ \A n \in Nodes : count[n] \in Nat
        /\ \A r \in Requests : holds[r] # None => count[holds[r]] >= 1
        /\ \A a \in Actors : victim[a] # None => count[victim[a]] >= 1

LEMMA UsedCounted == Types /\ AllCounted => Used
<1> SUFFICES ASSUME Types, AllCounted PROVE Used
  OBVIOUS
<1>1. \A n \in Nodes : count[n] \in Nat
  BY UsersNat DEF AllCounted
<1>2. ASSUME NEW r \in Requests, holds[r] # None PROVE count[holds[r]] >= 1
  <2>1. holds[r] \in Nodes
    BY <1>2 DEF Types
  <2>2. Holders(holds[r]) # {}
    BY DEF Holders
  <2>3. Cardinality(Holders(holds[r])) >= 1
    BY <2>1, <2>2, UsersNat, FS_EmptySet
  <2> QED
    BY <2>1, <2>3, UsersNat DEF AllCounted, Users
<1>3. ASSUME NEW a \in Actors, victim[a] # None PROVE count[victim[a]] >= 1
  <2>1. victim[a] \in Nodes
    BY <1>3 DEF Types
  <2>2. Deleters(victim[a]) # {}
    BY DEF Deleters
  <2>3. Cardinality(Deleters(victim[a])) >= 1
    BY <2>1, <2>2, UsersNat, FS_EmptySet
  <2> QED
    BY <2>1, <2>3, UsersNat DEF AllCounted, Users
<1> QED
  BY <1>1, <1>2, <1>3 DEF Used

\* What a step does to the users of nodes and to the counts.
Keeps     == UNCHANGED <<count, holds, victim, lost>>
Takes(r, n) == /\ n \in Nodes /\ holds[r] = None /\ Add(n)
               /\ holds' = [holds EXCEPT ![r] = n] /\ UNCHANGED <<victim, lost>>
GivesBack(r) == /\ Leave(holds[r]) /\ holds' = [holds EXCEPT ![r] = None]
                /\ UNCHANGED <<victim, lost>>
Marks(a, n) == /\ n \in Nodes /\ victim[a] = None /\ Add(n)
               /\ victim' = [victim EXCEPT ![a] = n] /\ UNCHANGED <<holds, lost>>
Unmarks(a) == /\ Leave(victim[a]) /\ victim' = [victim EXCEPT ![a] = None]
              /\ UNCHANGED <<holds, lost>>
UserStep == \/ Keeps
            \/ \E r \in Requests : GivesBack(r) \/ \E n \in Nodes : Takes(r, n)
            \/ \E a \in Actors : Unmarks(a) \/ Die(a) \/ \E n \in Nodes : Marks(a, n)

\* The users of a node after a request's or an actor's step.
LEMMA HoldersMoved ==
    ASSUME Types, NEW r \in Requests, NEW v \in Nodes \cup {None},
           holds' = [holds EXCEPT ![r] = v], NEW n \in Nodes
    PROVE  Cardinality(Holders(n)') = Cardinality(Holders(n)) + (IF v = n THEN 1 ELSE 0)
                                                            - (IF holds[r] = n THEN 1 ELSE 0)
<1>1. holds'[r] = v /\ \A y \in Requests \ {r} : holds'[y] = holds[y]
  BY DEF Types
<1>2. /\ Holders(n)' \subseteq Requests /\ Holders(n) \subseteq Requests /\ Holders(n)' \ {r} = Holders(n) \ {r}
      /\ r \in Holders(n)' <=> v = n
      /\ r \in Holders(n) <=> holds[r] = n
  BY <1>1 DEF Holders
<1>3. IsFiniteSet(Holders(n)) /\ IsFiniteSet(Holders(n)')
  BY <1>2, CacheAssumption, FS_Subset
<1> QED
  BY <1>2, <1>3, UsersMoved

LEMMA DeletersMoved ==
    ASSUME Types, NEW a \in Actors, NEW v \in Nodes \cup {None},
           victim' = [victim EXCEPT ![a] = v], NEW n \in Nodes
    PROVE  Cardinality(Deleters(n)') = Cardinality(Deleters(n)) + (IF v = n THEN 1 ELSE 0)
                                                              - (IF victim[a] = n THEN 1 ELSE 0)
<1>1. victim'[a] = v /\ \A y \in Actors \ {a} : victim'[y] = victim[y]
  BY DEF Types
<1>2. /\ Deleters(n)' \subseteq Actors /\ Deleters(n) \subseteq Actors /\ Deleters(n)' \ {a} = Deleters(n) \ {a}
      /\ a \in Deleters(n)' <=> v = n
      /\ a \in Deleters(n) <=> victim[a] = n
  BY <1>1 DEF Deleters
<1>3. IsFiniteSet(Deleters(n)) /\ IsFiniteSet(Deleters(n)')
  BY <1>2, ActorFacts, FS_Subset
<1> QED
  BY <1>2, <1>3, UsersMoved

LEMMA DeathCounted ==
    ASSUME Types, NEW a \in Actors, Die(a), NEW n \in Nodes
    PROVE  Users(n)' = Users(n)
<1> USE ActorFacts
<1>1. Cardinality(Deleters(n)') = Cardinality(Deleters(n)) + (IF None = n THEN 1 ELSE 0)
                                                         - (IF victim[a] = n THEN 1 ELSE 0)
  BY DeletersMoved DEF Die
<1>2. lost'[n] = lost[n] + Counted(a, n)
  BY DEF Die
<1>3. CASE a \in Requests
  <2>1. holds' = [holds EXCEPT ![a] = None]
    BY <1>3 DEF Die, Types
  <2>2. Cardinality(Holders(n)') = Cardinality(Holders(n)) + (IF None = n THEN 1 ELSE 0)
                                                           - (IF holds[a] = n THEN 1 ELSE 0)
    BY <1>3, <2>1, HoldersMoved
  <2> QED
    BY <1>1, <1>2, <1>3, <2>2, UsersNat DEF Users, Counted
<1>4. CASE a \notin Requests
  <2>1. holds' = holds
    BY <1>4 DEF Die, Types
  <2>2. Cardinality(Holders(n)') = Cardinality(Holders(n))
    BY <2>1 DEF Holders
  <2> QED
    BY <1>1, <1>2, <1>4, <2>2, UsersNat DEF Users, Counted
<1> QED
  BY <1>3, <1>4

LEMMA CountKept ==
    ASSUME Types, AllCounted, UserStep
    PROVE  AllCounted' /\ count' \in [Nodes -> Int]
<1> USE ActorFacts
<1> DEFINE Goal == AllCounted' /\ count' \in [Nodes -> Int]
<1>1. CASE Keeps
  BY <1>1 DEF Keeps, AllCounted, Users, Holders, Deleters, Types
<1>2. ASSUME NEW r \in Requests, NEW n \in Nodes, Takes(r, n) PROVE Goal
  <2>1. count' = [count EXCEPT ![n] = @ + 1] /\ holds[r] = None
    BY <1>2 DEF Takes, Add
  <2>2. ASSUME NEW m \in Nodes PROVE Users(m)' = Users(m) + (IF m = n THEN 1 ELSE 0)
    <3>1. Cardinality(Holders(m)') = Cardinality(Holders(m)) + (IF n = m THEN 1 ELSE 0)
                                                             - (IF None = m THEN 1 ELSE 0)
      BY <1>2, HoldersMoved DEF Takes
    <3>2. Deleters(m)' = Deleters(m) /\ lost' = lost
      BY <1>2 DEF Takes, Deleters
    <3> QED
      BY <3>1, <3>2, UsersNat DEF Users
  <2> QED
    BY <2>1, <2>2, UsersNat DEF AllCounted, Types
<1>3. ASSUME NEW r \in Requests, GivesBack(r) PROVE Goal
  <2>1. count' = [count EXCEPT ![holds[r]] = @ - 1]
    BY <1>3 DEF GivesBack, Leave
  <2>2. ASSUME NEW m \in Nodes PROVE Users(m)' = Users(m) - (IF holds[r] = m THEN 1 ELSE 0)
    <3>1. Cardinality(Holders(m)') = Cardinality(Holders(m)) + (IF None = m THEN 1 ELSE 0)
                                                             - (IF holds[r] = m THEN 1 ELSE 0)
      BY <1>3, HoldersMoved DEF GivesBack
    <3>2. Deleters(m)' = Deleters(m) /\ lost' = lost
      BY <1>3 DEF GivesBack, Deleters
    <3> QED
      BY <3>1, <3>2, UsersNat DEF Users
  <2>3. /\ count' \in [Nodes -> Int]
        /\ \A m \in Nodes : count'[m] = count[m] - (IF holds[r] = m THEN 1 ELSE 0)
    BY <2>1, Lowered DEF Types
  <2>4. ASSUME NEW m \in Nodes PROVE count'[m] = Users(m)'
    BY <2>2, <2>3, UsersNat DEF AllCounted
  <2> QED
    BY <2>3, <2>4 DEF AllCounted
<1>4. ASSUME NEW a \in Actors, NEW n \in Nodes, Marks(a, n) PROVE Goal
  <2>1. count' = [count EXCEPT ![n] = @ + 1] /\ victim[a] = None
    BY <1>4 DEF Marks, Add
  <2>2. ASSUME NEW m \in Nodes PROVE Users(m)' = Users(m) + (IF m = n THEN 1 ELSE 0)
    <3>1. Cardinality(Deleters(m)') = Cardinality(Deleters(m)) + (IF n = m THEN 1 ELSE 0)
                                                               - (IF None = m THEN 1 ELSE 0)
      BY <1>4, DeletersMoved DEF Marks
    <3>2. Holders(m)' = Holders(m) /\ lost' = lost
      BY <1>4 DEF Marks, Holders
    <3> QED
      BY <3>1, <3>2, UsersNat DEF Users
  <2> QED
    BY <2>1, <2>2, UsersNat DEF AllCounted, Types
<1>5. ASSUME NEW a \in Actors, Unmarks(a) PROVE Goal
  <2>1. count' = [count EXCEPT ![victim[a]] = @ - 1]
    BY <1>5 DEF Unmarks, Leave
  <2>2. ASSUME NEW m \in Nodes PROVE Users(m)' = Users(m) - (IF victim[a] = m THEN 1 ELSE 0)
    <3>1. Cardinality(Deleters(m)') = Cardinality(Deleters(m)) + (IF None = m THEN 1 ELSE 0)
                                                               - (IF victim[a] = m THEN 1 ELSE 0)
      BY <1>5, DeletersMoved DEF Unmarks
    <3>2. Holders(m)' = Holders(m) /\ lost' = lost
      BY <1>5 DEF Unmarks, Holders
    <3> QED
      BY <3>1, <3>2, UsersNat DEF Users
  <2>3. /\ count' \in [Nodes -> Int]
        /\ \A m \in Nodes : count'[m] = count[m] - (IF victim[a] = m THEN 1 ELSE 0)
    BY <2>1, Lowered DEF Types
  <2>4. ASSUME NEW m \in Nodes PROVE count'[m] = Users(m)'
    BY <2>2, <2>3, UsersNat DEF AllCounted
  <2> QED
    BY <2>3, <2>4 DEF AllCounted
<1>6. ASSUME NEW a \in Actors, Die(a) PROVE Goal
  <2>1. count' = count
    BY <1>6 DEF Die
  <2> QED
    BY <1>6, <2>1, DeathCounted DEF AllCounted, Types
<1> QED
  BY <1>1, <1>2, <1>3, <1>4, <1>5, <1>6 DEF UserStep

----------------------------------------------------------------------------
(* What the sections do to the nodes: every step is of one of these kinds. *)

NodeStep ==
    \/ Keeps /\ (UNCHANGED treeVars \/ \E n \in Nodes : Moves(n))
    \/ Keeps /\ \E n \in Nodes, k \in Keys : Enters(n, k)
    \/ Keeps /\ \E n \in Nodes : Leaves(n) /\ count[n] = 0
    \/ \E r \in Requests, n \in Nodes :
           Takes(r, n) /\ ((Moves(n) /\ key[n] = want[r]) \/ Enters(n, want[r]))
    \/ \E r \in Requests :
           GivesBack(r) /\ (UNCHANGED treeVars \/ (Leaves(holds[r]) /\ count[holds[r]] = 1))
    \/ \E a \in Actors, n \in Nodes : Marks(a, n) /\ key[n] # None /\ UNCHANGED treeVars
    \/ \E a \in Actors :
           Unmarks(a) /\ (UNCHANGED treeVars \/ (Leaves(victim[a]) /\ count[victim[a]] = 1))
    \/ \E a \in Actors : Die(a) /\ UNCHANGED treeVars

LEMMA NodeStepKinds ==
    ASSUME Types, NodeStep
    PROVE  UserStep /\ TreeStep
<1>1. \A r \in Requests : Leaves(holds[r]) => holds[r] \in Nodes
  BY DEF Leaves
<1>2. \A a \in Actors : Leaves(victim[a]) => victim[a] \in Nodes
  BY DEF Leaves
<1>3. \A n, k : Enters(n, k) => k \in Keys
  BY DEF Enters
<1> QED
  BY <1>1, <1>2, <1>3 DEF NodeStep, UserStep, TreeStep

LEMMA FreeKept ==
    ASSUME Types, AllCounted, FreeUnused, NodeStep
    PROVE  FreeUnused'
<1> USE ActorFacts
<1> SUFFICES ASSUME NEW m \in Nodes, key'[m] = None PROVE count'[m] = 0
  BY DEF FreeUnused
<1>1. CASE Keeps /\ (UNCHANGED treeVars \/ \E n \in Nodes : Moves(n))
  BY <1>1 DEF Keeps, treeVars, Moves, FreeUnused
<1>2. ASSUME NEW n \in Nodes, NEW k \in Keys, Keeps, Enters(n, k) PROVE count'[m] = 0
  BY <1>2 DEF Keeps, Enters, FreeUnused, Types
<1>3. ASSUME NEW n \in Nodes, Keeps, Leaves(n), count[n] = 0 PROVE count'[m] = 0
  BY <1>3 DEF Keeps, Leaves, Forget, FreeUnused, Types
<1>4. ASSUME NEW r \in Requests, NEW n \in Nodes, Takes(r, n),
             (Moves(n) /\ key[n] = want[r]) \/ Enters(n, want[r])
      PROVE  count'[m] = 0
  BY <1>4 DEF Takes, Add, Moves, Enters, FreeUnused, Types
<1>5. ASSUME NEW r \in Requests, GivesBack(r),
             UNCHANGED treeVars \/ (Leaves(holds[r]) /\ count[holds[r]] = 1)
      PROVE  count'[m] = 0
  <2>1. /\ holds[r] \in Nodes \cup {None}
        /\ count' = [count EXCEPT ![holds[r]] = @ - 1]
    BY <1>5 DEF GivesBack, Leave, Types
  <2>2. CASE holds[r] = m
    <3>1. count[m] >= 1
      BY <2>2, UsedCounted DEF Used
    <3>2. key[m] # None
      BY <3>1 DEF FreeUnused
    <3>3. count[m] = 1
      BY <1>5, <2>2, <3>2 DEF treeVars
    <3> QED
      BY <2>1, <2>2, <3>3 DEF Types
  <2>3. CASE holds[r] # m
    <3>1. key[m] = None
      BY <1>5, <2>3 DEF treeVars, Leaves, Forget, Types
    <3>2. count'[m] = count[m]
      BY <2>1, <2>3 DEF Types
    <3> QED
      BY <3>1, <3>2 DEF FreeUnused
  <2> QED
    BY <2>2, <2>3
<1>6. ASSUME NEW a \in Actors, NEW n \in Nodes, Marks(a, n), key[n] # None, UNCHANGED treeVars
      PROVE  count'[m] = 0
  BY <1>6 DEF Marks, Add, treeVars, FreeUnused, Types
<1>7. ASSUME NEW a \in Actors, Unmarks(a),
             UNCHANGED treeVars \/ (Leaves(victim[a]) /\ count[victim[a]] = 1)
      PROVE  count'[m] = 0
  <2>1. /\ victim[a] \in Nodes \cup {None}
        /\ count' = [count EXCEPT ![victim[a]] = @ - 1]
    BY <1>7 DEF Unmarks, Leave, Types
  <2>2. CASE victim[a] = m
    <3>1. count[m] >= 1
      BY <2>2, UsedCounted DEF Used
    <3>2. key[m] # None
      BY <3>1 DEF FreeUnused
    <3>3. count[m] = 1
      BY <1>7, <2>2, <3>2 DEF treeVars
    <3> QED
      BY <2>1, <2>2, <3>3 DEF Types
  <2>3. CASE victim[a] # m
    <3>1. key[m] = None
      BY <1>7, <2>3 DEF treeVars, Leaves, Forget, Types
    <3>2. count'[m] = count[m]
      BY <2>1, <2>3 DEF Types
    <3> QED
      BY <3>1, <3>2 DEF FreeUnused
  <2> QED
    BY <2>2, <2>3
<1>8. ASSUME NEW a \in Actors, Die(a), UNCHANGED treeVars PROVE count'[m] = 0
  BY <1>8 DEF Die, treeVars, FreeUnused
<1> QED
  BY <1>1, <1>2, <1>3, <1>4, <1>5, <1>6, <1>7, <1>8 DEF NodeStep

LEMMA HeldKept ==
    ASSUME Types, Types', AllCounted', FreeUnused, AllCounted, FreeUnused', HeldUnderKey, NodeStep,
           \A r \in Requests : holds'[r] # None => want'[r] = want[r]
    PROVE  HeldUnderKey'
<1> USE ActorFacts
<1> SUFFICES ASSUME NEW r \in Requests, holds'[r] # None PROVE key'[holds'[r]] = want[r]
  BY DEF HeldUnderKey
<1> DEFINE m == holds'[r]
<1>1. m \in Nodes /\ key'[m] # None
  <2>1. m \in Nodes
    BY DEF Types
  <2>2. count'[m] >= 1
    <3>1. (Types /\ AllCounted => Used)'
      BY UsedCounted, PTL
    <3> QED
      BY <3>1 DEF Used
  <2> QED
    BY <2>1, <2>2 DEF FreeUnused
<1>2. CASE holds[r] = m
  <2>1. key[m] = want[r] /\ count[m] >= 1
    BY <1>2, UsedCounted DEF Used, HeldUnderKey
  <2>2. key[m] # None
    BY <1>1, <2>1 DEF FreeUnused
  <2>3. key'[m] = key[m]
    <3>1. TreeStep
      BY NodeStepKinds
    <3> QED
      BY <1>1, <2>2, <3>1 DEF TreeStep, treeVars, Moves, Leaves, Enters, Forget, Types
  <2> QED
    BY <2>1, <2>3
<1>3. CASE holds[r] # m
  <2>1. PICK q \in Requests, n \in Nodes :
            Takes(q, n) /\ ((Moves(n) /\ key[n] = want[q]) \/ Enters(n, want[q]))
    <3>1. ~Keeps
      BY <1>3 DEF Keeps
    <3>2. ~\E a \in Actors, n \in Nodes : Marks(a, n)
      BY <1>3 DEF Marks
    <3>3. ~\E a \in Actors : Unmarks(a)
      BY <1>3 DEF Unmarks
    <3>4. ~\E a \in Actors : Die(a)
      BY <1>1, <1>3 DEF Die, Types
    <3>5. ~\E q \in Requests : GivesBack(q)
      BY <1>1, <1>3 DEF GivesBack, Types
    <3> QED
      BY <3>1, <3>2, <3>3, <3>4, <3>5 DEF NodeStep
  <2>2. q = r /\ n = m
    BY <1>1, <1>3, <2>1 DEF Takes, Types
  <2> QED
    BY <2>1, <2>2 DEF Moves, Enters, Types
<1> QED
  BY <1>2, <1>3

LEMMA NodesKept ==
    ASSUME Inv, Types', NodeStep,
           \A r \in Requests : holds'[r] # None => want'[r] = want[r]
    PROVE  AllCounted' /\ FreeUnused' /\ HeldUnderKey' /\ QueueExact'
<1>1. UserStep /\ TreeStep
  BY NodeStepKinds DEF Inv
<1>2. AllCounted' /\ QueueExact'
  BY <1>1, CountKept, QueueKept DEF Inv
<1>3. FreeUnused'
  BY FreeKept DEF Inv
<1> QED
  BY <1>2, <1>3, HeldKept DEF Inv

----------------------------------------------------------------------------
(* Steps of a request that keep its place among the users of nodes.        *)

\* The marks that updates leave on nodes are kept or taken away.
MarksKept == \A n \in Nodes : node'[n].updating
                 => node[n].updating /\ node'[n].lockTime = node[n].lockTime

\* What ngx_http_file_cache_open and the upstream module leave alone in r->cache.
Alike(x, y) == /\ x.main = y.main /\ x.updating = y.updating /\ x.lockTime = y.lockTime
               /\ x.opening = y.opening /\ x.bypass = y.bypass
Keeping(r)  == Alike(c'[r], c[r])

Others(r) == /\ \A a \in Actors \ {r} : pc'[a] = pc[a] /\ want'[a] = want[a] /\ victim'[a] = victim[a]
             /\ \A q \in Requests \ {r} : c'[q] = c[q] /\ holds'[q] = holds[q]

LEMMA MarkedKept ==
    ASSUME Marked, MarksKept, lost' = lost,
           \A n \in Nodes : key'[n] # None => key'[n] = key[n] \/ ~node'[n].updating,
           \A n \in Nodes, r \in Requests :
               holds[r] = n /\ c[r].updating /\ c[r].lockTime = node[n].lockTime
                   => \/ key'[n] = None \/ ~node'[n].updating
                      \/ holds'[r] = n /\ c'[r].updating /\ c'[r].lockTime = c[r].lockTime
    PROVE  Marked'
<1> SUFFICES ASSUME NEW n \in Nodes, key'[n] # None, node'[n].updating, lost'[n] = 0
             PROVE  \E r \in Requests : /\ holds'[r] = n /\ c'[r].updating
                                        /\ c'[r].lockTime = node'[n].lockTime
  BY DEF Marked
<1>1. key[n] # None /\ node[n].updating /\ lost[n] = 0 /\ node'[n].lockTime = node[n].lockTime
  BY DEF MarksKept
<1>2. PICK r \in Requests : holds[r] = n /\ c[r].updating /\ c[r].lockTime = node[n].lockTime
  BY <1>1 DEF Marked
<1> QED
  BY <1>1, <1>2

LEMMA GoFacts ==
    ASSUME Types, NEW a \in Actors, NEW l \in Labels, Go(a, l)
    PROVE  pc' \in [Actors -> Labels] /\ pc'[a] = l /\ \A b \in Actors \ {a} : pc'[b] = pc[b]
BY DEF Go, Types

LEMMA FieldFacts ==
    ASSUME NEW x \in CacheRecord, NEW v \in BOOLEAN, NEW w \in BOOLEAN, NEW t \in Nat
    PROVE  /\ [x EXCEPT !.error = v] \in CacheRecord /\ Alike([x EXCEPT !.error = v], x)
           /\ [x EXCEPT !.scarce = v] \in CacheRecord /\ Alike([x EXCEPT !.scarce = v], x)
           /\ [x EXCEPT !.expired = v] \in CacheRecord /\ Alike([x EXCEPT !.expired = v], x)
           /\ [x EXCEPT !.cacheable = v] \in CacheRecord /\ Alike([x EXCEPT !.cacheable = v], x)
           /\ [x EXCEPT !.scarce = v, !.cacheable = w] \in CacheRecord
           /\ Alike([x EXCEPT !.scarce = v, !.cacheable = w], x)
           /\ [x EXCEPT !.secondary = v, !.expired = w] \in CacheRecord
           /\ Alike([x EXCEPT !.secondary = v, !.expired = w], x)
           /\ [x EXCEPT !.waitTime = t] \in CacheRecord /\ Alike([x EXCEPT !.waitTime = t], x)
           /\ [x EXCEPT !.lockTimeout = v] \in CacheRecord /\ Alike([x EXCEPT !.lockTimeout = v], x)
BY DEF CacheRecord, Alike

LEMMA CacheWritten ==
    ASSUME Types, NEW r \in Requests, NEW x \in CacheRecord, c' = [c EXCEPT ![r] = x]
    PROVE  /\ c' \in [Requests -> CacheRecord] /\ c'[r] = x
           /\ \A q \in Requests \ {r} : c'[q] = c[q]
BY DEF Types

LEMMA OpenedFacts ==
    ASSUME Types, NEW r \in Requests, NEW rc \in {"error", "again", "ok", "declined"},
           NEW e \in BOOLEAN, Opened(r, rc, e)
    PROVE  /\ pc' \in [Actors -> Labels] /\ c' \in [Requests -> CacheRecord]
           /\ \A a \in Actors \ {r} : pc'[a] = pc[a]
           /\ \A q \in Requests \ {r} : c'[q] = c[q]
           /\ Keeping(r)
           /\ pc'[r] \in {"fill", "send", "fetch", "open", "lock"}
           /\ ~c[r].opening => pc'[r] = "fill"
<1> DEFINE Next5 == {"fill", "send", "fetch", "open", "lock"}
<1>0. /\ site.minUses \in Nat \ {0} /\ cold \in BOOLEAN
      /\ c[r] \in CacheRecord /\ r \in Actors /\ Next5 \subseteq Labels
  BY SiteFacts, ActorFacts DEF Types, Labels
<1>1. \E l \in Next5, x \in CacheRecord :
          Go(r, l) /\ c' = [c EXCEPT ![r] = x] /\ Alike(x, c[r]) /\ (~c[r].opening => l = "fill")
  <2>1. CASE ~c[r].opening
    <3> DEFINE x == [c[r] EXCEPT !.error = (rc = "error")]
    <3>1. Go(r, "fill") /\ c' = [c EXCEPT ![r] = x]
      BY <2>1 DEF Opened
    <3>2. x \in CacheRecord /\ Alike(x, c[r])
      BY <1>0, FieldFacts
    <3> QED
      BY <3>1, <3>2
  <2>2. CASE c[r].opening /\ rc = "error"
    <3> DEFINE x == [c[r] EXCEPT !.error = TRUE]
    <3>1. Go(r, "send") /\ c' = [c EXCEPT ![r] = x]
      BY <2>2 DEF Opened
    <3>2. x \in CacheRecord /\ Alike(x, c[r])
      BY <1>0, FieldFacts
    <3> QED
      BY <2>2, <3>1, <3>2
  <2>3. CASE c[r].opening /\ rc = "again"
    <3> DEFINE x == [c[r] EXCEPT !.cacheable = FALSE]
    <3>1. Go(r, "fetch") /\ c' = [c EXCEPT ![r] = x]
      BY <2>3 DEF Opened
    <3>2. x \in CacheRecord /\ Alike(x, c[r])
      BY <1>0, FieldFacts
    <3> QED
      BY <2>3, <3>1, <3>2
  <2>4. CASE c[r].opening /\ rc = "ok"
    <3> DEFINE x == [c[r] EXCEPT !.scarce = FALSE]
    <3>1. Go(r, IF e THEN "open" ELSE "lock") /\ c' = [c EXCEPT ![r] = x]
      BY <2>4 DEF Opened
    <3>2. x \in CacheRecord /\ Alike(x, c[r])
      BY <1>0, FieldFacts
    <3> QED
      BY <2>4, <3>1, <3>2
  <2>5. CASE c[r].opening /\ rc = "declined"
    <3> DEFINE u == site.minUses > 1
               v == cold \/ ~u
               x == [c[r] EXCEPT !.scarce = u, !.cacheable = v]
               l == IF cold THEN "open" ELSE IF u THEN "fetch" ELSE "lock"
    <3>1. Go(r, l) /\ c' = [c EXCEPT ![r] = x]
      BY <2>5 DEF Opened
    <3>2. u \in BOOLEAN /\ v \in BOOLEAN
      BY <1>0
    <3> HIDE DEF u, v
    <3>3. x \in CacheRecord /\ Alike(x, c[r])
      BY <1>0, <3>2, FieldFacts
    <3>4. l \in Next5
      OBVIOUS
    <3> HIDE DEF x, l
    <3> QED
      BY <2>5, <3>1, <3>3, <3>4
  <2> QED
    BY <2>1, <2>2, <2>3, <2>4, <2>5
<1>2. PICK l \in Next5, x \in CacheRecord :
          Go(r, l) /\ c' = [c EXCEPT ![r] = x] /\ Alike(x, c[r]) /\ (~c[r].opening => l = "fill")
  BY <1>1
<1>3. pc' \in [Actors -> Labels] /\ pc'[r] = l /\ \A b \in Actors \ {r} : pc'[b] = pc[b]
  BY <1>0, <1>2, GoFacts
<1>4. /\ c' \in [Requests -> CacheRecord] /\ c'[r] = x
      /\ \A q \in Requests \ {r} : c'[q] = c[q]
  BY <1>2, CacheWritten
<1> QED
  BY <1>2, <1>3, <1>4 DEF Keeping

LEMMA ReleaseFacts ==
    ASSUME Types, NEW r \in Requests, NEW error \in BOOLEAN, NEW valid \in BOOLEAN,
           Release(r, error, valid)
    PROVE  /\ pc' \in [Actors -> Labels] /\ c' \in [Requests -> CacheRecord]
           /\ node' \in [Nodes -> NodeRecord]
           /\ want' \in [Actors -> Keys \cup {None}] /\ holds' \in [Requests -> Nodes \cup {None}]
           /\ \A a \in Actors \ {r} : pc'[a] = pc[a] /\ want'[a] = want[a]
           /\ \A q \in Requests \ {r} : c'[q] = c[q] /\ holds'[q] = holds[q]
           /\ pc'[r] = "idle" /\ holds'[r] = None
           /\ MarksKept
           /\ \A n \in Nodes :
                  holds[r] = n /\ c[r].updating /\ c[r].lockTime = node[n].lockTime
                      => ~node'[n].updating
<1> USE ActorFacts, NewFacts
<1>1. /\ pc' = [pc EXCEPT ![r] = "idle"] /\ c' = [c EXCEPT ![r] = NewCache]
      /\ want' = [want EXCEPT ![r] = None] /\ holds' = [holds EXCEPT ![r] = None]
  BY DEF Release, Go
<1>2. /\ pc' \in [Actors -> Labels] /\ c' \in [Requests -> CacheRecord]
      /\ want' \in [Actors -> Keys \cup {None}] /\ holds' \in [Requests -> Nodes \cup {None}]
      /\ \A a \in Actors \ {r} : pc'[a] = pc[a] /\ want'[a] = want[a]
      /\ \A q \in Requests \ {r} : c'[q] = c[q] /\ holds'[q] = holds[q]
      /\ pc'[r] = "idle" /\ holds'[r] = None
  <2>1. pc' \in [Actors -> Labels] /\ pc'[r] = "idle" /\ \A a \in Actors \ {r} : pc'[a] = pc[a]
    BY GoFacts DEF Release, Labels
  <2>2. c' \in [Requests -> CacheRecord] /\ \A q \in Requests \ {r} : c'[q] = c[q]
    BY <1>1, CacheWritten
  <2>3. /\ want' \in [Actors -> Keys \cup {None}] /\ holds' \in [Requests -> Nodes \cup {None}]
        /\ \A a \in Actors \ {r} : want'[a] = want[a]
        /\ \A q \in Requests \ {r} : holds'[q] = holds[q]
        /\ holds'[r] = None
    BY <1>1 DEF Types
  <2> QED
    BY <2>1, <2>2, <2>3
<1>3. CASE holds[r] = None
  BY <1>2, <1>3 DEF Release, Types, MarksKept
<1>4. CASE holds[r] # None
  <2> DEFINE n == holds[r]
  <2>1. n \in Nodes
    BY <1>4 DEF Types
  <2>2. node' = [node EXCEPT ![n] = Given(r, error, valid)]
    BY <1>4 DEF Release
  <2>3. /\ Given(r, error, valid) \in NodeRecord
        /\ Given(r, error, valid).lockTime = node[n].lockTime
        /\ Given(r, error, valid).updating
               = (node[n].updating /\ ~(c[r].updating /\ node[n].lockTime = c[r].lockTime))
    <3>1. node[n] \in NodeRecord
      BY <2>1 DEF Types
    <3> DEFINE u == node[n].updating /\ ~(c[r].updating /\ node[n].lockTime = c[r].lockTime)
               v == IF error /\ valid THEN TRUE ELSE node[n].valid
               x == node[n].error \/ error
    <3>2. Given(r, error, valid) = [node[n] EXCEPT !.updating = u, !.error = x, !.valid = v]
      BY DEF Given
    <3>3. u \in BOOLEAN /\ v \in BOOLEAN /\ x \in BOOLEAN
      BY <3>1 DEF NodeRecord
    <3> HIDE DEF u, v, x
    <3>4. /\ Given(r, error, valid) \in NodeRecord
          /\ Given(r, error, valid).lockTime = node[n].lockTime
          /\ Given(r, error, valid).updating = u
      BY <3>1, <3>2, <3>3 DEF NodeRecord
    <3> QED
      BY <3>4 DEF u
  <2> HIDE DEF n
  <2>4. node' \in [Nodes -> NodeRecord] /\ MarksKept
    BY <2>1, <2>2, <2>3 DEF Types, MarksKept
  <2>5. c[r].updating /\ c[r].lockTime = node[n].lockTime => ~node'[n].updating
    BY <2>1, <2>2, <2>3 DEF Types
  <2> QED
    BY <1>2, <2>4, <2>5 DEF n
<1> QED
  BY <1>3, <1>4

\* One actor's step: what is left to show when the rest is of a known kind.
LEMMA ActorStep ==
    ASSUME Inv, Types', NodeStep, Marked', NEW a \in Actors, Others(a),
           a \in Requests => RequestPlace(a)' /\ (holds'[a] # None => want'[a] = want[a]),
           victim'[a] # None <=> pc'[a] \in Deleting,
           a = Loader /\ pc'[a] = "add" => want'[a] \in Keys
    PROVE  Inv'
<1> USE ActorFacts
<1>1. AllCounted' /\ FreeUnused' /\ HeldUnderKey' /\ QueueExact'
  <2>1. \A q \in Requests : holds'[q] # None => want'[q] = want[q]
    BY DEF Others
  <2> QED
    BY <2>1, NodesKept
<1>2. ASSUME NEW q \in Requests PROVE RequestPlace(q)'
  <2>1. CASE q = a
    BY <2>1
  <2>2. CASE q # a
    BY <2>2 DEF Inv, Places, RequestPlace, Others
  <2> QED
    BY <2>1, <2>2
<1>3. ASSUME NEW b \in Actors PROVE victim'[b] # None <=> pc'[b] \in Deleting
  BY DEF Inv, Places, Others
<1>4. pc'[Loader] = "add" => want'[Loader] \in Keys
  BY DEF Inv, Places, Others
<1>5. Places'
  BY <1>2, <1>3, <1>4 DEF Places
<1> QED
  BY <1>1, <1>5 DEF Inv

\* A request moves on, and leaves the node it has as it is.
LEMMA RequestMoves ==
    ASSUME Inv, Types', NEW r \in Requests, UNCHANGED <<treeVars, want>>, Keeps, Others(r),
           MarksKept, Keeping(r), pc[r] \notin {"idle"} \cup Looking, holds[r] # None,
           pc'[r] \notin {"idle"} \cup (Looking \ {"exists"}),
           pc'[r] \in {"exists"} \cup Reading => ~c[r].updating
    PROVE  Inv'
<1> USE ActorFacts
<1>1. NodeStep
  BY DEF NodeStep
<1>2. RequestPlace(r)'
  BY DEF Inv, Places, RequestPlace, Keeping, Alike, Keeps, Looking, Reading
<1>3. victim'[r] # None <=> pc'[r] \in Deleting
  BY DEF Inv, Places, Keeps, Looking, Deleting
<1>4. Marked'
  <2>1. key' = key /\ lost' = lost /\ holds' = holds
    BY DEF treeVars, Keeps
  <2>2. \A q \in Requests : c'[q].updating = c[q].updating /\ c'[q].lockTime = c[q].lockTime
    BY DEF Others, Keeping, Alike
  <2> QED
    BY <2>1, <2>2, MarkedKept DEF Inv
<1> QED
  BY <1>1, <1>2, <1>3, <1>4, ActorStep

LEMMA RequestWrites ==
    ASSUME Inv, NEW r \in Requests,
           NEW l \in Reading \cup {"exists", "fetch", "fill", "update", "failed", "send"}, Go(r, l),
           NEW x \in CacheRecord, c' = [c EXCEPT ![r] = x], Alike(x, c[r]),
           UNCHANGED <<boundVars, want, treeVars, count, loadVars, now, holds, victim>>,
           node' \in [Nodes -> NodeRecord], MarksKept, size' \in Int,
           file' \in [Keys -> {"absent", "fresh", "stale"}],
           pc[r] \notin {"idle"} \cup Looking, holds[r] # None,
           l \in {"exists"} \cup Reading => ~c[r].updating
    PROVE  Inv'
<1>0. r \in Actors /\ l \in Labels
  BY ActorFacts DEF Labels, Reading
<1>1. pc' \in [Actors -> Labels] /\ pc'[r] = l /\ \A b \in Actors \ {r} : pc'[b] = pc[b]
  BY <1>0, GoFacts DEF Inv
<1>2. /\ c' \in [Requests -> CacheRecord] /\ c'[r] = x
      /\ \A q \in Requests \ {r} : c'[q] = c[q]
  BY CacheWritten DEF Inv
<1>3. Types'
  BY <1>1, <1>2 DEF Inv, Types, boundVars, treeVars, loadVars
<1>4. Others(r) /\ Keeping(r)
  BY <1>1, <1>2 DEF Others, Keeping
<1>5. UNCHANGED <<treeVars, want>> /\ Keeps
  BY DEF boundVars, Keeps
<1>6. pc'[r] \notin {"idle"} \cup (Looking \ {"exists"})
  BY <1>1 DEF Reading, Looking
<1> QED
  BY <1>1, <1>3, <1>4, <1>5, <1>6, RequestMoves

\* The parts of the types that the steps of a request need.
LEMMA TypeFacts ==
    ASSUME Inv, NEW r \in Requests
    PROVE  /\ c \in [Requests -> CacheRecord] /\ c[r] \in CacheRecord
           /\ c = [c EXCEPT ![r] = c[r]] /\ Alike(c[r], c[r])
           /\ node \in [Nodes -> NodeRecord] /\ size \in Int /\ now \in Nat
           /\ file \in [Keys -> {"absent", "fresh", "stale"}]
           /\ holds[r] \in Nodes \cup {None}
           /\ cold \in BOOLEAN
           /\ RequestPlace(r)
           /\ pc[r] \in Reading \cup {"send", "fill", "update", "failed"} =>
                  /\ holds[r] \in Nodes /\ holds[r] # None /\ node[holds[r]] \in NodeRecord
                  /\ pc[r] \notin {"idle"} \cup Looking
           /\ pc[r] \in Reading => ~c[r].updating
<1>1. /\ c \in [Requests -> CacheRecord] /\ node \in [Nodes -> NodeRecord]
      /\ size \in Int /\ now \in Nat /\ cold \in BOOLEAN
      /\ holds[r] \in Nodes \cup {None} /\ file \in [Keys -> {"absent", "fresh", "stale"}]
  BY CacheAssumption DEF Inv, Types
<1>2. RequestPlace(r)
  BY DEF Inv, Places
<1>3. pc[r] \in Reading \cup {"send", "fill", "update", "failed"} =>
          holds[r] # None /\ pc[r] \notin {"idle"} \cup Looking
  BY <1>2 DEF RequestPlace, Reading, Looking
<1> QED
  BY <1>1, <1>2, <1>3 DEF RequestPlace, Alike

LEMMA NodeWritten ==
    ASSUME node \in [Nodes -> NodeRecord], NEW n, NEW x, n \in Nodes => x \in NodeRecord,
           node' = [node EXCEPT ![n] = x]
    PROVE  /\ node' \in [Nodes -> NodeRecord]
           /\ n \in Nodes => node'[n] = x
           /\ \A m \in Nodes : m # n => node'[m] = node[m]
<1>1. node' = [m \in Nodes |-> IF m = n THEN x ELSE node[m]]
  OBVIOUS
<1>2. ASSUME NEW m \in Nodes PROVE node'[m] \in NodeRecord
  BY <1>1
<1> QED
  BY <1>1, <1>2

MarkOf(x) == <<x.updating, x.lockTime>>

LEMMA NodeFieldFacts ==
    ASSUME NEW x \in NodeRecord, NEW v \in BOOLEAN, NEW t \in Nat, NEW u \in Nat
    PROVE  /\ [x EXCEPT !.uses = 1, !.exists = TRUE, !.fsSize = 1] \in NodeRecord
           /\ MarkOf([x EXCEPT !.uses = 1, !.exists = TRUE, !.fsSize = 1]) = MarkOf(x)
           /\ [x EXCEPT !.exists = v, !.fsSize = t, !.updating = FALSE] \in NodeRecord
           /\ ~[x EXCEPT !.exists = v, !.fsSize = t, !.updating = FALSE].updating
           /\ [x EXCEPT !.deleting = v] \in NodeRecord
           /\ MarkOf([x EXCEPT !.deleting = v]) = MarkOf(x)
           /\ [x EXCEPT !.valid = v] \in NodeRecord
           /\ MarkOf([x EXCEPT !.valid = v]) = MarkOf(x)
           /\ [x EXCEPT !.updating = v] \in NodeRecord
           /\ MarkOf([x EXCEPT !.updating = v]) = <<v, x.lockTime>>
           /\ [x EXCEPT !.updating = v, !.lockTime = t] \in NodeRecord
           /\ MarkOf([x EXCEPT !.updating = v, !.lockTime = t]) = <<v, t>>
BY DEF NodeRecord, MarkOf

LEMMA OpenFileStep ==
    ASSUME Inv, NEW r \in Requests, OpenFile(r)
    PROVE  Inv'
<1>1. MarksKept /\ node' = node /\ size' = size /\ file' = file /\ pc[r] = "open" /\ ~c[r].updating
  BY TypeFacts DEF OpenFile, MarksKept, Reading
<1>2. UNCHANGED <<boundVars, want, treeVars, count, loadVars, now, holds, victim>>
  BY DEF OpenFile
<1>3. CASE file[want[r]] # "absent"
  <2> DEFINE x == [c[r] EXCEPT !.expired = (file[want[r]] = "stale")]
  <2>1. Go(r, "read") /\ c' = [c EXCEPT ![r] = x]
    BY <1>3 DEF OpenFile
  <2>2. x \in CacheRecord /\ Alike(x, c[r])
    BY TypeFacts, FieldFacts
  <2> HIDE DEF x
  <2> QED
    BY <1>1, <1>2, <2>1, <2>2, TypeFacts, RequestWrites DEF Reading
<1>4. CASE file[want[r]] = "absent"
  <2> DEFINE x == [c[r] EXCEPT !.cacheable = ~c[r].scarce]
             l == IF c[r].scarce THEN "fetch" ELSE "lock"
  <2>1. Go(r, l) /\ c' = [c EXCEPT ![r] = x]
    BY <1>4 DEF OpenFile
  <2>0. c[r].scarce \in BOOLEAN
    BY TypeFacts DEF CacheRecord
  <2>2. x \in CacheRecord /\ Alike(x, c[r])
    BY <2>0, TypeFacts, FieldFacts
  <2>3. l \in {"fetch", "lock"}
    OBVIOUS
  <2> HIDE DEF x, l
  <2> QED
    BY <1>1, <1>2, <2>1, <2>2, <2>3, TypeFacts, RequestWrites DEF Reading
<1> QED
  BY <1>3, <1>4

LEMMA AdoptStep ==
    ASSUME Inv, NEW r \in Requests, Adopt(r)
    PROVE  Inv'
<1> DEFINE n == holds[r]
<1>1. /\ UNCHANGED <<boundVars, want, treeVars, count, loadVars, file, now, c, holds, victim>>
      /\ pc[r] = "adopt" /\ Go(r, "check") /\ ~c[r].updating
  BY TypeFacts DEF Adopt, Reading
<1>2. node' \in [Nodes -> NodeRecord] /\ MarksKept /\ size' \in Int
  <2>1. CASE node[n].exists
    BY <2>1, TypeFacts DEF Adopt, MarksKept
  <2>2. CASE ~node[n].exists
    <3>1. /\ node' = [node EXCEPT ![n].uses = 1, ![n].exists = TRUE, ![n].fsSize = 1]
          /\ size' = size + 1
      BY <2>2 DEF Adopt
    <3> DEFINE x == [node[n] EXCEPT !.uses = 1, !.exists = TRUE, !.fsSize = 1]
    <3>2. node' = [node EXCEPT ![n] = x]
      BY <3>1
    <3>3. ASSUME n \in Nodes PROVE x \in NodeRecord /\ MarkOf(x) = MarkOf(node[n])
      <4>1. node[n] \in NodeRecord
        BY <3>3, TypeFacts
      <4> QED
        BY <4>1, NodeFieldFacts
    <3> HIDE DEF x
    <3>4. /\ node' \in [Nodes -> NodeRecord]
          /\ n \in Nodes => node'[n] = x
          /\ \A m \in Nodes : m # n => node'[m] = node[m]
      BY <3>2, <3>3, TypeFacts, NodeWritten
    <3> QED
      BY <3>1, <3>3, <3>4, TypeFacts DEF MarksKept, MarkOf
  <2> QED
    BY <2>1, <2>2
<1> QED
  BY <1>1, <1>2, TypeFacts, RequestWrites DEF Reading

LEMMA WakeStep ==
    ASSUME Inv, NEW r \in Requests, Wake(r)
    PROVE  Inv'
<1> DEFINE x == [c[r] EXCEPT !.lockTimeout = (now < c[r].waitTime)]
<1>1. /\ UNCHANGED <<boundVars, want, treeVars, count, loadVars, file, now, holds, victim>>
      /\ node' = node /\ size' = size /\ pc[r] = "wait" /\ Go(r, "exists")
      /\ c' = [c EXCEPT ![r] = x] /\ ~c[r].updating /\ MarksKept
  BY TypeFacts DEF Wake, Reading, MarksKept
<1>2. x \in CacheRecord /\ Alike(x, c[r])
  <2>1. (now < c[r].waitTime) \in BOOLEAN
    OBVIOUS
  <2> QED
    BY <2>1, TypeFacts, FieldFacts
<1>3. /\ holds[r] # None /\ pc[r] \notin {"idle"} \cup Looking
      /\ size \in Int /\ node \in [Nodes -> NodeRecord]
      /\ file \in [Keys -> {"absent", "fresh", "stale"}]
  BY <1>1, TypeFacts DEF Reading
<1> HIDE DEF x
<1> QED
  BY <1>1, <1>2, <1>3, RequestWrites

LEMMA RenameStep ==
    ASSUME Inv, NEW r \in Requests, Rename(r)
    PROVE  Inv'
<1>1. /\ UNCHANGED <<boundVars, want, treeVars, count, loadVars, now, c, holds, victim>>
      /\ node' = node /\ size' = size /\ pc[r] = "fill" /\ MarksKept
      /\ file' \in {file, [file EXCEPT ![want[r]] = "fresh"]}
  BY DEF Rename, MarksKept
<1>2. PICK l \in {"update", "failed"} : Go(r, l)
  BY DEF Rename
<1>3. file' \in [Keys -> {"absent", "fresh", "stale"}]
  BY <1>1, TypeFacts
<1> QED
  BY <1>1, <1>2, <1>3, TypeFacts, RequestWrites DEF Reading

\* A request gives back the node it has, if it has one: it ends, or looks for
\* the node of another key.
LEMMA GivingBack ==
    ASSUME Inv, NEW r \in Requests, pc[r] \notin {"idle"} \cup (Looking \ {"exists"}),
           NEW l \in {"idle", "exists"}, pc' \in [Actors -> Labels], pc'[r] = l,
           c' \in [Requests -> CacheRecord],
           NEW k \in Keys \cup {None}, want' = [want EXCEPT ![r] = k], Others(r),
           UNCHANGED <<boundVars, loadVars, now, victim>>, holds'[r] = None,
           \/ GivesBack(r) /\ (UNCHANGED treeVars \/ (Leaves(holds[r]) /\ count[holds[r]] = 1))
           \/ holds[r] = None /\ Keeps /\ UNCHANGED treeVars,
           l = "exists" => k \in Keys /\ c'[r].main \in Keys /\ (c'[r].opening => ~c'[r].updating),
           node' \in [Nodes -> NodeRecord], MarksKept, size' \in Int,
           file' \in [Keys -> {"absent", "fresh", "stale"}],
           \A n \in Nodes : holds[r] = n /\ c[r].updating /\ c[r].lockTime = node[n].lockTime
                               => ~node'[n].updating \/ key'[n] = None
    PROVE  Inv'
<1> USE ActorFacts
<1>1. NodeStep
  BY DEF NodeStep
<1>2. TreeStep /\ UserStep
  BY <1>1, NodeStepKinds DEF Inv
<1>3. /\ count' \in [Nodes -> Int] /\ queue' \in Seq(Nodes)
      /\ key' \in [Nodes -> Keys \cup {None}]
  BY <1>2, CountKept, QueueKept DEF Inv
<1>4. holds' \in [Requests -> Nodes \cup {None}]
  BY DEF GivesBack, Keeps, Inv, Types
<1>5. Types'
  BY <1>3, <1>4 DEF Inv, Types, boundVars, loadVars
<1>6. RequestPlace(r)'
  BY DEF Inv, Types, RequestPlace, Looking, Reading
<1>7. victim'[r] # None <=> pc'[r] \in Deleting
  BY DEF Inv, Places, Looking, Deleting
<1>8. Marked'
  <2>1. lost' = lost
    BY DEF boundVars
  <2>2. ASSUME NEW n \in Nodes, key'[n] # None PROVE key'[n] = key[n]
    BY <2>2 DEF Leaves, Forget, treeVars, Inv, Types
  <2>3. ASSUME NEW n \in Nodes, NEW q \in Requests,
               holds[q] = n, c[q].updating, c[q].lockTime = node[n].lockTime
        PROVE  \/ key'[n] = None \/ ~node'[n].updating
               \/ holds'[q] = n /\ c'[q].updating /\ c'[q].lockTime = c[q].lockTime
    BY <2>3 DEF Others
  <2> QED
    BY <2>1, <2>2, <2>3, MarkedKept DEF Inv
<1> QED
  BY <1>1, <1>5, <1>6, <1>7, <1>8, ActorStep

LEMMA ReadFileStep ==
    ASSUME Inv, NEW r \in Requests, ReadFile(r)
    PROVE  Inv'
<1> USE ActorFacts
<1>1. /\ UNCHANGED <<boundVars, treeVars, node, size, loadVars, file, now, victim>>
      /\ pc[r] = "read" /\ ~c[r].updating /\ MarksKept /\ cold \in BOOLEAN
      /\ node' \in [Nodes -> NodeRecord] /\ size' \in Int
      /\ file' \in [Keys -> {"absent", "fresh", "stale"}]
      /\ holds[r] # None /\ pc[r] \notin {"idle"} \cup Looking
  BY TypeFacts DEF ReadFile, MarksKept, Reading
<1>2. CASE Go(r, IF cold THEN "adopt" ELSE "check") /\ UNCHANGED <<count, want, c, holds>>
  <2> DEFINE l == IF cold THEN "adopt" ELSE "check"
  <2>1. l \in Reading /\ Go(r, l)
    BY <1>2 DEF Reading
  <2> HIDE DEF l
  <2>2. /\ c' = [c EXCEPT ![r] = c[r]] /\ c[r] \in CacheRecord /\ Alike(c[r], c[r])
        /\ UNCHANGED <<boundVars, want, treeVars, count, loadVars, now, holds, victim>>
    BY <1>1, <1>2, TypeFacts
  <2> QED
    BY <1>1, <2>1, <2>2, RequestWrites
<1>3. CASE /\ Go(r, "fetch") /\ c' = [c EXCEPT ![r].expired = FALSE]
           /\ UNCHANGED <<count, want, holds>>
  <2> DEFINE x == [c[r] EXCEPT !.expired = FALSE]
  <2>1. x \in CacheRecord /\ Alike(x, c[r])
    BY TypeFacts, FieldFacts
  <2>2. c' = [c EXCEPT ![r] = x]
    BY <1>3
  <2>3. UNCHANGED <<boundVars, want, treeVars, count, loadVars, now, holds, victim>>
    BY <1>1, <1>3
  <2> HIDE DEF x
  <2> QED
    BY <1>1, <1>3, <2>1, <2>2, <2>3, RequestWrites DEF Reading
<1>4. CASE /\ Leave(holds[r]) /\ holds' = [holds EXCEPT ![r] = None]
           /\ want' = [want EXCEPT ![r] = VariantOf[@]]
           /\ c' = [c EXCEPT ![r].secondary = TRUE, ![r].expired = FALSE]
           /\ Go(r, "exists")
  <2> DEFINE x == [c[r] EXCEPT !.secondary = TRUE, !.expired = FALSE]
             k == VariantOf[want[r]]
  <2>1. x \in CacheRecord /\ Alike(x, c[r])
    BY TypeFacts, FieldFacts
  <2>2. c' = [c EXCEPT ![r] = x] /\ want' = [want EXCEPT ![r] = k]
    BY <1>4 DEF Inv, Types
  <2>3. want[r] \in Keys /\ c[r].main \in Keys
    BY <1>1, TypeFacts DEF RequestPlace
  <2>4. k \in Keys
    BY <2>3, CacheAssumption
  <2> HIDE DEF x, k
  <2>5. /\ c' \in [Requests -> CacheRecord] /\ c'[r] = x
        /\ \A q \in Requests \ {r} : c'[q] = c[q]
    BY <2>1, <2>2, CacheWritten DEF Inv
  <2>6. /\ pc' \in [Actors -> Labels] /\ pc'[r] = "exists"
        /\ \A b \in Actors \ {r} : pc'[b] = pc[b]
    BY <1>4, GoFacts DEF Inv, Labels
  <2>7. Others(r) /\ holds'[r] = None
    BY <1>1, <1>4, <2>2, <2>5, <2>6 DEF Others, Inv, Types
  <2>8. GivesBack(r) /\ UNCHANGED treeVars /\ UNCHANGED <<boundVars, loadVars, now, victim>>
    BY <1>1, <1>4 DEF GivesBack, boundVars
  <2>9. c'[r].main \in Keys /\ ~c'[r].updating
    BY <1>1, <2>1, <2>3, <2>5 DEF Alike
  <2> QED
    BY <1>1, <2>2, <2>4, <2>5, <2>6, <2>7, <2>8, <2>9, GivingBack DEF Looking
<1> QED
  BY <1>2, <1>3, <1>4 DEF ReadFile

\* A request marks the node it has.
LEMMA Marking ==
    ASSUME Inv, NEW r \in Requests, pc[r] \in {"check", "lock"}, Go(r, "fetch"),
           NEW x \in NodeRecord, node' = [node EXCEPT ![holds[r]] = x], x.updating,
           NEW y \in CacheRecord, c' = [c EXCEPT ![r] = y],
           y.updating, y.lockTime = x.lockTime, y.main = c[r].main,
           UNCHANGED <<boundVars, want, treeVars, count, size, loadVars, file, now, holds, victim>>
    PROVE  Inv'
<1> USE ActorFacts
<1>1. /\ pc' \in [Actors -> Labels] /\ pc'[r] = "fetch"
      /\ \A b \in Actors \ {r} : pc'[b] = pc[b]
  BY GoFacts DEF Inv, Labels
<1>2. /\ c' \in [Requests -> CacheRecord] /\ c'[r] = y
      /\ \A q \in Requests \ {r} : c'[q] = c[q]
  BY CacheWritten DEF Inv
<1>3. holds[r] \in Nodes /\ holds[r] # None /\ RequestPlace(r)
  BY TypeFacts DEF Reading
<1>4. /\ node' \in [Nodes -> NodeRecord] /\ node'[holds[r]] = x
      /\ \A m \in Nodes : m # holds[r] => node'[m] = node[m]
  BY <1>3, TypeFacts, NodeWritten
<1>5. Types'
  BY <1>1, <1>2, <1>4 DEF Inv, Types, boundVars, treeVars, loadVars
<1>6. NodeStep /\ Others(r)
  BY <1>1, <1>2 DEF NodeStep, Keeps, boundVars, Others
<1>7. RequestPlace(r)'
  BY <1>1, <1>2, <1>3 DEF RequestPlace, Looking, Reading
<1>8. victim'[r] # None <=> pc'[r] \in Deleting
  BY <1>1 DEF Inv, Places, Deleting
<1>9. Marked'
  <2> SUFFICES ASSUME NEW n \in Nodes, key[n] # None, node'[n].updating, lost[n] = 0
               PROVE  \E q \in Requests : /\ holds[q] = n /\ c'[q].updating
                                          /\ c'[q].lockTime = node'[n].lockTime
    BY DEF Marked, treeVars, boundVars
  <2>1. CASE n = holds[r]
    BY <1>2, <1>4, <2>1
  <2>2. CASE n # holds[r]
    BY <1>2, <1>4, <2>2 DEF Inv, Marked
  <2> QED
    BY <2>1, <2>2
<1> QED
  BY <1>5, <1>6, <1>7, <1>8, <1>9, ActorStep

LEMMA CheckValidStep ==
    ASSUME Inv, NEW r \in Requests, CheckValid(r)
    PROVE  Inv'
<1> DEFINE n == holds[r]
<1>1. /\ UNCHANGED <<boundVars, want, treeVars, count, size, loadVars, file, now, holds, victim>>
      /\ pc[r] = "check" /\ ~c[r].updating /\ size' \in Int /\ node[n] \in NodeRecord
      /\ file' \in [Keys -> {"absent", "fresh", "stale"}]
      /\ holds[r] # None /\ pc[r] \notin {"idle"} \cup Looking
  BY TypeFacts DEF CheckValid, Reading
<1>2. ASSUME NEW l \in {"send", "fetch"}, Go(r, l), UNCHANGED <<node, c>>
      PROVE  Inv'
  <2>1. c' = [c EXCEPT ![r] = c[r]] /\ c[r] \in CacheRecord /\ Alike(c[r], c[r])
    BY <1>2, TypeFacts
  <2>2. MarksKept /\ node' \in [Nodes -> NodeRecord]
    BY <1>2, TypeFacts DEF MarksKept
  <2> QED
    BY <1>1, <1>2, <2>1, <2>2, RequestWrites DEF Reading
<1>3. CASE /\ node' = [node EXCEPT ![n].updating = TRUE]
           /\ c' = [c EXCEPT ![r].updating = TRUE, ![r].lockTime = node[n].lockTime]
           /\ Go(r, "fetch")
  <2> DEFINE t == node[n].lockTime
             x == [node[n] EXCEPT !.updating = TRUE]
             y == [c[r] EXCEPT !.updating = TRUE, !.lockTime = t]
  <2>1. node' = [node EXCEPT ![n] = x] /\ c' = [c EXCEPT ![r] = y]
    BY <1>3
  <2>2. x \in NodeRecord /\ x.updating /\ x.lockTime = t /\ t \in Nat
    BY <1>1 DEF NodeRecord
  <2>3. y \in CacheRecord /\ y.updating /\ y.lockTime = t /\ y.main = c[r].main
    <3>1. c[r] \in CacheRecord
      BY TypeFacts
    <3> HIDE DEF t
    <3> QED
      BY <2>2, <3>1 DEF CacheRecord
  <2> HIDE DEF x, y, t
  <2> QED
    BY <1>1, <1>3, <2>1, <2>2, <2>3, Marking
<1> QED
  BY <1>2, <1>3 DEF CheckValid

LEMMA LockStep ==
    ASSUME Inv, NEW r \in Requests, Lock(r)
    PROVE  Inv'
<1> DEFINE n == holds[r]
<1>1. /\ UNCHANGED <<boundVars, want, treeVars, count, size, loadVars, file, now, holds, victim>>
      /\ pc[r] = "lock" /\ ~c[r].updating /\ size' \in Int /\ node[n] \in NodeRecord
      /\ file' \in [Keys -> {"absent", "fresh", "stale"}]
      /\ holds[r] # None /\ pc[r] \notin {"idle"} \cup Looking
  BY TypeFacts DEF Lock, Reading
<1>0. c[r] \in CacheRecord /\ now \in Nat /\ LockAge \in Nat /\ LockTimeout \in Nat
  BY TypeFacts, CacheAssumption
<1>2. ASSUME NEW l \in {"wait", "fetch"}, Go(r, l), UNCHANGED node,
             NEW x \in CacheRecord, c' = [c EXCEPT ![r] = x], Alike(x, c[r])
      PROVE  Inv'
  <2>1. MarksKept /\ node' \in [Nodes -> NodeRecord]
    BY <1>2, TypeFacts DEF MarksKept
  <2> QED
    BY <1>1, <1>2, <2>1, RequestWrites DEF Reading
<1>3. CASE Go(r, "fetch") /\ UNCHANGED <<node, c>>
  <2>1. c' = [c EXCEPT ![r] = c[r]] /\ c[r] \in CacheRecord /\ Alike(c[r], c[r])
    BY <1>3, TypeFacts
  <2> QED
    BY <1>2, <1>3, <2>1
<1>4. CASE /\ node' = [node EXCEPT ![n].updating = TRUE, ![n].lockTime = now + LockAge]
           /\ c' = [c EXCEPT ![r].updating = TRUE, ![r].lockTime = now + LockAge]
           /\ Go(r, "fetch")
  <2> DEFINE t == now + LockAge
             x == [node[n] EXCEPT !.updating = TRUE, !.lockTime = t]
             y == [c[r] EXCEPT !.updating = TRUE, !.lockTime = t]
  <2>1. node' = [node EXCEPT ![n] = x] /\ c' = [c EXCEPT ![r] = y]
    BY <1>4
  <2>0. t \in Nat
    BY <1>0
  <2> HIDE DEF t
  <2>2. x \in NodeRecord /\ x.updating /\ x.lockTime = t
    BY <1>1, <2>0 DEF NodeRecord
  <2>3. y \in CacheRecord /\ y.updating /\ y.lockTime = t /\ y.main = c[r].main
    BY <1>0, <2>0 DEF CacheRecord
  <2> HIDE DEF x, y
  <2> QED
    BY <1>1, <1>4, <2>1, <2>2, <2>3, Marking
<1>5. CASE c' = [c EXCEPT ![r].cacheable = FALSE] /\ Go(r, "fetch") /\ UNCHANGED node
  <2> DEFINE x == [c[r] EXCEPT !.cacheable = FALSE]
  <2>1. x \in CacheRecord /\ Alike(x, c[r])
    BY <1>0, FieldFacts
  <2>2. c' = [c EXCEPT ![r] = x]
    BY <1>5
  <2> HIDE DEF x
  <2> QED
    BY <1>2, <1>5, <2>1, <2>2
<1>6. CASE /\ c' = [c EXCEPT ![r].waitTime = IF c[r].waitTime = 0 THEN now + LockTimeout ELSE @]
           /\ Go(r, "wait") /\ UNCHANGED node
  <2> DEFINE t == IF c[r].waitTime = 0 THEN now + LockTimeout ELSE c[r].waitTime
             x == [c[r] EXCEPT !.waitTime = t]
  <2>1. t \in Nat
    BY <1>0 DEF CacheRecord
  <2>2. c' = [c EXCEPT ![r] = x]
    BY <1>6
  <2> HIDE DEF t
  <2>3. x \in CacheRecord /\ Alike(x, c[r])
    BY <1>0, <2>1, FieldFacts
  <2> HIDE DEF x
  <2> QED
    BY <1>2, <1>6, <2>2, <2>3
<1> QED
  BY <1>3, <1>4, <1>5, <1>6 DEF Lock

\* What a request gives back was counted and is in the zone.
LEMMA HeldFacts ==
    ASSUME Inv, NEW r \in Requests, holds[r] # None
    PROVE  holds[r] \in Nodes /\ key[holds[r]] # None /\ count[holds[r]] >= 1
<1>1. holds[r] \in Nodes
  BY DEF Inv, Types
<1>2. count[holds[r]] >= 1
  BY UsedCounted DEF Inv, Used
<1> QED
  BY <1>1, <1>2 DEF Inv, FreeUnused

LEMMA Releasing ==
    ASSUME Inv, NEW r \in Requests, NEW error \in BOOLEAN, NEW valid \in BOOLEAN,
           Release(r, error, valid), pc[r] \in {"send", "fetch", "fill"},
           UNCHANGED <<boundVars, size, loadVars, now, victim>>,
           file' \in [Keys -> {"absent", "fresh", "stale"}]
    PROVE  Inv'
<1>1. /\ pc' \in [Actors -> Labels] /\ c' \in [Requests -> CacheRecord]
      /\ node' \in [Nodes -> NodeRecord]
      /\ \A a \in Actors \ {r} : pc'[a] = pc[a] /\ want'[a] = want[a]
      /\ \A q \in Requests \ {r} : c'[q] = c[q] /\ holds'[q] = holds[q]
      /\ pc'[r] = "idle" /\ holds'[r] = None
      /\ MarksKept
      /\ \A n \in Nodes :
             holds[r] = n /\ c[r].updating /\ c[r].lockTime = node[n].lockTime
                 => ~node'[n].updating
  BY ReleaseFacts DEF Inv
<1>2. Others(r)
  BY <1>1 DEF Others
<1>3. want' = [want EXCEPT ![r] = None] /\ holds' = [holds EXCEPT ![r] = None]
  BY DEF Release
<1>4. \/ GivesBack(r) /\ (UNCHANGED treeVars \/ (Leaves(holds[r]) /\ count[holds[r]] = 1))
      \/ holds[r] = None /\ Keeps /\ UNCHANGED treeVars
  <2>1. CASE holds[r] = None
    <3>1. holds' = holds
      BY <1>3, <2>1 DEF Inv, Types
    <3> QED
      BY <2>1, <3>1 DEF Release, Keeps, boundVars
  <2>2. CASE holds[r] # None
    <3>1. GivesBack(r)
      BY <2>2 DEF Release, GivesBack, boundVars
    <3>2. UNCHANGED treeVars \/ (Forget(holds[r]) /\ count[holds[r]] = 1)
      BY <2>2 DEF Release, Useless
    <3> QED
      BY <2>2, <3>1, <3>2, HeldFacts DEF Leaves
  <2> QED
    BY <2>1, <2>2
<1>5. size' \in Int /\ pc[r] \notin {"idle"} \cup (Looking \ {"exists"})
  BY TypeFacts DEF Looking
<1> QED
  BY <1>1, <1>2, <1>3, <1>4, <1>5, GivingBack

LEMMA EndSteps ==
    ASSUME Inv, NEW r \in Requests, Served(r) \/ NotCached(r) \/ Revalidated(r) \/ Broken(r)
    PROVE  Inv'
<1>0. c[r].error \in BOOLEAN
  BY TypeFacts DEF CacheRecord
<1>1. file \in [Keys -> {"absent", "fresh", "stale"}]
  BY TypeFacts
<1>2. CASE Served(r)
  BY <1>0, <1>1, <1>2, Releasing DEF Served
<1>3. CASE NotCached(r)
  BY <1>1, <1>3, Releasing DEF NotCached
<1>4. CASE Revalidated(r)
  <2>1. file' \in [Keys -> {"absent", "fresh", "stale"}]
    BY <1>1, <1>4 DEF Revalidated
  <2> QED
    BY <1>4, <2>1, Releasing DEF Revalidated
<1>5. CASE Broken(r)
  BY <1>0, <1>1, <1>5, Releasing DEF Broken
<1> QED
  BY <1>2, <1>3, <1>4, <1>5

LEMMA UpdateStep ==
    ASSUME Inv, NEW r \in Requests, Update(r)
    PROVE  Inv'
<1> USE ActorFacts
<1> DEFINE n == holds[r]
           fsSize == IF pc[r] = "update" THEN 1 ELSE 0
           x == [node[n] EXCEPT !.exists = pc[r] = "update" \/ @, !.fsSize = fsSize,
                                !.updating = FALSE]
<1>1. /\ pc[r] \in {"update", "failed"} /\ n \in Nodes /\ node[n] \in NodeRecord
      /\ UNCHANGED <<boundVars, treeVars, loadVars, file, now, victim>>
      /\ pc[r] \notin {"idle"} \cup Looking
      /\ file' \in [Keys -> {"absent", "fresh", "stale"}]
  BY TypeFacts DEF Update
<1>2. /\ Leave(n) /\ size' = size + fsSize - node[n].fsSize /\ Go(r, "idle")
      /\ node' = [node EXCEPT ![n] = x]
      /\ holds' = [holds EXCEPT ![r] = None]
      /\ want' = [want EXCEPT ![r] = None]
      /\ c' = [c EXCEPT ![r] = NewCache]
  BY DEF Update
<1>3. x \in NodeRecord /\ ~x.updating
  BY <1>1 DEF NodeRecord
<1>4. size' \in Int
  <2>1. node[n].fsSize \in Nat /\ fsSize \in Nat
    BY <1>1 DEF NodeRecord
  <2> QED
    BY <1>2, <2>1, TypeFacts
<1> HIDE DEF x
<1>5. /\ node' \in [Nodes -> NodeRecord] /\ node'[n] = x
      /\ \A m \in Nodes : m # n => node'[m] = node[m]
  BY <1>1, <1>2, <1>3, TypeFacts, NodeWritten
<1>6. MarksKept /\ \A m \in Nodes : holds[r] = m => ~node'[m].updating
  BY <1>1, <1>3, <1>5 DEF MarksKept
<1>7. /\ c' \in [Requests -> CacheRecord]
      /\ \A q \in Requests \ {r} : c'[q] = c[q]
  BY <1>2, NewFacts, CacheWritten DEF Inv
<1>8. /\ pc' \in [Actors -> Labels] /\ pc'[r] = "idle"
      /\ \A b \in Actors \ {r} : pc'[b] = pc[b]
  BY <1>2, GoFacts DEF Inv, Labels
<1>9. Others(r) /\ holds'[r] = None
  BY <1>1, <1>2, <1>7, <1>8 DEF Others, Inv, Types
<1>10. GivesBack(r)
  BY <1>1, <1>2 DEF GivesBack, boundVars
<1> QED
  BY <1>1, <1>2, <1>4, <1>5, <1>6, <1>7, <1>8, <1>9, <1>10, GivingBack DEF Looking

LEMMA CachedStep ==
    ASSUME Inv, NEW r \in Requests, Cached(r)
    PROVE  Inv'
<1> USE ActorFacts
<1>1. /\ pc[r] = "fetch" /\ UNCHANGED <<boundVars, treeVars, size, loadVars, file, now, victim>>
      /\ pc[r] \notin {"idle"} \cup Looking /\ size' \in Int
      /\ file' \in [Keys -> {"absent", "fresh", "stale"}]
      /\ RequestPlace(r) /\ c[r] \in CacheRecord
      /\ want[r] \in Keys /\ c[r].main \in Keys
  BY TypeFacts DEF Cached, Looking, RequestPlace
<1>2. CASE ~c[r].bypass /\ Go(r, "fill") /\ UNCHANGED <<count, node, want, c, holds>>
  <2>1. holds[r] # None
    BY <1>1, <1>2 DEF RequestPlace
  <2>2. c' = [c EXCEPT ![r] = c[r]] /\ Alike(c[r], c[r]) /\ MarksKept
        /\ node' \in [Nodes -> NodeRecord]
    BY <1>2, TypeFacts DEF MarksKept
  <2>3. UNCHANGED <<boundVars, want, treeVars, count, loadVars, now, holds, victim>>
    BY <1>1, <1>2
  <2>4. "fill" \notin {"exists"} \cup Reading
    BY DEF Reading
  <2> QED
    BY <1>1, <1>2, <2>1, <2>2, <2>3, <2>4, RequestWrites
<1> DEFINE x == [c[r] EXCEPT !.opening = FALSE]
<1>3. x \in CacheRecord /\ ~x.opening /\ x.main = c[r].main
      /\ x.updating = c[r].updating /\ x.lockTime = c[r].lockTime
  BY <1>1 DEF CacheRecord
<1>4. CASE c' = [c EXCEPT ![r] = x] /\ Go(r, "exists") /\ UNCHANGED <<count, node, want, holds>>
  <2> HIDE DEF x
  <2>1. c' \in [Requests -> CacheRecord] /\ c'[r] = x
        /\ \A q \in Requests \ {r} : c'[q] = c[q]
    BY <1>3, <1>4, CacheWritten DEF Inv
  <2>2. /\ pc' \in [Actors -> Labels] /\ pc'[r] = "exists"
        /\ \A b \in Actors \ {r} : pc'[b] = pc[b]
    BY <1>4, GoFacts DEF Inv, Labels
  <2>3. Types'
    BY <1>1, <1>4, <2>1, <2>2 DEF Inv, Types, boundVars, treeVars, loadVars
  <2>4. NodeStep /\ Others(r)
    BY <1>1, <1>4, <2>1, <2>2 DEF NodeStep, Keeps, boundVars, Others
  <2>5. RequestPlace(r)'
    BY <1>1, <1>3, <1>4, <2>1, <2>2 DEF RequestPlace, Looking, Reading
  <2>6. victim'[r] # None <=> pc'[r] \in Deleting
    BY <1>1, <2>2 DEF Inv, Places, Deleting
  <2>7. Marked'
    <3>1. MarksKept /\ lost' = lost /\ key' = key /\ holds' = holds
      BY <1>1, <1>4 DEF MarksKept, boundVars, treeVars
    <3>2. \A q \in Requests : c'[q].updating = c[q].updating /\ c'[q].lockTime = c[q].lockTime
      BY <1>3, <2>1
    <3> QED
      BY <3>1, <3>2, MarkedKept DEF Inv
  <2>8. holds'[r] # None => want'[r] = want[r]
    BY <1>4
  <2> QED
    BY <2>2, <2>3, <2>4, <2>5, <2>6, <2>7, <2>8, ActorStep
<1>5. CASE /\ Leave(holds[r])
           /\ node' = [node EXCEPT ![holds[r]].updating = FALSE]
           /\ holds' = [holds EXCEPT ![r] = None]
           /\ want' = [want EXCEPT ![r] = c[r].main]
           /\ c' = [c EXCEPT ![r] = x]
           /\ Go(r, "exists")
  <2> HIDE DEF x
  <2>1. c' \in [Requests -> CacheRecord] /\ c'[r] = x
        /\ \A q \in Requests \ {r} : c'[q] = c[q]
    BY <1>3, <1>5, CacheWritten DEF Inv
  <2>2. /\ pc' \in [Actors -> Labels] /\ pc'[r] = "exists"
        /\ \A b \in Actors \ {r} : pc'[b] = pc[b]
    BY <1>5, GoFacts DEF Inv, Labels
  <2>3. Others(r) /\ holds'[r] = None
    BY <1>1, <1>5, <2>1, <2>2 DEF Others, Inv, Types
  <2>4. GivesBack(r) /\ UNCHANGED treeVars /\ UNCHANGED <<boundVars, loadVars, now, victim>>
    BY <1>1, <1>5 DEF GivesBack, boundVars
  <2> DEFINE y == [node[holds[r]] EXCEPT !.updating = FALSE]
  <2>5. node' = [node EXCEPT ![holds[r]] = y]
    BY <1>5
  <2>6. holds[r] \in Nodes => y \in NodeRecord /\ ~y.updating
    <3>1. node \in [Nodes -> NodeRecord]
      BY TypeFacts
    <3> QED
      BY <3>1 DEF NodeRecord
  <2> HIDE DEF y
  <2>7. /\ node' \in [Nodes -> NodeRecord]
        /\ holds[r] \in Nodes => node'[holds[r]] = y
        /\ \A m \in Nodes : m # holds[r] => node'[m] = node[m]
    BY <2>5, <2>6, TypeFacts, NodeWritten
  <2>8. MarksKept /\ \A m \in Nodes : holds[r] = m => ~node'[m].updating
    BY <2>6, <2>7 DEF MarksKept
  <2>9. c'[r].main \in Keys /\ ~c'[r].opening
    BY <1>1, <1>3, <2>1
  <2> QED
    BY <1>1, <1>5, <2>1, <2>2, <2>3, <2>4, <2>7, <2>8, <2>9, GivingBack DEF Looking
<1> QED
  BY <1>2, <1>4, <1>5 DEF Cached

----------------------------------------------------------------------------
(* Steps of a request that finds, enters or looks for a node.              *)

\* A request has node n now, and goes on as ngx_http_file_cache_open says.
LEMMA Opening ==
    ASSUME Inv, NEW r \in Requests, pc[r] \in {"exists", "allocate"},
           NEW n \in Nodes, NEW rc \in {"error", "again", "ok", "declined"}, NEW e \in BOOLEAN,
           Opened(r, rc, e), holds' = [holds EXCEPT ![r] = n],
           UNCHANGED <<boundVars, want, size, loadVars, file, now, victim>>,
           node' \in [Nodes -> NodeRecord], MarksKept,
           \/ /\ holds[r] = None /\ Add(n)
              /\ (Moves(n) /\ key[n] = want[r]) \/ (Enters(n, want[r]) /\ ~node'[n].updating)
           \/ holds[r] = n /\ UNCHANGED count /\ Moves(n)
    PROVE  Inv'
<1> USE ActorFacts
<1>1. /\ pc' \in [Actors -> Labels] /\ c' \in [Requests -> CacheRecord]
      /\ \A a \in Actors \ {r} : pc'[a] = pc[a]
      /\ \A q \in Requests \ {r} : c'[q] = c[q]
      /\ Keeping(r)
      /\ pc'[r] \in {"fill", "send", "fetch", "open", "lock"}
      /\ ~c[r].opening => pc'[r] = "fill"
  BY OpenedFacts DEF Inv
<1>2. /\ holds' \in [Requests -> Nodes \cup {None}] /\ holds'[r] = n
      /\ \A q \in Requests \ {r} : holds'[q] = holds[q]
  BY DEF Inv, Types
<1>3. NodeStep
  <2>1. CASE holds[r] = None
    BY <2>1 DEF NodeStep, Takes, boundVars
  <2>2. CASE holds[r] # None
    <3>1. holds' = holds
      BY <2>2 DEF Inv, Types
    <3> QED
      BY <2>2, <3>1 DEF NodeStep, Keeps, boundVars
  <2> QED
    BY <2>1, <2>2
<1>4. TreeStep /\ UserStep
  BY <1>3, NodeStepKinds DEF Inv
<1>5. Types'
  <2>1. /\ count' \in [Nodes -> Int] /\ queue' \in Seq(Nodes)
        /\ key' \in [Nodes -> Keys \cup {None}]
    BY <1>4, CountKept, QueueKept DEF Inv
  <2> QED
    BY <1>1, <1>2, <2>1 DEF Inv, Types, boundVars, loadVars
<1>6. Others(r)
  BY <1>1, <1>2 DEF Others
<1>7. RequestPlace(r)'
  <2>1. RequestPlace(r)
    BY TypeFacts
  <2>2. /\ want'[r] \in Keys /\ c'[r].main \in Keys /\ holds'[r] # None
    BY <1>1, <1>2, <2>1 DEF RequestPlace, Keeping, Alike
  <2>3. pc'[r] \in Reading => ~c'[r].updating
    BY <1>1, <2>1 DEF RequestPlace, Keeping, Alike, Looking, Reading
  <2> QED
    BY <1>1, <2>2, <2>3 DEF RequestPlace, Looking
<1>8. victim'[r] # None <=> pc'[r] \in Deleting
  BY <1>1 DEF Inv, Places, Deleting
<1>9. Marked'
  <2>1. lost' = lost
    BY DEF boundVars
  <2>2. ASSUME NEW m \in Nodes, key'[m] # None PROVE key'[m] = key[m] \/ ~node'[m].updating
    BY <2>2 DEF Moves, Enters, Inv, Types
  <2>3. ASSUME NEW m \in Nodes, NEW q \in Requests,
               holds[q] = m, c[q].updating, c[q].lockTime = node[m].lockTime
        PROVE  holds'[q] = m /\ c'[q].updating /\ c'[q].lockTime = c[q].lockTime
    BY <1>1, <1>2, <2>3 DEF Keeping, Alike
  <2> QED
    BY <2>1, <2>2, <2>3, MarkedKept DEF Inv
<1>10. holds'[r] # None => want'[r] = want[r]
  OBVIOUS
<1> QED
  BY <1>3, <1>5, <1>6, <1>7, <1>8, <1>9, <1>10, ActorStep

LEMMA FoundStep ==
    ASSUME Inv, NEW r \in Requests, Found(r)
    PROVE  Inv'
<1> USE ActorFacts
<1>1. PICK n \in IF holds[r] = None THEN Of(want[r]) ELSE {holds[r]} :
          /\ IF holds[r] = None THEN Add(n) ELSE UNCHANGED count
          /\ holds' = [holds EXCEPT ![r] = n]
          /\ ToHead(n)
          /\ node' = [node EXCEPT ![n].uses = Uses(r, n),
                                  ![n].error = @ /\ ~Renewed(n),
                                  ![n].exists = @ /\ ~Renewed(n),
                                  ![n].fsSize = IF Renewed(n) THEN 0 ELSE @]
          /\ Opened(r, Verdict(r, n), node[n].exists)
  BY DEF Found
<1>2. /\ pc[r] = "exists" /\ key' = key
      /\ UNCHANGED <<boundVars, want, size, loadVars, file, now, victim>>
  BY DEF Found
<1>3. want[r] \in Keys
  BY <1>2, TypeFacts DEF RequestPlace
<1>4. n \in Nodes /\ key[n] # None /\ (holds[r] = None => key[n] = want[r])
      /\ (holds[r] # None => holds[r] = n)
  BY <1>1, <1>3, HeldFacts DEF Of
<1>5. Moves(n)
  BY <1>1, <1>2, <1>4 DEF Moves
<1>6. node[n] \in NodeRecord
  BY <1>4, TypeFacts
<1> DEFINE u == Uses(r, n)
           v == Renewed(n)
           x == [node[n] EXCEPT !.uses = u, !.error = @ /\ ~v, !.exists = @ /\ ~v,
                                !.fsSize = IF v THEN 0 ELSE @]
<1>7. node' = [node EXCEPT ![n] = x]
  BY <1>1
<1>8. u \in Nat
  BY <1>6 DEF Uses, NodeRecord
<1>9. v \in BOOLEAN
  BY <1>6 DEF Renewed, NodeRecord
<1> HIDE DEF u, v
<1>10. x \in NodeRecord /\ MarkOf(x) = MarkOf(node[n])
  BY <1>6, <1>8, <1>9 DEF NodeRecord, MarkOf
<1> HIDE DEF x
<1>11. /\ node' \in [Nodes -> NodeRecord] /\ node'[n] = x
       /\ \A m \in Nodes : m # n => node'[m] = node[m]
  BY <1>4, <1>7, <1>10, TypeFacts, NodeWritten
<1>12. MarksKept
  BY <1>10, <1>11 DEF MarksKept, MarkOf
<1>13. Verdict(r, n) \in {"error", "again", "ok", "declined"} /\ node[n].exists \in BOOLEAN
  BY <1>6 DEF Verdict, NodeRecord
<1>14. \/ /\ holds[r] = None /\ Add(n)
          /\ (Moves(n) /\ key[n] = want[r]) \/ (Enters(n, want[r]) /\ ~node'[n].updating)
       \/ holds[r] = n /\ UNCHANGED count /\ Moves(n)
  BY <1>1, <1>4, <1>5
<1>15. Opened(r, Verdict(r, n), node[n].exists) /\ holds' = [holds EXCEPT ![r] = n]
  BY <1>1
<1> QED
  BY <1>2, <1>4, <1>11, <1>12, <1>13, <1>14, <1>15, Opening

LEMMA CreateStep ==
    ASSUME Inv, NEW r \in Requests, pc[r] \in {"exists", "allocate"}, holds[r] = None, Create(r)
    PROVE  Inv'
<1> USE ActorFacts
<1>1. PICK n \in Free :
          /\ key' = [key EXCEPT ![n] = want[r]]
          /\ count' = [count EXCEPT ![n] = 1]
          /\ node' = [node EXCEPT ![n] = NewNode]
          /\ queue' = <<n>> \o queue
          /\ holds' = [holds EXCEPT ![r] = n]
          /\ Opened(r, "declined", FALSE)
          /\ UNCHANGED <<boundVars, want, size, loadVars, file, now, victim>>
  BY DEF Create
<1>2. n \in Nodes /\ key[n] = None
  BY SiteFacts DEF Free, Inv, Types
<1>3. want[r] \in Keys
  BY TypeFacts DEF RequestPlace
<1>4. Enters(n, want[r])
  BY <1>1, <1>2, <1>3 DEF Enters
<1>5. Add(n)
  <2>1. count[n] = 0
    BY <1>2 DEF Inv, FreeUnused
  <2> QED
    BY <1>1, <2>1 DEF Add
<1>6. /\ node' \in [Nodes -> NodeRecord] /\ node'[n] = NewNode
      /\ \A m \in Nodes : m # n => node'[m] = node[m]
  BY <1>1, <1>2, NewFacts, TypeFacts, NodeWritten
<1>7. MarksKept /\ ~node'[n].updating
  BY <1>6, NewFacts DEF MarksKept
<1> QED
  BY <1>1, <1>2, <1>4, <1>5, <1>6, <1>7, Opening

\* A request without a node goes on without one.
LEMMA Unheld ==
    ASSUME Inv, NEW r \in Requests, holds[r] = None,
           NEW l \in Labels \ (Deleting \cup {"add"}), Go(r, l), pc[r] \notin Deleting,
           NEW x \in CacheRecord, c' = [c EXCEPT ![r] = x],
           NEW k \in Keys \cup {None}, want' = [want EXCEPT ![r] = k],
           \/ l = "idle"
           \/ /\ l \in Looking \/ (l = "fetch" /\ x.bypass)
              /\ k \in Keys /\ x.main \in Keys /\ (x.opening => ~x.updating),
           begun' \in 0 .. site.begins,
           UNCHANGED <<site, died, lost, treeVars, count, node, size, loadVars, file, now, holds, victim>>
    PROVE  Inv'
<1> USE ActorFacts
<1>1. /\ pc' \in [Actors -> Labels] /\ pc'[r] = l
      /\ \A b \in Actors \ {r} : pc'[b] = pc[b]
  BY GoFacts DEF Inv
<1>2. /\ c' \in [Requests -> CacheRecord] /\ c'[r] = x
      /\ \A q \in Requests \ {r} : c'[q] = c[q]
  BY CacheWritten DEF Inv
<1>3. /\ want' \in [Actors -> Keys \cup {None}] /\ want'[r] = k
      /\ \A b \in Actors \ {r} : want'[b] = want[b]
  BY DEF Inv, Types
<1>4. Types'
  BY <1>1, <1>2, <1>3 DEF Inv, Types, treeVars, loadVars
<1>5. NodeStep /\ Others(r)
  BY <1>1, <1>2, <1>3 DEF NodeStep, Keeps, Others
<1>6. RequestPlace(r)'
  BY <1>1, <1>2, <1>3 DEF RequestPlace, Looking, Reading
<1>7. victim'[r] # None <=> pc'[r] \in Deleting
  BY <1>1 DEF Inv, Places
<1>8. Marked'
  <2>1. MarksKept /\ key' = key /\ holds' = holds
    BY DEF MarksKept, treeVars
  <2>2. ASSUME NEW n \in Nodes, NEW q \in Requests, holds[q] = n
        PROVE  c'[q] = c[q]
    BY <1>2, <2>2
  <2> QED
    BY <2>1, <2>2, MarkedKept DEF Inv
<1> QED
  BY <1>4, <1>5, <1>6, <1>7, <1>8, ActorStep

LEMMA BeginStep ==
    ASSUME Inv, NEW r \in Requests, Begin(r)
    PROVE  Inv'
<1>1. /\ pc[r] = "idle" /\ begun < site.begins /\ begun' = begun + 1
      /\ UNCHANGED <<site, died, lost, treeVars, count, node, size, loadVars, file, now, holds, victim>>
  BY DEF Begin
<1>2. PICK k \in Pages, bypass \in {FALSE, site.bypass} :
          /\ want' = [want EXCEPT ![r] = k]
          /\ c' = [c EXCEPT ![r] = [NewCache EXCEPT !.main = k, !.bypass = bypass]]
          /\ Go(r, IF bypass THEN "fetch" ELSE "exists")
  BY DEF Begin
<1> DEFINE x == [NewCache EXCEPT !.main = k, !.bypass = bypass]
           l == IF bypass THEN "fetch" ELSE "exists"
<1>3. k \in Keys /\ bypass \in BOOLEAN
  BY CacheAssumption, SiteFacts DEF Inv, Types
<1>4. /\ x \in CacheRecord /\ x.main \in Keys /\ ~x.updating /\ (bypass => x.bypass)
  BY <1>3 DEF NewCache, CacheRecord
<1>5. l \in Labels \ (Deleting \cup {"add"}) /\ (l \in Looking \/ (l = "fetch" /\ bypass))
  BY DEF Labels, Deleting, Looking
<1>6. begun' \in 0 .. site.begins
  <2>1. site.begins \in Nat /\ begun \in 0 .. site.begins
    BY SiteFacts DEF Inv, Types
  <2> QED
    BY <1>1, <2>1
<1>7. holds[r] = None /\ pc[r] \notin Deleting
  BY <1>1, TypeFacts DEF RequestPlace, Deleting
<1> HIDE DEF x, l
<1> QED
  BY <1>1, <1>2, <1>3, <1>4, <1>5, <1>6, <1>7, Unheld DEF x, l

LEMMA NotFoundStep ==
    ASSUME Inv, NEW r \in Requests, NotFound(r) \/ Allocate(r)
    PROVE  Inv'
<1> USE ActorFacts
<1>1. /\ pc[r] \in {"exists", "allocate"} /\ holds[r] = None /\ pc[r] \notin Deleting
      /\ RequestPlace(r) /\ c[r] \in CacheRecord
  BY TypeFacts DEF NotFound, Allocate, RequestPlace, Looking, Deleting
<1>2. begun \in 0 .. site.begins /\ want = [want EXCEPT ![r] = want[r]]
      /\ want[r] \in Keys \cup {None}
  BY DEF Inv, Types
<1>3. CASE Create(r)
  BY <1>1, <1>3, CreateStep
<1>4. CASE /\ Go(r, "forced")
           /\ UNCHANGED <<boundVars, want, treeVars, count, node, size, loadVars, file, now, c, holds, victim>>
  <2>1. /\ c' = [c EXCEPT ![r] = c[r]] /\ want' = [want EXCEPT ![r] = want[r]]
        /\ begun' \in 0 .. site.begins
        /\ UNCHANGED <<site, died, lost, treeVars, count, node, size, loadVars, file, now, holds, victim>>
    BY <1>2, <1>4, TypeFacts DEF boundVars
  <2>2. /\ want[r] \in Keys /\ c[r].main \in Keys /\ (c[r].opening => ~c[r].updating)
    BY <1>1 DEF RequestPlace, Looking
  <2>3. "forced" \in Labels \ (Deleting \cup {"add"}) /\ "forced" \in Looking
    BY DEF Labels, Deleting, Looking
  <2> QED
    BY <1>1, <1>4, <2>1, <2>2, <2>3, Unheld
<1>5. CASE /\ Go(r, "idle") /\ c' = [c EXCEPT ![r] = NewCache]
           /\ UNCHANGED <<boundVars, want, treeVars, count, node, size, loadVars, file, now, holds, victim>>
  <2>1. /\ want' = [want EXCEPT ![r] = want[r]] /\ begun' \in 0 .. site.begins
        /\ UNCHANGED <<site, died, lost, treeVars, count, node, size, loadVars, file, now, holds, victim>>
    BY <1>2, <1>5 DEF boundVars
  <2>2. "idle" \in Labels \ (Deleting \cup {"add"})
    BY DEF Labels, Deleting
  <2> QED
    BY <1>1, <1>2, <1>5, <2>1, <2>2, NewFacts, Unheld
<1> QED
  BY <1>3, <1>4, <1>5 DEF NotFound, Allocate

----------------------------------------------------------------------------
(* Nodes are deleted, by the manager and by requests.                      *)

LEMMA LastUnusedFacts ==
    ASSUME Inv, Unused # {}
    PROVE  LastUnused \in Nodes /\ key[LastUnused] # None /\ count[LastUnused] = 0
<1> DEFINE S == {i \in DOMAIN queue : queue[i] \in Unused}
           last(i) == /\ queue[i] \in Unused
                      /\ \A j \in DOMAIN queue : queue[j] \in Unused => j <= i
<1>1. /\ ToSet(queue) = {n \in Nodes : key[n] # None} /\ DOMAIN queue = 1 .. Len(queue)
      /\ Len(queue) \in Nat
  BY DEF Inv, QueueExact, Types
<1>2. S # {}
  BY <1>1 DEF Unused, ToSet
<1>3. S \subseteq 1 .. Len(queue)
  BY <1>1
<1>4. PICK i \in S : \A j \in S : j <= i
  <2> HIDE DEF S
  <2> QED
    BY <1>1, <1>2, <1>3, Greatest
<1>5. i \in DOMAIN queue /\ last(i)
  BY <1>4
<1>6. queue[CHOOSE j \in DOMAIN queue : last(j)] \in Unused
  BY <1>5
<1>7. LastUnused \in Unused
  BY <1>6 DEF LastUnused
<1> QED
  BY <1>7 DEF Unused

\* An actor leaves the section of the mutex in which it began to delete a node.
LEMMA DeleteStep ==
    ASSUME Inv, NEW a \in Actors, a # Loader, NEW n \in Nodes, key[n] # None, count[n] = 0,
           Delete(a, n), pc[a] \notin Deleting,
           NEW l \in {"idle", "allocate"}, Go(a, IF node[n].exists THEN "unlink" ELSE l),
           a \in Requests => pc[a] = "forced" /\ l = "allocate",
           UNCHANGED <<boundVars, want, loadVars, file, now, c, holds>>
    PROVE  Inv'
<1> USE ActorFacts
<1> DEFINE l1 == IF node[n].exists THEN "unlink" ELSE l
<1>1. /\ pc' \in [Actors -> Labels] /\ pc'[a] = l1
      /\ \A b \in Actors \ {a} : pc'[b] = pc[b]
  <2>1. l1 \in Labels
    BY DEF Labels
  <2> HIDE DEF l1
  <2>2. Go(a, l1)
    BY DEF l1
  <2> QED
    BY <2>1, <2>2, GoFacts DEF Inv
<1>2. victim[a] = None /\ node[n] \in NodeRecord /\ node \in [Nodes -> NodeRecord]
  BY DEF Inv, Places, Types
<1>3. /\ victim' \in [Actors -> Nodes \cup {None}]
      /\ victim'[a] = IF node[n].exists THEN n ELSE None
      /\ \A b \in Actors \ {a} : victim'[b] = victim[b]
  <2>1. victim \in [Actors -> Nodes \cup {None}]
    BY DEF Inv, Types
  <2>2. CASE node[n].exists
    <3>1. victim' = [victim EXCEPT ![a] = n]
      BY <2>2 DEF Delete
    <3> QED
      BY <2>1, <2>2, <3>1
  <2>3. CASE ~node[n].exists
    <3>1. victim' = victim
      BY <2>3 DEF Delete
    <3> QED
      BY <1>2, <2>1, <2>3, <3>1
  <2> QED
    BY <2>2, <2>3
<1>4. NodeStep
  <2>1. CASE node[n].exists
    BY <1>2, <2>1 DEF Delete, NodeStep, Marks, boundVars
  <2>2. CASE ~node[n].exists
    BY <2>2 DEF Delete, NodeStep, Leaves, Keeps, boundVars
  <2> QED
    BY <2>1, <2>2
<1>5. node' \in [Nodes -> NodeRecord] /\ MarksKept /\ size' \in Int
  <2>1. CASE node[n].exists
    <3> DEFINE x == [node[n] EXCEPT !.deleting = TRUE]
    <3>1. node' = [node EXCEPT ![n] = x] /\ size' = size - node[n].fsSize
      BY <2>1 DEF Delete
    <3>2. x \in NodeRecord /\ x.updating = node[n].updating /\ x.lockTime = node[n].lockTime
          /\ node[n].fsSize \in Nat
      BY <1>2 DEF NodeRecord
    <3> HIDE DEF x
    <3>3. /\ node' \in [Nodes -> NodeRecord] /\ node'[n] = x
          /\ \A m \in Nodes : m # n => node'[m] = node[m]
      BY <1>2, <3>1, <3>2, NodeWritten
    <3>4. size \in Int
      BY DEF Inv, Types
    <3> QED
      BY <3>1, <3>2, <3>3, <3>4 DEF MarksKept
  <2>2. CASE ~node[n].exists
    BY <1>2, <2>2 DEF Delete, MarksKept, Inv, Types
  <2> QED
    BY <2>1, <2>2
<1>6. Types'
  <2>1. TreeStep /\ UserStep
    BY <1>4, NodeStepKinds DEF Inv
  <2>2. /\ count' \in [Nodes -> Int] /\ queue' \in Seq(Nodes)
        /\ key' \in [Nodes -> Keys \cup {None}]
    BY <2>1, CountKept, QueueKept DEF Inv
  <2> QED
    BY <1>1, <1>3, <1>5, <2>2 DEF Inv, Types, boundVars, loadVars
<1>7. Others(a)
  BY <1>1, <1>3 DEF Others
<1>8. a \in Requests => RequestPlace(a)'
  <2> SUFFICES ASSUME a \in Requests PROVE RequestPlace(a)'
    OBVIOUS
  <2>1. RequestPlace(a) /\ pc[a] = "forced"
    BY TypeFacts
  <2>2. pc'[a] \in {"unlink", "allocate"}
    BY <1>1
  <2> QED
    BY <2>1, <2>2 DEF RequestPlace, Looking, Reading
<1>9. victim'[a] # None <=> pc'[a] \in Deleting
  BY <1>1, <1>3 DEF Deleting
<1>10. Marked'
  <2>1. lost' = lost /\ \A m \in Nodes : key'[m] # None => key'[m] = key[m]
    BY DEF Delete, Forget, boundVars, treeVars, Inv, Types
  <2> QED
    BY <1>5, <2>1, MarkedKept DEF Inv
<1> QED
  BY <1>4, <1>6, <1>7, <1>8, <1>9, <1>10, ActorStep

\* The actor is back under the mutex.
LEMMA DeletedStep ==
    ASSUME Inv, NEW a \in Actors, a # Loader, NEW l \in {"idle", "allocate"}, Deleted(a, l),
           a \in Requests => l = "allocate"
    PROVE  Inv'
<1> USE ActorFacts
<1> DEFINE n == victim[a]
<1>1. /\ pc[a] = "unlinked" /\ Leave(n) /\ node' = [node EXCEPT ![n].deleting = FALSE]
      /\ IF count[n] = 1 THEN Forget(n) ELSE UNCHANGED treeVars
      /\ victim' = [victim EXCEPT ![a] = None] /\ Go(a, l)
      /\ UNCHANGED <<boundVars, want, size, loadVars, file, now, c, holds>>
  BY DEF Deleted
<1>2. victim[a] # None /\ n \in Nodes /\ node \in [Nodes -> NodeRecord]
  BY <1>1 DEF Inv, Places, Types, Deleting
<1>3. count[n] >= 1 /\ key[n] # None
  <2>1. count[n] >= 1
    BY <1>2, UsedCounted DEF Inv, Used
  <2> QED
    BY <1>2, <2>1 DEF Inv, FreeUnused
<1>4. /\ pc' \in [Actors -> Labels] /\ pc'[a] = l
      /\ \A b \in Actors \ {a} : pc'[b] = pc[b]
  <2>1. l \in Labels
    BY DEF Labels
  <2> QED
    BY <1>1, <2>1, GoFacts DEF Inv
<1>5. /\ victim' \in [Actors -> Nodes \cup {None}] /\ victim'[a] = None
      /\ \A b \in Actors \ {a} : victim'[b] = victim[b]
  BY <1>1 DEF Inv, Types
<1>6. NodeStep
  <2>1. Unmarks(a)
    BY <1>1 DEF Unmarks, boundVars
  <2>2. UNCHANGED treeVars \/ (Leaves(n) /\ count[n] = 1)
    BY <1>1, <1>2, <1>3 DEF Leaves
  <2> QED
    BY <2>1, <2>2 DEF NodeStep
<1>7. node' \in [Nodes -> NodeRecord] /\ MarksKept
  <2> DEFINE x == [node[n] EXCEPT !.deleting = FALSE]
  <2>1. node' = [node EXCEPT ![n] = x]
    BY <1>1
  <2>2. x \in NodeRecord /\ x.updating = node[n].updating /\ x.lockTime = node[n].lockTime
    <3>1. node[n] \in NodeRecord
      BY <1>2
    <3> QED
      BY <3>1 DEF NodeRecord
  <2> HIDE DEF x
  <2>3. /\ node' \in [Nodes -> NodeRecord] /\ node'[n] = x
        /\ \A m \in Nodes : m # n => node'[m] = node[m]
    BY <1>2, <2>1, <2>2, NodeWritten
  <2> QED
    BY <2>2, <2>3 DEF MarksKept
<1>8. Types'
  <2>1. TreeStep /\ UserStep
    BY <1>6, NodeStepKinds DEF Inv
  <2>2. /\ count' \in [Nodes -> Int] /\ queue' \in Seq(Nodes)
        /\ key' \in [Nodes -> Keys \cup {None}]
    BY <2>1, CountKept, QueueKept DEF Inv
  <2> QED
    BY <1>1, <1>4, <1>5, <1>7, <2>2 DEF Inv, Types, boundVars, loadVars
<1>9. Others(a)
  BY <1>1, <1>4, <1>5 DEF Others
<1>10. a \in Requests => RequestPlace(a)'
  <2> SUFFICES ASSUME a \in Requests PROVE RequestPlace(a)'
    OBVIOUS
  <2>1. RequestPlace(a)
    BY TypeFacts
  <2> QED
    BY <1>1, <1>4, <2>1 DEF RequestPlace, Looking, Reading
<1>11. victim'[a] # None <=> pc'[a] \in Deleting
  BY <1>4, <1>5 DEF Deleting
<1>12. Marked'
  <2>1. lost' = lost /\ \A m \in Nodes : key'[m] # None => key'[m] = key[m]
    BY <1>1 DEF Forget, boundVars, treeVars, Inv, Types
  <2> QED
    BY <1>1, <1>7, <2>1, MarkedKept DEF Inv
<1>13. (a \in Requests => (holds'[a] # None => want'[a] = want[a]))
  BY <1>1
<1> QED
  BY <1>6, <1>8, <1>9, <1>10, <1>11, <1>12, <1>13, ActorStep

\* An actor that is no user of a node moves or enters one, or none.
LEMMA Tending ==
    ASSUME Inv, NEW a \in Actors, NEW l \in Labels, Go(a, l), Keeps,
           UNCHANGED <<site, begun, died, now, c>>,
           cold' \in BOOLEAN, loading' \in BOOLEAN, todo' \subseteq Keys, size' \in Int,
           file' \in [Keys -> {"absent", "fresh", "stale"}],
           node' \in [Nodes -> NodeRecord], MarksKept,
           \/ UNCHANGED treeVars
           \/ \E n \in Nodes : Moves(n) \/ \E k \in Keys : Enters(n, k) /\ ~node'[n].updating,
           NEW k \in Keys \cup {None}, want' = [want EXCEPT ![a] = k],
           a \in Requests => k = want[a] /\ pc[a] \in Looking \ {"exists"} /\ l \in Looking \ {"exists"},
           l \in Deleting <=> pc[a] \in Deleting,
           a = Loader /\ l = "add" => k \in Keys
    PROVE  Inv'
<1> USE ActorFacts
<1>1. /\ pc' \in [Actors -> Labels] /\ pc'[a] = l
      /\ \A b \in Actors \ {a} : pc'[b] = pc[b]
  BY GoFacts DEF Inv
<1>2. /\ want' \in [Actors -> Keys \cup {None}] /\ want'[a] = k
      /\ \A b \in Actors \ {a} : want'[b] = want[b]
  BY DEF Inv, Types
<1>3. NodeStep
  BY DEF NodeStep
<1>4. Types'
  <2>1. TreeStep /\ UserStep
    BY <1>3, NodeStepKinds DEF Inv
  <2>2. /\ count' \in [Nodes -> Int] /\ queue' \in Seq(Nodes)
        /\ key' \in [Nodes -> Keys \cup {None}]
    BY <2>1, CountKept, QueueKept DEF Inv
  <2> QED
    BY <1>1, <1>2, <2>2 DEF Inv, Types, Keeps
<1>5. Others(a)
  BY <1>1, <1>2 DEF Others, Keeps
<1>6. a \in Requests => RequestPlace(a)' /\ (holds'[a] # None => want'[a] = want[a])
  <2> SUFFICES ASSUME a \in Requests PROVE RequestPlace(a)'
    BY <1>2
  <2>1. RequestPlace(a)
    BY TypeFacts
  <2> QED
    BY <1>1, <1>2, <2>1 DEF RequestPlace, Looking, Reading, Keeps
<1>7. victim'[a] # None <=> pc'[a] \in Deleting
  BY <1>1 DEF Inv, Places, Keeps
<1>8. Marked'
  <2>1. ASSUME NEW m \in Nodes, key'[m] # None PROVE key'[m] = key[m] \/ ~node'[m].updating
    BY <2>1 DEF Moves, Enters, treeVars, Inv, Types
  <2>2. lost' = lost /\ holds' = holds
    BY DEF Keeps
  <2> QED
    BY <2>1, <2>2, MarkedKept DEF Inv
<1> QED
  BY <1>1, <1>2, <1>3, <1>4, <1>5, <1>6, <1>7, <1>8, ActorStep

\* What a step that leaves the nodes alone may use.
LEMMA SameFacts ==
    ASSUME Inv
    PROVE  /\ cold \in BOOLEAN /\ loading \in BOOLEAN /\ todo \subseteq Keys /\ size \in Int
           /\ file \in [Keys -> {"absent", "fresh", "stale"}]
           /\ node \in [Nodes -> NodeRecord]
           /\ \A a \in Actors : want[a] \in Keys \cup {None} /\ want = [want EXCEPT ![a] = want[a]]
           /\ node' = node => MarksKept
BY DEF Inv, Types, MarksKept

LEMMA ForcedExpireStep ==
    ASSUME Inv, NEW a \in Actors, a # Loader, NEW l \in {"idle", "allocate"},
           ForcedExpire(a, l, l), a \in Requests => l = "allocate"
    PROVE  Inv'
<1> USE ActorFacts
<1>1. pc[a] = "forced" /\ UNCHANGED <<boundVars, want, loadVars, file, now, c, holds>>
  BY DEF ForcedExpire
<1>2. CASE Go(a, l) /\ UNCHANGED <<treeVars, count, node, size, victim>>
  <2>1. /\ l \in Labels /\ l \notin Deleting /\ pc[a] \notin Deleting
        /\ a \in Requests => pc[a] \in Looking \ {"exists"} /\ l \in Looking \ {"exists"}
    BY <1>1 DEF Labels, Deleting, Looking
  <2>2. Keeps /\ UNCHANGED <<site, begun, died, now, c>>
    BY <1>1, <1>2 DEF Keeps, boundVars
  <2>3. /\ cold' \in BOOLEAN /\ loading' \in BOOLEAN /\ todo' \subseteq Keys /\ size' \in Int
        /\ file' \in [Keys -> {"absent", "fresh", "stale"}]
        /\ node' \in [Nodes -> NodeRecord] /\ MarksKept
        /\ want[a] \in Keys \cup {None} /\ want' = [want EXCEPT ![a] = want[a]]
    BY <1>1, <1>2, SameFacts DEF loadVars
  <2> QED
    BY <1>2, <2>1, <2>2, <2>3, Tending
<1>3. CASE /\ Unused # {} /\ Delete(a, LastUnused)
           /\ Go(a, IF node[LastUnused].exists THEN "unlink" ELSE l)
  <2>1. LastUnused \in Nodes /\ key[LastUnused] # None /\ count[LastUnused] = 0
    BY <1>3, LastUnusedFacts
  <2>2. pc[a] \notin Deleting
    BY <1>1 DEF Deleting
  <2> QED
    BY <1>1, <1>3, <2>1, <2>2, DeleteStep
<1> QED
  BY <1>2, <1>3 DEF ForcedExpire

LEMMA UnlinkStep ==
    ASSUME Inv, NEW a \in Actors, a # Loader, Unlink(a)
    PROVE  Inv'
<1>1. /\ pc[a] = "unlink" /\ Go(a, "unlinked")
      /\ file' = [file EXCEPT ![key[victim[a]]] = "absent"]
      /\ UNCHANGED <<boundVars, want, treeVars, count, node, size, loadVars, now, c, holds, victim>>
  BY DEF Unlink
<1>2. /\ "unlinked" \in Labels /\ "unlinked" \in Deleting /\ pc[a] \in Deleting
      /\ pc[a] \in Looking \ {"exists"} /\ "unlinked" \in Looking \ {"exists"}
  BY <1>1 DEF Labels, Deleting, Looking
<1>3. Keeps /\ UNCHANGED <<site, begun, died, now, c>> /\ UNCHANGED treeVars
  BY <1>1 DEF Keeps, boundVars
<1>4. /\ cold' \in BOOLEAN /\ loading' \in BOOLEAN /\ todo' \subseteq Keys /\ size' \in Int
      /\ file' \in [Keys -> {"absent", "fresh", "stale"}]
      /\ node' \in [Nodes -> NodeRecord] /\ MarksKept
      /\ want[a] \in Keys \cup {None} /\ want' = [want EXCEPT ![a] = want[a]]
  BY <1>1, SameFacts DEF loadVars
<1> QED
  BY <1>1, <1>2, <1>3, <1>4, Tending

LEMMA ManageStep ==
    ASSUME Inv, Manage
    PROVE  Inv'
<1> USE ActorFacts
<1>1. CASE Oversize
  <2>1. /\ pc[Manager] = "idle" /\ Go(Manager, "forced")
        /\ UNCHANGED <<boundVars, want, treeVars, count, node, size, loadVars, file, now, c, holds, victim>>
    BY <1>1 DEF Oversize
  <2>2. "forced" \in Labels /\ "forced" \notin Deleting /\ pc[Manager] \notin Deleting
    BY <2>1 DEF Labels, Deleting
  <2>3. Keeps /\ UNCHANGED <<site, begun, died, now, c>> /\ UNCHANGED treeVars
    BY <2>1 DEF Keeps, boundVars
  <2>4. /\ cold' \in BOOLEAN /\ loading' \in BOOLEAN /\ todo' \subseteq Keys /\ size' \in Int
        /\ file' \in [Keys -> {"absent", "fresh", "stale"}]
        /\ node' \in [Nodes -> NodeRecord] /\ MarksKept
        /\ want[Manager] \in Keys \cup {None} /\ want' = [want EXCEPT ![Manager] = want[Manager]]
    BY <2>1, SameFacts DEF loadVars
  <2> QED
    BY <2>1, <2>2, <2>3, <2>4, Tending
<1>2. CASE Expire
  <2> DEFINE n == Last(queue)
  <2>1. /\ pc[Manager] = "idle" /\ UNCHANGED <<boundVars, want, loadVars, file, now, c, holds>>
    BY <1>2 DEF Expire
  <2>2. n \in Nodes /\ key[n] # None
    <3>1. queue # <<>> /\ queue \in Seq(Nodes) /\ ToSet(queue) = {m \in Nodes : key[m] # None}
      BY <1>2 DEF Expire, Inv, Types, QueueExact
    <3>2. Len(queue) \in DOMAIN queue
      BY <3>1
    <3>3. queue[Len(queue)] \in ToSet(queue)
      BY <3>2 DEF ToSet
    <3> QED
      BY <3>1, <3>3 DEF Last
  <2>3. CASE count[n] = 0 /\ Delete(Manager, n) /\ Go(Manager, IF node[n].exists THEN "unlink" ELSE "idle")
    <3>1. pc[Manager] \notin Deleting
      BY <2>1 DEF Deleting
    <3> HIDE DEF n
    <3> QED
      BY <2>1, <2>2, <2>3, <3>1, DeleteStep
  <2>4. CASE ToHead(n) /\ UNCHANGED <<key, count, node, size, victim, pc>>
    <3>1. Moves(n) /\ Keeps /\ UNCHANGED <<site, begun, died, now, c>>
      BY <2>1, <2>2, <2>4 DEF Moves, Keeps, boundVars
    <3>2. Go(Manager, "idle") /\ "idle" \in Labels /\ "idle" \notin Deleting /\ pc[Manager] \notin Deleting
      <4>1. pc' = [pc EXCEPT ![Manager] = pc[Manager]]
        BY <2>4 DEF Inv, Types
      <4> QED
        BY <2>1, <4>1 DEF Go, Labels, Deleting
    <3>3. /\ cold' \in BOOLEAN /\ loading' \in BOOLEAN /\ todo' \subseteq Keys /\ size' \in Int
          /\ file' \in [Keys -> {"absent", "fresh", "stale"}]
          /\ node' \in [Nodes -> NodeRecord] /\ MarksKept
          /\ want[Manager] \in Keys \cup {None} /\ want' = [want EXCEPT ![Manager] = want[Manager]]
      BY <2>1, <2>4, SameFacts DEF loadVars
    <3> HIDE DEF n
    <3> QED
      BY <2>2, <3>1, <3>2, <3>3, Tending
  <2> QED
    BY <1>2, <2>3, <2>4 DEF Expire
<1>3. CASE ForcedExpire(Manager, "idle", "idle")
  BY <1>3, ForcedExpireStep
<1>4. CASE Unlink(Manager)
  BY <1>4, UnlinkStep
<1>5. CASE Deleted(Manager, "idle")
  BY <1>5, DeletedStep
<1> QED
  BY <1>1, <1>2, <1>3, <1>4, <1>5 DEF Manage

----------------------------------------------------------------------------
(* The loader, death and time.                                             *)

LEMMA LoaderAddsStep ==
    ASSUME Inv, LoaderAdds
    PROVE  Inv'
<1> USE ActorFacts
<1> DEFINE k == want[Loader]
<1>1. /\ pc[Loader] = "add" /\ Go(Loader, "walk") /\ want' = [want EXCEPT ![Loader] = None]
      /\ UNCHANGED <<boundVars, count, loadVars, now, c, holds, victim>> /\ k \in Keys
  BY DEF LoaderAdds, Inv, Places
<1>2. /\ "walk" \in Labels /\ "walk" \notin Deleting /\ pc[Loader] \notin Deleting
      /\ Keeps /\ UNCHANGED <<site, begun, died, now, c>>
      /\ cold' \in BOOLEAN /\ loading' \in BOOLEAN /\ todo' \subseteq Keys
  BY <1>1, SameFacts DEF Labels, Deleting, Keeps, boundVars, loadVars
<1>3. ASSUME size' \in Int, file' \in [Keys -> {"absent", "fresh", "stale"}],
             node' \in [Nodes -> NodeRecord], MarksKept,
             \/ UNCHANGED treeVars
             \/ \E n \in Nodes : Moves(n) \/ \E k1 \in Keys : Enters(n, k1) /\ ~node'[n].updating
      PROVE  Inv'
  BY <1>1, <1>2, <1>3, Tending
<1>4. ASSUME NEW n \in Of(k), ToHead(n), UNCHANGED <<key, node, size, file>>
      PROVE  Inv'
  <2>1. n \in Nodes /\ Moves(n)
    BY <1>1, <1>4 DEF Of, Moves
  <2> QED
    BY <1>3, <1>4, <2>1, SameFacts
<1>5. ASSUME NEW n \in Free, key' = [key EXCEPT ![n] = k],
             node' = [node EXCEPT ![n] = [NewNode EXCEPT !.exists = TRUE, !.fsSize = 1]],
             queue' = <<n>> \o queue, size' = size + 1, UNCHANGED file
      PROVE  Inv'
  <2> DEFINE x == [NewNode EXCEPT !.exists = TRUE, !.fsSize = 1]
  <2>1. n \in Nodes /\ key[n] = None
    BY <1>5, SiteFacts DEF Free, Inv, Types
  <2>2. x \in NodeRecord /\ ~x.updating
    BY DEF NewNode, NodeRecord
  <2>3. node' = [node EXCEPT ![n] = x]
    BY <1>5
  <2> HIDE DEF x
  <2>4. /\ node' \in [Nodes -> NodeRecord] /\ node'[n] = x
        /\ \A m \in Nodes : m # n => node'[m] = node[m]
    BY <2>1, <2>2, <2>3, SameFacts, NodeWritten
  <2>5. MarksKept /\ ~node'[n].updating
    BY <2>2, <2>4 DEF MarksKept
  <2>6. Enters(n, k)
    BY <1>1, <1>5, <2>1 DEF Enters
  <2>7. size' \in Int /\ file' \in [Keys -> {"absent", "fresh", "stale"}]
    BY <1>5, SameFacts
  <2> HIDE DEF k
  <2> QED
    BY <1>1, <1>3, <2>1, <2>4, <2>5, <2>6, <2>7
<1>6. CASE file' = [file EXCEPT ![k] = "absent"] /\ UNCHANGED <<treeVars, node, size>>
  <2>1. file' \in [Keys -> {"absent", "fresh", "stale"}]
    BY <1>6, SameFacts
  <2> QED
    BY <1>3, <1>6, <2>1, SameFacts
<1> QED
  BY <1>4, <1>5, <1>6 DEF LoaderAdds

LEMMA LoadStep ==
    ASSUME Inv, Load
    PROVE  Inv'
<1> USE ActorFacts
<1>1. ASSUME NEW l \in {"idle", "walk", "add"}, Go(Loader, l), pc[Loader] \in {"idle", "walk"},
             UNCHANGED <<boundVars, treeVars, count, node, size, file, now, c, holds, victim>>,
             NEW k \in Keys \cup {None}, want' = [want EXCEPT ![Loader] = k],
             l = "add" => k \in Keys,
             cold' \in BOOLEAN, loading' \in BOOLEAN, todo' \subseteq Keys
      PROVE  Inv'
  <2>1. l \in Labels /\ l \notin Deleting /\ pc[Loader] \notin Deleting
    BY <1>1 DEF Labels, Deleting
  <2>2. Keeps /\ UNCHANGED <<site, begun, died, now, c>> /\ UNCHANGED treeVars
    BY <1>1 DEF Keeps, boundVars
  <2>3. /\ size' \in Int /\ file' \in [Keys -> {"absent", "fresh", "stale"}]
        /\ node' \in [Nodes -> NodeRecord] /\ MarksKept
    BY <1>1, SameFacts
  <2> QED
    BY <1>1, <2>1, <2>2, <2>3, Tending
<1>2. want[Loader] \in Keys \cup {None} /\ want = [want EXCEPT ![Loader] = want[Loader]]
  BY SameFacts
<1>3. CASE LoaderStarts
  <2>1. cold' \in BOOLEAN /\ loading' \in BOOLEAN /\ todo' \subseteq Keys
    BY <1>3, SameFacts DEF LoaderStarts
  <2> QED
    BY <1>1, <1>2, <1>3, <2>1 DEF LoaderStarts
<1>4. ASSUME NEW k \in Keys, LoaderFinds(k) PROVE Inv'
  <2>1. cold' \in BOOLEAN /\ loading' \in BOOLEAN /\ todo' \subseteq Keys
    BY <1>4, SameFacts DEF LoaderFinds
  <2>2. CASE file[k] = "absent"
    <3>1. Go(Loader, "walk")
      <4>1. pc' = [pc EXCEPT ![Loader] = pc[Loader]]
        BY <1>4, <2>2 DEF LoaderFinds, Inv, Types
      <4> QED
        BY <1>4, <4>1 DEF LoaderFinds, Go
    <3> QED
      BY <1>1, <1>2, <1>4, <2>1, <2>2, <3>1 DEF LoaderFinds
  <2>3. CASE file[k] # "absent"
    BY <1>1, <1>4, <2>1, <2>3 DEF LoaderFinds
  <2> QED
    BY <2>2, <2>3
<1>5. CASE LoaderAdds
  BY <1>5, LoaderAddsStep
<1>6. CASE LoaderEnds
  <2>1. cold' \in BOOLEAN /\ loading' \in BOOLEAN /\ todo' \subseteq Keys
    BY <1>6, SameFacts DEF LoaderEnds
  <2> QED
    BY <1>1, <1>2, <1>6, <2>1 DEF LoaderEnds
<1> QED
  BY <1>3, <1>4, <1>5, <1>6 DEF Load

LEMMA DieStep ==
    ASSUME Inv, NEW a \in Actors, Die(a)
    PROVE  Inv'
<1> USE ActorFacts
<1>1. /\ UNCHANGED <<site, begun, treeVars, count, node, size, cold, loading, file, now>>
      /\ Go(a, "idle") /\ died < site.deaths /\ died' = died + 1
      /\ victim' = [victim EXCEPT ![a] = None] /\ want' = [want EXCEPT ![a] = None]
      /\ holds' = [r \in Requests |-> IF r = a THEN None ELSE holds[r]]
      /\ c' = [r \in Requests |-> IF r = a THEN NewCache ELSE c[r]]
      /\ lost' = [n \in Nodes |-> lost[n] + Counted(a, n)]
      /\ todo' = IF a = Loader THEN {} ELSE todo
  BY DEF Die
<1>2. /\ pc' \in [Actors -> Labels] /\ pc'[a] = "idle"
      /\ \A b \in Actors \ {a} : pc'[b] = pc[b]
  BY <1>1, GoFacts DEF Inv, Labels
<1>3. /\ victim' \in [Actors -> Nodes \cup {None}] /\ victim'[a] = None
      /\ want' \in [Actors -> Keys \cup {None}]
      /\ \A b \in Actors \ {a} : victim'[b] = victim[b] /\ want'[b] = want[b]
  BY <1>1 DEF Inv, Types
<1>4. /\ holds' \in [Requests -> Nodes \cup {None}] /\ (a \in Requests => holds'[a] = None)
      /\ \A q \in Requests \ {a} : holds'[q] = holds[q]
  BY <1>1 DEF Inv, Types
<1>5. /\ c' \in [Requests -> CacheRecord] /\ \A q \in Requests \ {a} : c'[q] = c[q]
  BY <1>1, NewFacts DEF Inv, Types
<1>6. /\ lost' \in [Nodes -> Nat]
      /\ \A n \in Nodes : lost'[n] = 0 => lost[n] = 0 /\ ~(a \in Requests /\ holds[a] = n)
  BY <1>1 DEF Counted, Inv, Types
<1>7. todo' \subseteq Keys /\ died' \in 0 .. site.deaths
  <2>1. site.deaths \in Nat /\ died \in 0 .. site.deaths /\ todo \subseteq Keys
    BY SiteFacts DEF Inv, Types
  <2> QED
    BY <1>1, <2>1
<1>8. Types'
  BY <1>1, <1>2, <1>3, <1>4, <1>5, <1>6, <1>7 DEF Inv, Types, treeVars
<1>9. NodeStep /\ Others(a)
  BY <1>1, <1>2, <1>3, <1>4, <1>5 DEF NodeStep, Others
<1>10. a \in Requests => RequestPlace(a)' /\ (holds'[a] # None => want'[a] = want[a])
  BY <1>2, <1>4 DEF RequestPlace, Looking, Reading
<1>11. victim'[a] # None <=> pc'[a] \in Deleting
  BY <1>2, <1>3 DEF Deleting
<1>12. Marked'
  <2> SUFFICES ASSUME NEW n \in Nodes, key[n] # None, node[n].updating, lost'[n] = 0
               PROVE  \E r \in Requests : /\ holds'[r] = n /\ c'[r].updating
                                          /\ c'[r].lockTime = node[n].lockTime
    BY <1>1 DEF Marked, treeVars
  <2>1. PICK r \in Requests : holds[r] = n /\ c[r].updating /\ c[r].lockTime = node[n].lockTime
    BY <1>6 DEF Inv, Marked
  <2>2. r # a
    BY <1>6, <2>1
  <2> QED
    BY <1>4, <1>5, <2>1, <2>2
<1> QED
  BY <1>2, <1>8, <1>9, <1>10, <1>11, <1>12, ActorStep

LEMMA TimeStep ==
    ASSUME Inv, Time \/ UNCHANGED vars
    PROVE  Inv'
<1>1. /\ UNCHANGED <<boundVars, want, treeVars, count, size, loadVars, pc, c, holds, victim>>
      /\ now' \in 0 .. MaxTime /\ file' \in [Keys -> {"absent", "fresh", "stale"}]
      /\ node' \in [Nodes -> NodeRecord] /\ MarksKept
  <2>0. /\ now \in 0 .. MaxTime /\ file \in [Keys -> {"absent", "fresh", "stale"}]
        /\ node \in [Nodes -> NodeRecord] /\ MaxTime \in Nat
    BY CacheAssumption DEF Inv, Types
  <2>1. CASE Tick
    BY <2>0, <2>1 DEF Tick, MarksKept
  <2>2. ASSUME NEW k \in Keys, FileExpires(k)
        PROVE  file' \in [Keys -> {"absent", "fresh", "stale"}]
    BY <2>0, <2>2 DEF FileExpires
  <2>3. CASE \E k \in Keys : FileExpires(k)
    BY <2>0, <2>2, <2>3 DEF FileExpires, MarksKept
  <2>4. ASSUME NEW n \in Nodes, ErrorExpires(n)
        PROVE  node' \in [Nodes -> NodeRecord] /\ MarksKept
    <3> DEFINE x == [node[n] EXCEPT !.valid = FALSE]
    <3>1. node' = [node EXCEPT ![n] = x]
      BY <2>4 DEF ErrorExpires
    <3>2. x \in NodeRecord /\ x.updating = node[n].updating /\ x.lockTime = node[n].lockTime
      <4>1. node[n] \in NodeRecord
        BY <2>0
      <4> QED
        BY <4>1 DEF NodeRecord
    <3> HIDE DEF x
    <3>3. /\ node' \in [Nodes -> NodeRecord] /\ node'[n] = x
          /\ \A m \in Nodes : m # n => node'[m] = node[m]
      BY <2>0, <3>1, <3>2, NodeWritten
    <3> QED
      BY <3>2, <3>3 DEF MarksKept
  <2>5. CASE \E n \in Nodes : ErrorExpires(n)
    BY <2>0, <2>4, <2>5 DEF ErrorExpires
  <2>6. CASE UNCHANGED vars
    BY <2>0, <2>6 DEF vars, boundVars, treeVars, loadVars, MarksKept
  <2> QED
    BY <2>1, <2>3, <2>5, <2>6 DEF Time
<1>2. Types'
  BY <1>1 DEF Inv, Types, boundVars, treeVars, loadVars
<1>3. NodeStep
  BY <1>1 DEF NodeStep, Keeps, boundVars
<1>4. AllCounted' /\ FreeUnused' /\ HeldUnderKey' /\ QueueExact'
  BY <1>1, <1>2, <1>3, NodesKept
<1>5. Places'
  BY <1>1 DEF Inv, Places, RequestPlace
<1>6. Marked'
  BY <1>1, MarkedKept DEF Inv, boundVars, treeVars
<1> QED
  BY <1>2, <1>4, <1>5, <1>6 DEF Inv

LEMMA InitInv == Init => Inv
<1> SUFFICES ASSUME Init PROVE Inv
  OBVIOUS
<1> USE ActorFacts
<1>1. Types
  <2>1. site.begins \in Nat /\ site.deaths \in Nat /\ site.cold \in BOOLEAN /\ MaxTime \in Nat
    BY SiteFacts, CacheAssumption DEF Init
  <2>2. NewNode \in NodeRecord /\ NewCache \in CacheRecord /\ "idle" \in Labels
    BY NewFacts DEF Labels
  <2>3. /\ key \in [Nodes -> Keys \cup {None}] /\ count \in [Nodes -> Int]
        /\ queue \in Seq(Nodes) /\ lost \in [Nodes -> Nat]
        /\ file \in [Keys -> {"absent", "fresh", "stale"}]
    BY DEF Init
  <2>4. /\ want \in [Actors -> Keys \cup {None}] /\ holds \in [Requests -> Nodes \cup {None}]
        /\ victim \in [Actors -> Nodes \cup {None}]
    BY DEF Init
  <2>5. /\ node \in [Nodes -> NodeRecord] /\ c \in [Requests -> CacheRecord]
        /\ pc \in [Actors -> Labels]
    BY <2>2 DEF Init
  <2>6. site \in Sites /\ cold = site.cold /\ size = 0 /\ loading = FALSE /\ now = 0
        /\ todo = {} /\ begun = 0 /\ died = 0
    BY DEF Init
  <2>7. cold \in BOOLEAN /\ loading \in BOOLEAN
    BY <2>1, <2>6, Zenon
  <2>8. size \in Int /\ todo \subseteq Keys
    BY <2>6
  <2>9. now \in 0 .. MaxTime /\ begun \in 0 .. site.begins /\ died \in 0 .. site.deaths
    BY <2>1, <2>6
  <2> QED
    BY <2>3, <2>4, <2>5, <2>6, <2>7, <2>8, <2>9 DEF Types
<1>2. Places
  BY DEF Init, Places, RequestPlace, Looking, Reading, Deleting
<1>3. AllCounted
  <2> SUFFICES ASSUME NEW n \in Nodes PROVE count[n] = Users(n)
    BY DEF AllCounted
  <2>1. Holders(n) = {} /\ Deleters(n) = {} /\ lost[n] = 0 /\ count[n] = 0
    BY DEF Init, Holders, Deleters
  <2> QED
    BY <2>1, FS_EmptySet DEF Users
<1>4. FreeUnused /\ HeldUnderKey
  BY DEF Init, FreeUnused, HeldUnderKey
<1>5. QueueExact
  BY DEF Init, QueueExact, ToSet, IsInjective
<1>6. Marked
  BY DEF Init, Marked
<1> QED
  BY <1>1, <1>2, <1>3, <1>4, <1>5, <1>6 DEF Inv

LEMMA NextInv == Inv /\ [Next]_vars => Inv'
<1> SUFFICES ASSUME Inv, [Next]_vars PROVE Inv'
  OBVIOUS
<1> USE ActorFacts
<1>1. ASSUME NEW r \in Requests, Proceed(r) PROVE Inv'
  <2>1. r \in Actors /\ r # Loader
    OBVIOUS
  <2>2. CASE MakeRoom(r)
    BY <2>1, <2>2, ForcedExpireStep, UnlinkStep, DeletedStep DEF MakeRoom
  <2>3. CASE Begin(r) \/ Found(r) \/ NotFound(r) \/ Allocate(r)
    BY <2>3, BeginStep, FoundStep, NotFoundStep
  <2>4. CASE OpenFile(r) \/ ReadFile(r) \/ Adopt(r) \/ CheckValid(r) \/ Lock(r) \/ Wake(r)
    BY <2>4, OpenFileStep, ReadFileStep, AdoptStep, CheckValidStep, LockStep, WakeStep
  <2>5. CASE Served(r) \/ NotCached(r) \/ Revalidated(r) \/ Cached(r) \/ Broken(r)
    BY <2>5, EndSteps, CachedStep
  <2>6. CASE Rename(r) \/ Update(r)
    BY <2>6, RenameStep, UpdateStep
  <2> QED
    BY <1>1, <2>2, <2>3, <2>4, <2>5, <2>6 DEF Proceed
<1>2. CASE Manage
  BY <1>2, ManageStep
<1>3. CASE Load
  BY <1>3, LoadStep
<1>4. ASSUME NEW a \in Actors, Die(a) PROVE Inv'
  BY <1>4, DieStep
<1>5. CASE Time \/ UNCHANGED vars
  BY <1>5, TimeStep
<1> QED
  BY <1>1, <1>2, <1>3, <1>4, <1>5 DEF Next

----------------------------------------------------------------------------
(* The theorems.                                                           *)

\* The conjunction of what is proved is an invariant of the file cache.
THEOREM Invariance == Spec => []Inv
BY InitInv, NextInv, PTL DEF Spec

LEMMA InvTypes == Inv => TypeOK
<1> SUFFICES ASSUME Inv PROVE TypeOK
  OBVIOUS
<1>1. \A n \in Nodes : count[n] \in Nat
  BY UsedCounted DEF Inv, Used
<1>2. count \in [Nodes -> Nat]
  BY <1>1 DEF Inv, Types
<1> QED
  BY <1>2 DEF Inv, Types, TypeOK

\* Every variable of the cache has its type; no count of a node's users goes
\* below zero, whoever gives the node back (ngx_http_file_cache_free,
\* ngx_http_file_cache_update, ngx_http_file_cache_delete).
THEOREM TypeCorrect == Spec => []TypeOK
BY Invariance, InvTypes, PTL

\* The queue by which nodes expire and the tree in which they are found have the
\* same nodes, each once, whoever moves, deletes or enters them.
THEOREM QueueCorrect == Spec => []QueueExact
<1>1. Inv => QueueExact
  BY DEF Inv
<1> QED
  BY <1>1, Invariance, PTL

\* The count of a node is the number of the requests that have it, of the processes
\* that unlink its file, and of those that died with it.
THEOREM UsersCounted == Spec => []CountExact
<1>1. Inv => CountExact
  BY DEF Inv, AllCounted, CountExact, Users
<1> QED
  BY <1>1, Invariance, PTL

\* Nobody's node is freed, or given to another key, before it is given back; nor is
\* a node whose file is being unlinked outside of the mutex.
THEOREM NodesKeptForUsers == Spec => []NodeKept
<1>1. Inv => NodeKept
  <2> SUFFICES ASSUME Inv, NEW a \in Actors, victim[a] # None PROVE key[victim[a]] # None
    BY DEF NodeKept, Inv, HeldUnderKey
  <2>1. victim[a] \in Nodes /\ count[victim[a]] >= 1
    BY UsedCounted DEF Inv, Types, Used
  <2> QED
    BY <2>1 DEF Inv, FreeUnused
<1> QED
  BY <1>1, Invariance, PTL

\* A mark of an update on a node is that of a request that has the node, or one of
\* the node's users died.
THEOREM MarksOwned == Spec => []UpdatingByOne
<1>1. Inv => UpdatingByOne
  BY DEF Inv, Marked, UpdatingByOne
<1> QED
  BY <1>1, Invariance, PTL

============================================================================
