-------------------------- MODULE KeepaliveProofs --------------------------
(***************************************************************************)
(* Proofs about an upstream for any finite set of requests, any servers    *)
(* and any fail_timeout.  First of the balancer alone, Peers: types, the   *)
(* exact count of connections, and one probe per fail_timeout.  Then of    *)
(* the balancer wrapped by the keepalive cache: the cache does not change  *)
(* what the balancer does, and every open connection has one owner.        *)
(***************************************************************************)
EXTENDS Keepalive, FiniteSetTheorems, SequenceTheorems,
        WellFoundedInduction, TLAPS

\* The state of the requests.
Local == /\ conf \in Configs
         /\ pc \in [Requests -> Places]
         /\ list \in [Requests -> {1, 2}]
         /\ tried \in [Requests -> SUBSET Peer]
         /\ at \in [Requests -> Peer \cup {0}]
         /\ tries \in [Requests -> 0 .. Len(conf.peer)]
         /\ cached \in [Requests -> BOOLEAN]
         /\ fallen \in [Requests -> BOOLEAN]
         /\ \A r \in Requests : (pc[r] = "trying") <=> (at[r] # 0)

\* The health of the peers.  A probe is a check, so checks are never longer ago.
Health == /\ effective \in [Peer -> Nat] /\ \A p \in Peer : effective[p] <= Weight(p)
          /\ fails \in [Peer -> Nat] /\ \A p \in Peer : fails[p] <= MaxFails(p)
          /\ age \in [Peer -> 0 .. FailTimeout + 1]
          /\ probed \in [Peer -> BOOLEAN]
          /\ quiet \in [Peer -> 0 .. FailTimeout + 1]
          /\ \A p \in Peer : age[p] <= quiet[p]
          /\ Single => \A p \in Peer : fails[p] = 0

\* The counts of connections.
Counts == /\ conns \in [Peer -> Int]
          /\ lost \in [Peer -> Nat]
          /\ ConnsExact

Inv == Local /\ Health /\ Counts

----------------------------------------------------------------------------
\* What a configuration of ngx_http_upstream_init_round_robin looks like.
LEMMA ConfFacts ==
    ASSUME conf \in Configs
    PROVE  /\ Len(conf.peer) \in Nat \ {0}
           /\ Peer = 1 .. Len(conf.peer)
           /\ \A p \in Peer : Weight(p) \in Nat \ {0} /\ MaxFails(p) \in Nat
<1>1. conf.peer \in Seq(PeerConfs)
  BY PeersAssumption
<1>2. Peer = 1 .. Len(conf.peer) /\ Len(conf.peer) \in Nat
  BY <1>1 DEF Peer
<1>3. Peer # {}
  BY PeersAssumption DEF Peer
<1>4. \A p \in Peer : conf.peer[p] \in PeerConfs
  BY <1>1, <1>2
<1>5. \A p \in Peer : Weight(p) \in Nat \ {0} /\ MaxFails(p) \in Nat
  BY <1>4 DEF Weight, MaxFails, PeerConfs
<1> QED
  BY <1>2, <1>3, <1>5

\* A configuration is fixed once it is read.
LEMMA ConfStays ==
    ASSUME conf' = conf
    PROVE  /\ Peer' = Peer /\ Single' = Single
           /\ \A p : Weight(p)' = Weight(p) /\ MaxFails(p)' = MaxFails(p) /\ Down(p)' = Down(p)
BY DEF Peer, Single, Weight, MaxFails, Down

LEMMA ConfStep == [Next]_vars => conf' = conf
<1> SUFFICES ASSUME [Next]_vars PROVE conf' = conf
  OBVIOUS
<1> USE DEF Free, Take, Give
<1>1. ASSUME NEW r \in Requests, NEW failed \in BOOLEAN,
             Start(r) \/ Finish(r) \/ PeerFails(r) \/ BadResponse(r, failed)
      PROVE  conf' = conf
  BY <1>1 DEF Start, Finish, PeerFails, BadResponse
<1>2. ASSUME NEW r \in Requests, Get(r)
      PROVE  conf' = conf
  BY <1>2 DEF Get, GetSingle, GetRoundRobin, GetLeastConn, GetHash, HashMisses, UseBackup, Busy, Revive
<1>3. CASE Tick
  BY <1>3 DEF Tick
<1>4. ASSUME NEW w \in Workers, Die(w)
      PROVE  conf' = conf
  BY <1>4 DEF Die
<1>5. CASE UNCHANGED vars
  BY <1>5 DEF vars
<1> QED
  BY <1>1, <1>2, <1>3, <1>4, <1>5 DEF Next, Step

----------------------------------------------------------------------------
\* The ways in which the code moves a request.
LEMMA DoneLocal ==
    ASSUME Local, conf' = conf, NEW r \in Requests, Done(r)
    PROVE  Local'
<1>1. Peer' = Peer
  BY ConfStays
<1>2. Len(conf.peer) \in Nat
  BY ConfFacts DEF Local
<1> QED
  BY <1>1, <1>2 DEF Local, Done, Places

LEMMA AgainLocal ==
    ASSUME Local, conf' = conf, NEW r \in Requests, NEW n \in 0 .. Len(conf.peer), Again(r, n)
    PROVE  Local'
<1>1. Peer' = Peer
  BY ConfStays
<1> QED
  BY <1>1 DEF Local, Again, Places

LEMMA TakeLocal ==
    ASSUME Local, NEW r \in Requests, NEW p \in Peer, Take(r, p),
           tried' \in [Requests -> SUBSET Peer]
    PROVE  Local'
<1>1. conf' = conf
  BY DEF Take
<1>2. Peer' = Peer
  BY <1>1, ConfStays
<1>3. p # 0
  BY ConfFacts DEF Local
<1>4. cached' \in [Requests -> BOOLEAN]
  BY DEF Take, Local
<1>5. at' \in [Requests -> Peer \cup {0}] /\ pc' \in [Requests -> Places]
  BY DEF Take, Local, Places
<1>6. \A q \in Requests : (pc'[q] = "trying") <=> (at'[q] # 0)
  BY <1>3 DEF Take, Local
<1> QED
  BY <1>1, <1>2, <1>4, <1>5, <1>6 DEF Local, Take

LEMMA EligiblePeers ==
    ASSUME Local, NEW r \in Requests
    PROVE  /\ Eligible(r) \subseteq Peer
           /\ \A p \in Eligible(r) : ~Resting(p)
           /\ Fewest(Eligible(r)) \subseteq Eligible(r)
BY DEF Eligible, List, Fewest

LEMMA GiveLocal ==
    ASSUME Local, NEW r \in Requests, NEW p \in Peer, Give(r, p)
    PROVE  Local'
<1>1. tried' \in [Requests -> SUBSET Peer]
  BY DEF Give, Mark, Local
<1> QED
  BY <1>1, TakeLocal DEF Give

\* The number of tries a request may be left with.
LEMMA TriesType ==
    ASSUME Local, NEW r \in Requests
    PROVE  TriesLeft(r) \in 0 .. Len(conf.peer) /\ TriesLeft(r) + 1 \in 0 .. Len(conf.peer)
<1>1. Len(conf.peer) \in Nat \ {0}
  BY ConfFacts DEF Local
<1>2. tries[r] \in 0 .. Len(conf.peer)
  BY DEF Local
<1> QED
  BY <1>1, <1>2 DEF TriesLeft

----------------------------------------------------------------------------
(* The kinds of steps: what the proofs need to know of each action.        *)

\* A peer of several is chosen; the weights may recover.
Gives(r) == \E p \in Eligible(r) :
    /\ Choosing(r) /\ ~Single
    /\ Give(r, p)
    /\ effective' = effective \/ \E S : effective' = Recovered(S)

\* A peer is given back.
Frees(r) == /\ pc[r] = "trying"
            /\ \E failed \in BOOLEAN : Free(at[r], failed)
            /\ at' = [at EXCEPT ![r] = 0]

\* A request moves on without a peer; a list may be marked live.
Passes(r) == /\ at' = at
             /\ fails' = fails \/ \E l : Revived(l)
             /\ UNCHANGED <<conf, effective, age, probed, conns, quiet, lost>>

LEMMA GetGives ==
    ASSUME Local, NEW r \in Requests, GetRoundRobin(r) \/ GetLeastConn(r) \/ GetHash(r)
    PROVE  Gives(r)
<1>1. CASE GetRoundRobin(r)
  BY <1>1 DEF GetRoundRobin, Gives, Weigh
<1>2. CASE GetLeastConn(r)
  BY <1>2 DEF GetLeastConn, Gives, Weigh, weights, Fewest
<1>3. CASE GetHash(r)
  BY <1>3 DEF GetHash, Gives, weights
<1> QED
  BY <1>1, <1>2, <1>3

LEMMA AnswerFrees ==
    ASSUME Local, NEW r \in Requests, NEW failed \in BOOLEAN,
           Finish(r) \/ PeerFails(r) \/ BadResponse(r, failed)
    PROVE  Frees(r)
BY DEF Finish, PeerFails, BadResponse, Frees, Done, Again

LEMMA OthersPass ==
    ASSUME Local, NEW r \in Requests,
           Start(r) \/ HashMisses(r) \/ UseBackup(r) \/ Busy(r) \/ Revive(r)
    PROVE  Passes(r)
<1>1. pc[r] # "trying" => [at EXCEPT ![r] = 0] = at
  BY DEF Local
<1>2. CASE Start(r) \/ HashMisses(r)
  BY <1>2 DEF Start, HashMisses, Passes, weights, health
<1>3. CASE UseBackup(r)
  BY <1>3 DEF UseBackup, Passes, weights, health
<1>4. CASE Busy(r)
  BY <1>1, <1>4 DEF Busy, Exhausted, Choosing, Passes, weights, Done
<1>5. CASE Revive(r)
  BY <1>1, <1>5 DEF Revive, Passes, weights, Done
<1> QED
  BY <1>2, <1>3, <1>4, <1>5

LEMMA StepKinds ==
    ASSUME Local, [Next]_vars
    PROVE  \/ \E r \in Requests : GetSingle(r) \/ Gives(r) \/ Frees(r) \/ Passes(r)
           \/ \E w \in Workers : Die(w)
           \/ Tick
           \/ UNCHANGED vars
BY GetGives, AnswerFrees, OthersPass DEF Next, Step, Get

----------------------------------------------------------------------------
LEMMA LocalStep ==
    ASSUME Local, [Next]_vars
    PROVE  Local'
<1>0. conf' = conf /\ Peer' = Peer
  BY ConfStep, ConfStays
<1>1. Len(conf.peer) \in Nat \ {0}
  BY ConfFacts DEF Local
<1>2. ASSUME NEW r \in Requests, Start(r) PROVE Local'
  <2>1. tries' \in [Requests -> 0 .. Len(conf.peer)]
    <3>1. conf.tries \in Nat
      BY PeersAssumption DEF Local
    <3> QED
      BY <1>1, <1>2, <3>1 DEF Local, Start, Least
  <2>2. pc' \in [Requests -> Places]
    BY <1>2 DEF Start, Local, Places
  <2>3. \A q \in Requests : (pc'[q] = "trying") <=> (at'[q] # 0)
    BY <1>2 DEF Start, Local
  <2> QED
    BY <1>0, <1>2, <2>1, <2>2, <2>3 DEF Local, Start
<1>3. ASSUME NEW r \in Requests, GetSingle(r) PROVE Local'
  BY <1>3, TakeLocal DEF GetSingle, List, Local
<1>4. ASSUME NEW r \in Requests, GetRoundRobin(r) \/ GetLeastConn(r) \/ GetHash(r) PROVE Local'
  BY <1>4, GetGives, GiveLocal, EligiblePeers DEF Gives
<1>5. ASSUME NEW r \in Requests, HashMisses(r) PROVE Local'
  BY <1>0, <1>5 DEF HashMisses, Local
<1>6. ASSUME NEW r \in Requests, UseBackup(r) PROVE Local'
  <2>1. pc[r] # "trying" /\ pc' = [pc EXCEPT ![r] = "backup"]
    BY <1>6 DEF UseBackup, Exhausted, Choosing
  <2>2. pc' \in [Requests -> Places] /\ \A q \in Requests : (pc'[q] = "trying") <=> (at'[q] # 0)
    BY <1>6, <2>1 DEF UseBackup, Local, Places
  <2> QED
    BY <1>0, <1>6, <2>2 DEF UseBackup, Local
<1>7. ASSUME NEW r \in Requests, Busy(r) PROVE Local'
  <2>1. CASE pc[r] = "backup"
    BY <1>0, <1>7, <2>1 DEF Busy, Local, Places
  <2>2. CASE pc[r] # "backup"
    BY <1>0, <1>7, <2>2, DoneLocal DEF Busy
  <2> QED
    BY <2>1, <2>2
<1>8. ASSUME NEW r \in Requests, Revive(r) \/ Finish(r) PROVE Local'
  BY <1>0, <1>8, DoneLocal DEF Revive, Finish
<1>9. ASSUME NEW r \in Requests, NEW failed \in BOOLEAN, PeerFails(r) \/ BadResponse(r, failed)
      PROVE  Local'
  BY <1>0, <1>9, TriesType, DoneLocal, AgainLocal DEF PeerFails, BadResponse
<1>10. CASE Tick
  BY <1>0, <1>10 DEF Tick, Local, local
<1>11. ASSUME NEW w \in Workers, Die(w) PROVE Local'
  <2>1. \A r \in Requests : \/ pc'[r] = pc[r] /\ at'[r] = at[r]
                            \/ pc'[r] = "idle" /\ at'[r] = 0
    BY <1>11 DEF Die
  <2>2. \A r \in Requests : (pc'[r] = "trying") <=> (at'[r] # 0)
    BY <2>1 DEF Local
  <2>3. pc' \in [Requests -> Places] /\ list' \in [Requests -> {1, 2}]
    BY <1>11 DEF Die, Local, Places
  <2>4. tried' \in [Requests -> SUBSET Peer] /\ at' \in [Requests -> Peer \cup {0}]
    BY <1>11 DEF Die, Local
  <2>5. tries' \in [Requests -> 0 .. Len(conf.peer)]
    BY <1>1, <1>11 DEF Die, Local
  <2>6. cached' \in [Requests -> BOOLEAN] /\ fallen' \in [Requests -> BOOLEAN]
    BY <1>11 DEF Die, Local
  <2> QED
    BY <1>0, <2>2, <2>3, <2>4, <2>5, <2>6 DEF Local
<1>12. CASE UNCHANGED vars
  BY <1>0, <1>12 DEF Local, vars, local
<1> QED
  BY <1>2, <1>3, <1>4, <1>5, <1>6, <1>7, <1>8, <1>9, <1>10, <1>11, <1>12 DEF Next, Step, Get

----------------------------------------------------------------------------
(* Health.                                                                 *)

LEMMA TakeHealth ==
    ASSUME Health, NEW r, NEW p \in Peer, Take(r, p), Failed(p) => age'[p] = 0,
           age' = age \/ age' = [age EXCEPT ![p] = 0],
           probed' \in [Peer -> BOOLEAN],
           effective' \in [Peer -> Nat], \A q \in Peer : effective'[q] <= Weight(q)
    PROVE  Health'
<1>0. conf' = conf /\ Peer' = Peer /\ fails' = fails
  BY ConfStays DEF Take
<1>1. FailTimeout \in Nat
  BY PeersAssumption
<1>2. quiet' = IF Failed(p) THEN [quiet EXCEPT ![p] = 0] ELSE quiet
  BY DEF Take
<1>3. age' \in [Peer -> 0 .. FailTimeout + 1] /\ quiet' \in [Peer -> 0 .. FailTimeout + 1]
  BY <1>1, <1>2 DEF Health
<1>4. \A q \in Peer : age'[q] <= quiet'[q]
  BY <1>1, <1>2 DEF Health
<1> QED
  BY <1>0, <1>3, <1>4, ConfStays DEF Health

LEMMA RecoveredBounds ==
    ASSUME Local, Health, NEW S
    PROVE  Recovered(S) \in [Peer -> Nat] /\ \A p \in Peer : Recovered(S)[p] <= Weight(p)
<1>1. \A p \in Peer : Weight(p) \in Nat
  BY ConfFacts DEF Local
<1> QED
  BY <1>1 DEF Recovered, Least, Health

LEMMA FreeHealth ==
    ASSUME Local, Health, NEW p \in Peer, NEW failed \in BOOLEAN, Free(p, failed)
    PROVE  Health'
<1>0. conf' = conf /\ Peer' = Peer /\ quiet' = quiet
  BY ConfStays DEF Free
<1>1. FailTimeout \in Nat /\ \A q \in Peer : Weight(q) \in Nat \ {0} /\ MaxFails(q) \in Nat
  BY PeersAssumption, ConfFacts DEF Local
<1>2. CASE Single
  BY <1>0, <1>2, ConfStays DEF Free, Health, health
<1>3. CASE ~Single /\ failed
  <2>1. Blame(p)
    BY <1>3 DEF Free
  <2>2. fails' \in [Peer -> Nat] /\ \A q \in Peer : fails'[q] <= MaxFails(q)
    BY <1>1, <2>1 DEF Blame, Least, Health
  <2>3. effective' \in [Peer -> Nat] /\ \A q \in Peer : effective'[q] <= Weight(q)
    <3>1. CASE MaxFails(p) > 0
      <4>1. Share(p) \in Nat
        BY <1>1, <3>1 DEF Share
      <4> QED
        BY <1>1, <2>1, <3>1, <4>1 DEF Blame, Lower, Health
    <3>2. CASE ~(MaxFails(p) > 0)
      BY <2>1, <3>2 DEF Blame, Health
    <3> QED
      BY <3>1, <3>2
  <2>4. /\ age' \in [Peer -> 0 .. FailTimeout + 1] /\ probed' \in [Peer -> BOOLEAN]
        /\ \A q \in Peer : age'[q] <= quiet[q]
    BY <1>1, <2>1 DEF Blame, Health
  <2> QED
    BY <1>0, <1>3, <2>2, <2>3, <2>4, ConfStays DEF Health
<1>4. CASE ~Single /\ ~failed
  <2>1. Clear(p)
    BY <1>4 DEF Free
  <2> QED
    BY <1>0, <1>1, <1>4, <2>1, ConfStays DEF Clear, Health
<1> QED
  BY <1>2, <1>3, <1>4

LEMMA HealthStep ==
    ASSUME Local, Health, [Next]_vars
    PROVE  Health'
<1>0. conf' = conf /\ Peer' = Peer
  BY ConfStep, ConfStays
<1>1. FailTimeout \in Nat /\ \A q \in Peer : MaxFails(q) \in Nat
  BY PeersAssumption, ConfFacts DEF Local
<1>2. ASSUME NEW r \in Requests, GetSingle(r) PROVE Health'
  <2>1. PICK p \in Peer : Take(r, p)
    BY <1>2 DEF GetSingle, List
  <2>2. ~Failed(p)
    BY <1>1, <1>2 DEF GetSingle, Health, Failed
  <2> QED
    BY <1>2, <2>1, <2>2, TakeHealth DEF GetSingle, Health, weights
<1>3. ASSUME NEW r \in Requests, Gives(r) PROVE Health'
  <2>1. PICK p \in Eligible(r) :
           Give(r, p) /\ (effective' = effective \/ \E S : effective' = Recovered(S))
    BY <1>3 DEF Gives
  <2>2. p \in Peer /\ ~Resting(p)
    BY EligiblePeers
  <2>3. Check(p) /\ Take(r, p)
    BY <2>1 DEF Give
  <2>4. age' = age \/ age' = [age EXCEPT ![p] = 0]
    BY <2>3 DEF Check
  <2>5. Failed(p) => age'[p] = 0
    BY <1>1, <2>2, <2>3 DEF Check, Resting, Health
  <2>6. probed' \in [Peer -> BOOLEAN]
    BY <2>3 DEF Check, Health
  <2>7. effective' \in [Peer -> Nat] /\ \A q \in Peer : effective'[q] <= Weight(q)
    BY <2>1, RecoveredBounds DEF Health
  <2> QED
    BY <2>2, <2>3, <2>4, <2>5, <2>6, <2>7, TakeHealth
<1>4. ASSUME NEW r \in Requests, Frees(r) PROVE Health'
  BY <1>4, FreeHealth DEF Frees, Local
<1>5. ASSUME NEW r \in Requests, Passes(r) PROVE Health'
  <2>1. fails' \in [Peer -> Nat] /\ \A p \in Peer : fails'[p] = fails[p] \/ fails'[p] = 0
    BY <1>5 DEF Passes, Revived, Health
  <2> QED
    BY <1>0, <1>1, <1>5, <2>1, ConfStays DEF Passes, Health
<1>6. ASSUME NEW w \in Workers, Die(w) PROVE Health'
  BY <1>0, <1>6, ConfStays DEF Die, Health, weights, health
<1>7. CASE Tick
  <2>1. /\ age' \in [Peer -> 0 .. FailTimeout + 1] /\ quiet' \in [Peer -> 0 .. FailTimeout + 1]
        /\ \A p \in Peer : age'[p] <= quiet'[p]
    BY <1>1, <1>7 DEF Tick, Least, Health
  <2> QED
    BY <1>0, <1>7, <2>1, ConfStays DEF Tick, Health, weights
<1>8. CASE UNCHANGED vars
  BY <1>0, <1>8, ConfStays DEF Health, vars, weights, health
<1> QED
  BY <1>2, <1>3, <1>4, <1>5, <1>6, <1>7, <1>8, StepKinds

----------------------------------------------------------------------------
(* Counts.                                                                 *)

Users(p) == Cardinality({r \in Requests : at[r] = p})

UsersNext(p) == Cardinality({r \in Requests : at'[r] = p})

\* A request that goes from one peer to another changes two counts by one.
LEMMA UsersMoved ==
    ASSUME Local, NEW r \in Requests, NEW x, at' = [at EXCEPT ![r] = x], NEW p
    PROVE  /\ Users(p) \in Nat
           /\ UsersNext(p) = Users(p) - (IF at[r] = p THEN 1 ELSE 0) + (IF x = p THEN 1 ELSE 0)
<1> DEFINE T == {q \in Requests : at[q] = p}
           U == {q \in Requests : at'[q] = p}
           R == T \ {r}
<1>1. IsFiniteSet(T)
  BY PeersAssumption, FS_Subset
<1>2. IsFiniteSet(R) /\ Cardinality(R) = IF r \in T THEN Cardinality(T) - 1 ELSE Cardinality(T)
  BY <1>1, FS_RemoveElement
<1>3. U = IF x = p THEN R \cup {r} ELSE R
  BY DEF Local
<1>4. Cardinality(R \cup {r}) = Cardinality(R) + 1
  BY <1>2, FS_AddElement
<1>5. Cardinality(T) \in Nat /\ Cardinality(R) \in Nat
  BY <1>1, <1>2, FS_CardinalityType
<1>6. r \in T <=> at[r] = p
  OBVIOUS
<1>7. Users(p) = Cardinality(T) /\ UsersNext(p) = Cardinality(U)
  BY DEF Users, UsersNext
<1> HIDE DEF T, U, R
<1> QED
  BY <1>2, <1>3, <1>4, <1>5, <1>6, <1>7

\* What a step has to show.
LEMMA CountsShown ==
    ASSUME conf' = conf, conns' \in [Peer -> Int], lost' \in [Peer -> Nat],
           \A p \in Peer : conns'[p] = UsersNext(p) + lost'[p]
    PROVE  Counts'
BY ConfStays DEF Counts, ConnsExact, UsersNext

LEMMA CountsStep ==
    ASSUME Local, Counts, [Next]_vars
    PROVE  Counts'
<1>0. conf' = conf /\ Peer' = Peer
  BY ConfStep, ConfStays
<1>1. 0 \notin Peer
  BY ConfFacts DEF Local
<1>2. \A p \in Peer : conns[p] = Users(p) + lost[p] /\ conns[p] \in Int /\ lost[p] \in Nat
  BY DEF Counts, ConnsExact, Users
<1>take. ASSUME NEW r \in Requests, NEW p \in Peer, Choosing(r), Take(r, p) PROVE Counts'
  <2>1. at[r] = 0
    BY <1>take DEF Choosing, Local
  <2>2. at' = [at EXCEPT ![r] = p]
    BY <1>take DEF Take
  <2>3. \A q : /\ Users(q) \in Nat
              /\ UsersNext(q) = Users(q) - (IF at[r] = q THEN 1 ELSE 0) + (IF p = q THEN 1 ELSE 0)
    BY <2>2, UsersMoved
  <2>4. \A q \in Peer : UsersNext(q) = Users(q) + (IF p = q THEN 1 ELSE 0) /\ Users(q) \in Nat
    BY <1>1, <2>1, <2>3
  <2> QED
    BY <1>0, <1>2, <1>take, <2>4, CountsShown DEF Take, Counts
<1>leave. ASSUME NEW r \in Requests, at' = [at EXCEPT ![r] = 0], NEW q \in Peer
      PROVE  UsersNext(q) = Users(q) - (IF at[r] = q THEN 1 ELSE 0) /\ Users(q) \in Nat
  <2>1. /\ Users(q) \in Nat
        /\ UsersNext(q) = Users(q) - (IF at[r] = q THEN 1 ELSE 0) + (IF 0 = q THEN 1 ELSE 0)
    BY <1>leave, UsersMoved
  <2> QED
    BY <1>1, <2>1
<1>3. ASSUME NEW r \in Requests, GetSingle(r) PROVE Counts'
  BY <1>take, <1>3 DEF GetSingle, List
<1>4. ASSUME NEW r \in Requests, Gives(r) PROVE Counts'
  BY <1>take, <1>4, EligiblePeers DEF Gives, Give
<1>5. ASSUME NEW r \in Requests, Frees(r) PROVE Counts'
  <2>1. at[r] \in Peer
    BY <1>5 DEF Frees, Local
  <2>2. \A q \in Peer : UsersNext(q) = Users(q) - (IF at[r] = q THEN 1 ELSE 0) /\ Users(q) \in Nat
    BY <1>1, <1>5, <1>leave DEF Frees
  <2>3. conns' = [conns EXCEPT ![at[r]] = @ - 1] /\ lost' = lost
    BY <1>5 DEF Frees, Free
  <2> QED
    BY <1>0, <1>2, <2>1, <2>2, <2>3, CountsShown DEF Counts
<1>6. ASSUME NEW r \in Requests, Passes(r) PROVE Counts'
  BY <1>0, <1>6 DEF Passes, Counts, ConnsExact
<1>7. ASSUME NEW w \in Workers, Die(w) PROVE Counts'
  <2> DEFINE Mine(p) == {r \in Requests : conf.worker[r] = w /\ at[r] = p}
  <2>1. /\ conns' = conns
        /\ lost' = [p \in Peer |-> lost[p] + Cardinality(Mine(p))]
        /\ \A r \in Requests : at'[r] = IF conf.worker[r] = w THEN 0 ELSE at[r]
    <3>1. \A p : {r \in {q \in Requests : conf.worker[q] = w} : at[r] = p} = Mine(p)
      OBVIOUS
    <3> QED
      BY <1>7, <3>1 DEF Die
  <2>2. ASSUME NEW p \in Peer
        PROVE  /\ Cardinality(Mine(p)) \in Nat
               /\ Users(p) = UsersNext(p) + Cardinality(Mine(p)) /\ UsersNext(p) \in Nat
    <3> DEFINE T == {r \in Requests : at[r] = p}
               U == {r \in Requests : at'[r] = p}
    <3>1. T = U \cup Mine(p) /\ U \cap Mine(p) = {}
      BY <1>1, <2>1
    <3>2. IsFiniteSet(U) /\ IsFiniteSet(Mine(p))
      BY PeersAssumption, FS_Subset
    <3>3. Cardinality(U) \in Nat /\ Cardinality(Mine(p)) \in Nat
      BY <3>2, FS_CardinalityType
    <3> HIDE DEF T, U, Mine
    <3>4. Cardinality({}) = 0
      BY FS_EmptySet
    <3>5. Cardinality(T) = Cardinality(U) + Cardinality(Mine(p)) - Cardinality(U \cap Mine(p))
      BY <3>1, <3>2, FS_Union
    <3>6. Cardinality(T) = Cardinality(U) + Cardinality(Mine(p))
      BY <3>1, <3>3, <3>4, <3>5
    <3> QED
      BY <3>3, <3>6 DEF Users, UsersNext, T, U
  <2> HIDE DEF Mine
  <2>3. conns' \in [Peer -> Int] /\ lost' \in [Peer -> Nat]
    BY <1>2, <2>1, <2>2 DEF Counts
  <2>4. \A p \in Peer : conns'[p] = UsersNext(p) + lost'[p]
    BY <1>2, <2>1, <2>2
  <2> QED
    BY <1>0, <2>3, <2>4, CountsShown
<1>8. CASE Tick
  BY <1>0, <1>8 DEF Tick, local, Counts, ConnsExact
<1>9. CASE UNCHANGED vars
  BY <1>0, <1>9 DEF vars, local, Counts, ConnsExact
<1> QED
  BY <1>3, <1>4, <1>5, <1>6, <1>7, <1>8, <1>9, StepKinds

----------------------------------------------------------------------------
(* Theorems.                                                               *)

LEMMA InitInv == Init => Inv
<1> SUFFICES ASSUME Init PROVE Inv
  OBVIOUS
<1>1. conf \in Configs /\ FailTimeout \in Nat
  BY PeersAssumption DEF Init
<1>2. /\ Len(conf.peer) \in Nat /\ 0 \notin Peer
      /\ \A p \in Peer : Weight(p) \in Nat \ {0} /\ MaxFails(p) \in Nat
  BY <1>1, ConfFacts
<1>3. Local
  BY <1>1, <1>2 DEF Init, Local, Places
<1>4. Health
  BY <1>1, <1>2 DEF Init, Health
<1>5. \A p \in Peer : {r \in Requests : at[r] = p} = {}
  BY <1>2 DEF Init
<1>6. Cardinality({}) = 0
  BY FS_EmptySet
<1>7. \A p \in Peer : Cardinality({r \in Requests : at[r] = p}) = 0
  BY <1>5, <1>6
<1>8. Counts
  BY <1>7 DEF Init, Counts, ConnsExact
<1> QED
  BY <1>3, <1>4, <1>8 DEF Inv

LEMMA PeersInvariant == Spec => []Inv
<1>1. Inv /\ [Next]_vars => Inv'
  BY LocalStep, HealthStep, CountsStep DEF Inv
<1> QED
  BY InitInv, <1>1, PTL DEF Spec

\* The types; in particular an effective weight stays between zero and the
\* configured weight, and a count of connections never goes below zero.
THEOREM TypeCorrect == Spec => []TypeOK
<1>1. Inv => TypeOK
  <2> SUFFICES ASSUME Inv PROVE TypeOK
    OBVIOUS
  <2>1. ASSUME NEW p \in Peer PROVE Users(p) \in Nat
    <3>1. IsFiniteSet({r \in Requests : at[r] = p})
      BY PeersAssumption, FS_Subset
    <3> QED
      BY <3>1, FS_CardinalityType DEF Users
  <2>2. \A p \in Peer : conns[p] = Users(p) + lost[p]
    BY DEF Inv, Counts, ConnsExact, Users
  <2>3. conns \in [Peer -> Nat]
    BY <2>1, <2>2 DEF Inv, Counts
  <2> QED
    BY <2>3 DEF Inv, Local, Health, TypeOK
<1> QED
  BY <1>1, PeersInvariant, PTL

\* ConnsExact: whatever way a request ends, its connection is given back to its
\* peer exactly once; only those of dead workers are never given back.
THEOREM ConnectionsCounted == Spec => []ConnsExact
<1>1. Inv => ConnsExact
  BY DEF Inv, Counts
<1> QED
  BY <1>1, PeersInvariant, PTL

\* OneProbe: of all workers, one request per fail_timeout tries a failed peer.
THEOREM ProbedOnce == Spec => OneProbe
<1> DEFINE Probe == \A r \in Requests, p \in Peer :
                       Chosen(r, p) /\ Failed(p) => quiet[p] > FailTimeout
<1>1. Inv /\ [Next]_vars => Probe
  <2> SUFFICES ASSUME Inv, [Next]_vars, NEW r \in Requests, NEW p \in Peer,
                      Chosen(r, p), Failed(p)
               PROVE  quiet[p] > FailTimeout
    OBVIOUS
  <2>0. /\ 0 \notin Peer /\ FailTimeout \in Nat
        /\ \A q \in Peer : MaxFails(q) \in Nat
    BY ConfFacts, PeersAssumption DEF Inv, Local
  <2>1. at' # at /\ at'[r] = p /\ at[r] # p
    BY DEF Chosen
  <2>2. ASSUME NEW q \in Requests, GetSingle(q) PROVE FALSE
    <3>1. \E x \in Peer : Take(q, x) /\ Single
      BY <2>2 DEF GetSingle, List
    <3>2. Single => ~Failed(p)
      BY <2>0 DEF Failed, Inv, Health
    <3> QED
      BY <3>1, <3>2
  <2>3. ASSUME NEW q \in Requests, Gives(q) PROVE ~Resting(p)
    <3>1. PICK x \in Eligible(q) : at' = [at EXCEPT ![q] = x] /\ ~Resting(x)
      BY <2>3, EligiblePeers DEF Gives, Give, Take, Inv
    <3>2. x = p
      BY <2>1, <3>1 DEF Inv, Local
    <3> QED
      BY <3>1, <3>2
  <2>4. ASSUME NEW q \in Requests, Frees(q) PROVE FALSE
    <3>1. at' = [at EXCEPT ![q] = 0]
      BY <2>4 DEF Frees
    <3> QED
      BY <2>0, <2>1, <3>1 DEF Inv, Local
  <2>5. ASSUME NEW w \in Workers, Die(w) PROVE FALSE
    BY <2>0, <2>1, <2>5 DEF Die
  <2>6. ~Resting(p)
    BY <2>1, <2>2, <2>3, <2>4, <2>5, StepKinds DEF Inv, Passes, Tick, vars, local
  <2> QED
    BY <2>0, <2>6 DEF Resting, Inv, Health
<1>2. Inv /\ [Next]_vars => [Probe]_vars
  BY <1>1
<1> QED
  BY <1>2, PeersInvariant, PTL DEF Spec, OneProbe

----------------------------------------------------------------------------
(* Induction over finite sets, and sums.                                   *)

\* A set of naturals with zero, and with the successor of each of its members.
LEMMA SetInduction ==
    ASSUME NEW S, 0 \in S, \A n \in Nat : n \in S => n + 1 \in S
    PROVE  \A n \in Nat : n \in S
<1> SUFFICES ASSUME NEW k \in Nat, k \notin S PROVE FALSE
  OBVIOUS
<1> DEFINE T == {n \in Nat : n \notin S}
<1>1. T \subseteq Nat /\ T # {}
  OBVIOUS
<1> HIDE DEF T
<1>2. PICK x \in T : \A y \in T : ~(<<y, x>> \in OpToRel(<, Nat))
  BY <1>1, NatLessThanWellFounded, WFMin
<1>3. OpToRel(<, Nat) = {ss \in Nat \X Nat : ss[1] < ss[2]}
  BY DEF OpToRel
<1>4. \A y \in T : ~(y < x)
  BY <1>1, <1>2, <1>3
<1>5. x \in Nat /\ x \notin S /\ x # 0
  BY DEF T
<1>6. x - 1 \in Nat /\ x - 1 < x /\ (x - 1) + 1 = x
  BY <1>5
<1>7. x - 1 \in S
  BY <1>4, <1>6 DEF T
<1> QED
  BY <1>5, <1>6, <1>7

Pick(S) == CHOOSE x \in S : TRUE

Sums(f, T, g) == g = [s \in SUBSET T |-> IF s = {} THEN 0
                                          ELSE f[Pick(s)] + g[s \ {Pick(s)}]]

LEMMA SumIs == ASSUME NEW f, NEW S PROVE SumFunctionOnSet(f, S) = (CHOOSE g : Sums(f, S, g))[S]
  BY Zenon DEF SumFunctionOnSet, FoldFunctionOnSet, MapThenFoldSet, Sums, Pick

\* The same for the finite subsets of a set: what holds of the empty set, and of
\* a set with one more element, holds of every finite one.
LEMMA FiniteInduction ==
    ASSUME NEW T, IsFiniteSet(T), NEW F, {} \in F,
           \A s \in SUBSET T : \A x \in T : x \notin s /\ s \in F => s \cup {x} \in F
    PROVE  T \in F
<1> DEFINE N == {n \in Nat : \A s \in SUBSET T : Cardinality(s) = n => s \in F}
<1>1. 0 \in N
  <2>1. ASSUME NEW s \in SUBSET T, Cardinality(s) = 0 PROVE s \in F
    BY <2>1, FS_Subset, FS_EmptySet
  <2> QED
    BY <2>1
<1>2. ASSUME NEW n \in Nat, n \in N PROVE n + 1 \in N
  <2>1. ASSUME NEW s \in SUBSET T, Cardinality(s) = n + 1 PROVE s \in F
    <3>1. IsFiniteSet(s) /\ s # {}
      BY <2>1, FS_Subset, FS_EmptySet
    <3>2. PICK x \in s : TRUE
      BY <3>1
    <3>3. Cardinality(s \ {x}) = n
      <4>1. Cardinality(s \ {x}) = Cardinality(s) - 1
        BY <3>1, FS_RemoveElement
      <4> QED
        BY <4>1, <2>1
    <3>4. s \ {x} \in F
      BY <1>2, <3>3
    <3>5. (s \ {x}) \cup {x} = s
      BY <3>2
    <3> QED
      BY <3>4, <3>5
  <2> QED
    BY <2>1
<1> HIDE DEF N
<1>3. Cardinality(T) \in N
  BY <1>1, <1>2, SetInduction, FS_CardinalityType
<1> QED
  BY <1>3 DEF N

\* The sums over all subsets exist.
LEMMA SumsExist ==
    ASSUME NEW T, IsFiniteSet(T), NEW f
    PROVE  \E g : Sums(f, T, g)
<1> DEFINE Upto(n) == {s \in SUBSET T : Cardinality(s) <= n}
           Good(n, g) == g = [s \in Upto(n) |-> IF s = {} THEN 0
                                                ELSE f[Pick(s)] + g[s \ {Pick(s)}]]
           N == {n \in Nat : \E g : Good(n, g)}
<1>0. ASSUME NEW s \in SUBSET T, s # {}
      PROVE  /\ Pick(s) \in s /\ s \ {Pick(s)} \in SUBSET T
             /\ IsFiniteSet(s) /\ Cardinality(s) \in Nat
             /\ Cardinality(s \ {Pick(s)}) = Cardinality(s) - 1
  <2>1. Pick(s) \in s
    BY <1>0 DEF Pick
  <2>2. IsFiniteSet(s)
    BY FS_Subset
  <2> QED
    BY <2>1, <2>2, FS_RemoveElement, FS_CardinalityType
<1>e. Cardinality({}) = 0
  BY FS_EmptySet
<1>1. 0 \in N
  <2> DEFINE g == [s \in Upto(0) |-> 0]
  <2>1. ASSUME NEW s \in Upto(0) PROVE s = {}
    BY FS_Subset, FS_EmptySet, FS_CardinalityType
  <2>2. Good(0, g)
    BY <2>1
  <2> QED
    BY <2>2
<1>2. ASSUME NEW n \in Nat, n \in N PROVE n + 1 \in N
  <2>1. PICK g : Good(n, g)
    BY <1>2
  <2> DEFINE h == [s \in Upto(n + 1) |-> IF s = {} THEN 0
                                         ELSE f[Pick(s)] + g[s \ {Pick(s)}]]
  <2>2. ASSUME NEW s \in Upto(n) PROVE s \in Upto(n + 1) /\ h[s] = g[s]
    <3>1. IsFiniteSet(s) /\ Cardinality(s) \in Nat
      BY FS_Subset, FS_CardinalityType
    <3>2. s \in Upto(n + 1)
      BY <3>1
    <3> QED
      BY <2>1, <3>2
  <2>3. ASSUME NEW s \in Upto(n + 1), s # {} PROVE s \ {Pick(s)} \in Upto(n)
    BY <2>3, <1>0
  <2>4. ASSUME NEW s \in Upto(n + 1)
        PROVE  h[s] = IF s = {} THEN 0 ELSE f[Pick(s)] + h[s \ {Pick(s)}]
    <3>1. CASE s = {}
      BY <3>1
    <3>2. CASE s # {}
      <4>1. h[s \ {Pick(s)}] = g[s \ {Pick(s)}]
        <5> HIDE DEF h
        <5> QED
          BY <2>2, <2>3, <3>2
      <4> QED
        BY <4>1, <3>2
    <3> QED
      BY <3>1, <3>2
  <2>5. Good(n + 1, h)
    <3>1. h = [s \in Upto(n + 1) |-> h[s]]
      OBVIOUS
    <3> HIDE DEF h, Upto
    <3> QED
      BY <2>4, <3>1
  <2> HIDE DEF h, Good
  <2> QED
    BY <2>5
<1> HIDE DEF N
<1>3. Cardinality(T) \in N
  BY <1>1, <1>2, SetInduction, FS_CardinalityType
<1>4. PICK g : Good(Cardinality(T), g)
  BY <1>3 DEF N
<1>5. Upto(Cardinality(T)) = SUBSET T
  BY FS_Subset
<1> QED
  BY <1>4, <1>5 DEF Sums

\* And are the same whatever set they are taken from.
LEMMA SumsUnique ==
    ASSUME NEW T, IsFiniteSet(T), NEW f, NEW R \in SUBSET T,
           NEW g, Sums(f, T, g), NEW h, Sums(f, R, h)
    PROVE  \A s \in SUBSET R : g[s] = h[s]
<1> DEFINE N == {n \in Nat : \A s \in SUBSET R : Cardinality(s) = n => g[s] = h[s]}
<1>1. 0 \in N
  <2>1. ASSUME NEW s \in SUBSET R, Cardinality(s) = 0 PROVE g[s] = h[s]
    <3>1. s = {} /\ s \in SUBSET T
      BY <2>1, FS_Subset, FS_EmptySet
    <3> QED
      BY <3>1 DEF Sums
  <2> QED
    BY <2>1
<1>2. ASSUME NEW n \in Nat, n \in N PROVE n + 1 \in N
  <2>1. ASSUME NEW s \in SUBSET R, Cardinality(s) = n + 1 PROVE g[s] = h[s]
    <3>1. IsFiniteSet(s) /\ s # {} /\ s \in SUBSET T
      BY <2>1, FS_Subset, FS_EmptySet
    <3>2. Pick(s) \in s
      BY <3>1 DEF Pick
    <3>3. Cardinality(s \ {Pick(s)}) = n
      <4>1. Cardinality(s \ {Pick(s)}) = Cardinality(s) - 1
        BY <3>1, <3>2, FS_RemoveElement
      <4> QED
        BY <4>1, <2>1
    <3>4. g[s \ {Pick(s)}] = h[s \ {Pick(s)}]
      BY <1>2, <3>3
    <3>5. g[s] = f[Pick(s)] + g[s \ {Pick(s)}]
      BY <3>1 DEF Sums
    <3>6. h[s] = f[Pick(s)] + h[s \ {Pick(s)}]
      BY <3>1 DEF Sums
    <3> QED
      BY <3>4, <3>5, <3>6
  <2> QED
    BY <2>1
<1> HIDE DEF N
<1>3. \A n \in Nat : n \in N
  BY <1>1, <1>2, SetInduction
<1>4. ASSUME NEW s \in SUBSET R PROVE g[s] = h[s]
  <2>1. Cardinality(s) \in N
    BY <1>3, FS_Subset, FS_CardinalityType
  <2> QED
    BY <2>1 DEF N
<1> QED
  BY <1>4

\* Any of its elements may be taken out of a sum.
LEMMA SumFacts ==
    ASSUME NEW T, IsFiniteSet(T), NEW f, \A x \in T : f[x] \in Int
    PROVE  /\ SumFunctionOnSet(f, {}) = 0
           /\ \A S \in SUBSET T : SumFunctionOnSet(f, S) \in Int
           /\ \A S \in SUBSET T : \A x \in S :
                 SumFunctionOnSet(f, S) = f[x] + SumFunctionOnSet(f, S \ {x})
<1>1. PICK g : Sums(f, T, g)
  BY SumsExist
<1>2. ASSUME NEW S \in SUBSET T PROVE SumFunctionOnSet(f, S) = g[S]
  <2> DEFINE h == CHOOSE k : Sums(f, S, k)
  <2>1. IsFiniteSet(S)
    BY FS_Subset
  <2>2. Sums(f, S, h)
    BY <2>1, SumsExist
  <2>3. S \in SUBSET S
    OBVIOUS
  <2> HIDE DEF h
  <2>4. g[S] = h[S]
    BY <1>1, <2>2, <2>3, SumsUnique
  <2> QED
    BY <2>4, SumIs DEF h
<1>3. g[{}] = 0
  BY <1>1 DEF Sums
<1>4. ASSUME NEW S \in SUBSET T, S # {}
      PROVE  /\ Pick(S) \in S /\ S \ {Pick(S)} \in SUBSET T
             /\ IsFiniteSet(S) /\ Cardinality(S \ {Pick(S)}) = Cardinality(S) - 1
             /\ g[S] = f[Pick(S)] + g[S \ {Pick(S)}]
  <2>1. Pick(S) \in S
    BY <1>4 DEF Pick
  <2>2. IsFiniteSet(S)
    BY FS_Subset
  <2>3. g[S] = f[Pick(S)] + g[S \ {Pick(S)}]
    BY <1>1, <1>4 DEF Sums
  <2> QED
    BY <2>1, <2>2, <2>3, FS_RemoveElement
<1> DEFINE I == {n \in Nat : \A S \in SUBSET T : Cardinality(S) = n => g[S] \in Int}
<1>5. 0 \in I
  <2>1. ASSUME NEW S \in SUBSET T, Cardinality(S) = 0 PROVE g[S] \in Int
    <3>1. S = {}
      BY <2>1, FS_Subset, FS_EmptySet
    <3> QED
      BY <3>1, <1>3
  <2> QED
    BY <2>1
<1>6. ASSUME NEW n \in Nat, n \in I PROVE n + 1 \in I
  <2>1. ASSUME NEW S \in SUBSET T, Cardinality(S) = n + 1 PROVE g[S] \in Int
    <3>1. S # {}
      BY <2>1, FS_EmptySet
    <3>2. Cardinality(S \ {Pick(S)}) = n
      BY <1>4, <2>1, <3>1
    <3>3. g[S \ {Pick(S)}] \in Int
      BY <1>4, <1>6, <3>1, <3>2
    <3> QED
      BY <1>4, <3>1, <3>3
  <2> QED
    BY <2>1
<1> HIDE DEF I
<1>7. ASSUME NEW S \in SUBSET T PROVE g[S] \in Int
  <2>1. Cardinality(S) \in I
    BY <1>5, <1>6, SetInduction, FS_Subset, FS_CardinalityType
  <2> QED
    BY <2>1 DEF I
<1> DEFINE FromAny(S) == \A x \in S : g[S] = f[x] + g[S \ {x}]
           N == {n \in Nat : \A S \in SUBSET T : Cardinality(S) = n => FromAny(S)}
<1>8. 0 \in N
  <2>1. ASSUME NEW S \in SUBSET T, Cardinality(S) = 0 PROVE FromAny(S)
    <3>1. S = {}
      BY <2>1, FS_Subset, FS_EmptySet
    <3> QED
      BY <3>1
  <2> QED
    BY <2>1
<1>9. ASSUME NEW n \in Nat, n \in N PROVE n + 1 \in N
  <2>0. \A S \in SUBSET T : Cardinality(S) = n => FromAny(S)
    BY <1>9
  <2>1. ASSUME NEW S \in SUBSET T, Cardinality(S) = n + 1, NEW x \in S
        PROVE  g[S] = f[x] + g[S \ {x}]
    <3> DEFINE p == Pick(S)
    <3>1. S # {} /\ IsFiniteSet(S)
      BY FS_Subset
    <3>2. p \in S /\ g[S] = f[p] + g[S \ {p}] /\ S \ {p} \in SUBSET T
      BY <1>4, <3>1
    <3>3. Cardinality(S \ {p}) = n /\ Cardinality(S \ {x}) = n
      <4>1. /\ Cardinality(S \ {p}) = Cardinality(S) - 1
            /\ Cardinality(S \ {x}) = Cardinality(S) - 1
        BY <3>1, <3>2, FS_RemoveElement
      <4> QED
        BY <2>1, <4>1
    <3> HIDE DEF p
    <3>4. CASE x = p
      BY <3>2, <3>4
    <3>5. CASE x # p
      <4>1. g[S \ {p}] = f[x] + g[(S \ {p}) \ {x}]
        BY <2>0, <3>2, <3>3, <3>5
      <4>2. g[S \ {x}] = f[p] + g[(S \ {x}) \ {p}]
        BY <2>0, <3>2, <3>3, <3>5
      <4>3. (S \ {x}) \ {p} = (S \ {p}) \ {x}
        OBVIOUS
      <4> DEFINE a == g[(S \ {p}) \ {x}]
      <4>4. a \in Int /\ f[x] \in Int /\ f[p] \in Int
        BY <1>7, <3>2
      <4>5. g[S \ {p}] = f[x] + a /\ g[S \ {x}] = f[p] + a
        BY <4>1, <4>2, <4>3
      <4> HIDE DEF a
      <4>6. f[p] + (f[x] + a) = f[x] + (f[p] + a)
        BY <4>4
      <4> QED
        BY <3>2, <4>5, <4>6
    <3> QED
      BY <3>4, <3>5
  <2> QED
    BY <2>1
<1> HIDE DEF N
<1>10. ASSUME NEW S \in SUBSET T, NEW x \in S PROVE g[S] = f[x] + g[S \ {x}]
  <2>1. Cardinality(S) \in N
    BY <1>8, <1>9, SetInduction, FS_Subset, FS_CardinalityType
  <2> QED
    BY <2>1 DEF N
<1> QED
  BY <1>2, <1>3, <1>7, <1>10

\* A sum with one more element.
LEMMA SumAdd ==
    ASSUME NEW T, IsFiniteSet(T), NEW f, \A x \in T : f[x] \in Int,
           NEW S \in SUBSET T, NEW x \in T, x \notin S
    PROVE  SumFunctionOnSet(f, S \cup {x}) = f[x] + SumFunctionOnSet(f, S)
<1>1. (S \cup {x}) \ {x} = S /\ S \cup {x} \in SUBSET T
  OBVIOUS
<1> QED
  BY <1>1, SumFacts

LEMMA SumUnion ==
    ASSUME NEW T, IsFiniteSet(T), NEW f, \A x \in T : f[x] \in Int,
           NEW A \in SUBSET T, NEW B \in SUBSET T, A \cap B = {}
    PROVE  SumFunctionOnSet(f, A \cup B) = SumFunctionOnSet(f, A) + SumFunctionOnSet(f, B)
<1> DEFINE F == {s \in SUBSET B :
                    SumFunctionOnSet(f, A \cup s) = SumFunctionOnSet(f, A) + SumFunctionOnSet(f, s)}
<1>1. {} \in F
  <2>1. A \cup {} = A /\ SumFunctionOnSet(f, {}) = 0 /\ SumFunctionOnSet(f, A) \in Int
    BY SumFacts
  <2> QED
    BY <2>1
<1>2. ASSUME NEW s \in SUBSET B, NEW x \in B, x \notin s, s \in F PROVE s \cup {x} \in F
  <2>1. (A \cup s) \cup {x} = A \cup (s \cup {x}) /\ x \notin A \cup s /\ x \in T
        /\ A \cup s \in SUBSET T /\ s \in SUBSET T
    BY <1>2
  <2>2. SumFunctionOnSet(f, (A \cup s) \cup {x}) = f[x] + SumFunctionOnSet(f, A \cup s)
    BY <2>1, SumAdd
  <2>3. SumFunctionOnSet(f, s \cup {x}) = f[x] + SumFunctionOnSet(f, s)
    BY <1>2, <2>1, SumAdd
  <2>4. SumFunctionOnSet(f, s) \in Int /\ SumFunctionOnSet(f, A) \in Int /\ f[x] \in Int
    BY <2>1, SumFacts
  <2>5. SumFunctionOnSet(f, A \cup s) = SumFunctionOnSet(f, A) + SumFunctionOnSet(f, s)
    BY <1>2
  <2>6. SumFunctionOnSet(f, A \cup (s \cup {x})) = f[x] + SumFunctionOnSet(f, A \cup s)
    BY ONLY <2>1, <2>2, Zenon
  <2> DEFINE new == s \cup {x}
  <2> HIDE DEF new
  <2>7. SumFunctionOnSet(f, A \cup new) = SumFunctionOnSet(f, A) + SumFunctionOnSet(f, new)
    BY <2>3, <2>4, <2>5, <2>6 DEF new
  <2> QED
    BY <2>7 DEF new
<1> HIDE DEF F
<1>3. B \in F
  BY <1>1, <1>2, FS_Subset, FiniteInduction
<1> QED
  BY <1>3 DEF F

LEMMA SumNat ==
    ASSUME NEW T, IsFiniteSet(T), NEW f, \A x \in T : f[x] \in Nat, NEW A \in SUBSET T
    PROVE  SumFunctionOnSet(f, A) \in Nat
<1> DEFINE F == {s \in SUBSET A : SumFunctionOnSet(f, s) \in Nat}
<1>1. {} \in F
  BY SumFacts
<1>2. ASSUME NEW s \in SUBSET A, NEW x \in A, x \notin s, s \in F PROVE s \cup {x} \in F
  BY <1>2, SumAdd
<1> HIDE DEF F
<1>3. A \in F
  BY <1>1, <1>2, FS_Subset, FiniteInduction
<1> QED
  BY <1>3 DEF F

\* Each of the sums of two functions is at most M.
LEMMA SumAtMost ==
    ASSUME NEW T, IsFiniteSet(T), NEW f, \A x \in T : f[x] \in Int,
           NEW g, \A x \in T : g[x] \in Int,
           NEW M \in Int, NEW A \in SUBSET T, \A x \in A : f[x] + g[x] <= M
    PROVE  SumFunctionOnSet(f, A) + SumFunctionOnSet(g, A) <= Cardinality(A) * M
<1> DEFINE F == {s \in SUBSET A : SumFunctionOnSet(f, s) + SumFunctionOnSet(g, s)
                                     <= Cardinality(s) * M}
<1>1. {} \in F
  <2>1. SumFunctionOnSet(f, {}) = 0 /\ SumFunctionOnSet(g, {}) = 0 /\ Cardinality({}) = 0
    BY SumFacts, FS_EmptySet
  <2> QED
    BY <2>1
<1>2. ASSUME NEW s \in SUBSET A, NEW x \in A, x \notin s, s \in F PROVE s \cup {x} \in F
  <2> DEFINE k == Cardinality(s)
             a == SumFunctionOnSet(f, s)
             b == SumFunctionOnSet(g, s)
  <2>1. SumFunctionOnSet(f, s \cup {x}) = f[x] + a /\ SumFunctionOnSet(g, s \cup {x}) = g[x] + b
    BY <1>2, SumAdd
  <2>2. Cardinality(s \cup {x}) = k + 1 /\ k \in Nat
    BY <1>2, FS_Subset, FS_AddElement, FS_CardinalityType
  <2>3. a \in Int /\ b \in Int /\ f[x] \in Int /\ g[x] \in Int
    BY SumFacts
  <2>4. a + b <= k * M /\ f[x] + g[x] <= M
    BY <1>2
  <2> HIDE DEF a, b, k
  <2>5. k * M \in Int /\ (k + 1) * M = k * M + M
    BY <2>2
  <2>6. (f[x] + a) + (g[x] + b) <= (k + 1) * M
    BY <2>3, <2>4, <2>5
  <2> QED
    BY <2>1, <2>2, <2>6
<1> HIDE DEF F
<1>3. A \in F
  BY <1>1, <1>2, FS_Subset, FiniteInduction
<1> QED
  BY <1>3 DEF F

\* What a choice does to the weight of x.
Moved(c, e, S, b, E, d, x) == /\ x \notin S => d[x] = c[x]
                              /\ x \in S /\ x # b => d[x] = c[x] + e[x]
                              /\ x = b => d[x] = (c[x] + e[x]) - E

\* What it does to the sum over any of the peers.
LEMMA WeighSums ==
    ASSUME NEW T, IsFiniteSet(T), NEW c, \A x \in T : c[x] \in Int,
           NEW e, \A x \in T : e[x] \in Nat,
           NEW S \in SUBSET T, NEW b \in S, NEW E \in Int, NEW d,
           \A x \in T : Moved(c, e, S, b, E, d, x),
           NEW K \in SUBSET T
    PROVE  SumFunctionOnSet(d, K) = (SumFunctionOnSet(c, K) + SumFunctionOnSet(e, S \cap K))
                                       - IF b \in K THEN E ELSE 0
<1> DEFINE Eq(s) == SumFunctionOnSet(d, s) = (SumFunctionOnSet(c, s) + SumFunctionOnSet(e, S \cap s))
                                                - IF b \in s THEN E ELSE 0
           F == {s \in SUBSET K : Eq(s)}
<1>0. \A x \in T : d[x] \in Int /\ e[x] \in Int
  BY DEF Moved
<1>1. {} \in F
  <2>1. SumFunctionOnSet(d, {}) = 0 /\ SumFunctionOnSet(c, {}) = 0 /\ SumFunctionOnSet(e, {}) = 0
    BY <1>0, SumFacts
  <2>2. S \cap {} = {}
    OBVIOUS
  <2> QED
    BY <2>1, <2>2
<1>2. ASSUME NEW s \in SUBSET K, NEW x \in K, x \notin s, s \in F PROVE s \cup {x} \in F
  <2>0. s \in SUBSET T /\ x \in T /\ S \cap s \in SUBSET T /\ Eq(s)
    BY <1>2
  <2>1. /\ SumFunctionOnSet(d, s \cup {x}) = d[x] + SumFunctionOnSet(d, s)
        /\ SumFunctionOnSet(c, s \cup {x}) = c[x] + SumFunctionOnSet(c, s)
    BY <1>0, <1>2, SumAdd
  <2>2. SumFunctionOnSet(e, S \cap (s \cup {x}))
           = SumFunctionOnSet(e, S \cap s) + IF x \in S THEN e[x] ELSE 0
    <3>1. CASE x \in S
      <4>1. S \cap (s \cup {x}) = (S \cap s) \cup {x}
        BY <3>1
      <4>2. SumFunctionOnSet(e, (S \cap s) \cup {x}) = e[x] + SumFunctionOnSet(e, S \cap s)
        <5> DEFINE r == S \cap s
        <5>1. x \notin r /\ r \in SUBSET T
          BY <1>2, <2>0
        <5>2. x \in T /\ \A y \in T : e[y] \in Int
          BY <1>0, <2>0
        <5> HIDE DEF r
        <5>3. SumFunctionOnSet(e, r \cup {x}) = e[x] + SumFunctionOnSet(e, r)
          BY <5>1, <5>2, SumAdd
        <5> QED
          BY <5>3 DEF r
      <4>3. SumFunctionOnSet(e, S \cap s) \in Int /\ e[x] \in Int
        BY <1>0, <2>0, SumFacts
      <4>4. SumFunctionOnSet(e, S \cap (s \cup {x})) = e[x] + SumFunctionOnSet(e, S \cap s)
        BY ONLY <4>1, <4>2, Zenon
      <4>5. e[x] + SumFunctionOnSet(e, S \cap s) = SumFunctionOnSet(e, S \cap s) + e[x]
        BY <4>3
      <4> QED
        BY ONLY <3>1, <4>4, <4>5, Zenon
    <3>2. CASE x \notin S
      <4>1. S \cap (s \cup {x}) = S \cap s
        BY <3>2
      <4>2. SumFunctionOnSet(e, S \cap s) \in Int
        BY <1>0, <2>0, SumFacts
      <4>3. SumFunctionOnSet(e, S \cap s) + 0 = SumFunctionOnSet(e, S \cap s)
        BY <4>2
      <4> QED
        BY ONLY <3>2, <4>1, <4>3, Zenon
    <3> QED
      BY <3>1, <3>2
  <2>3. /\ SumFunctionOnSet(d, s) \in Int /\ SumFunctionOnSet(c, s) \in Int
        /\ SumFunctionOnSet(e, S \cap s) \in Int /\ c[x] \in Int /\ e[x] \in Int
    BY <1>0, <2>0, SumFacts
  <2>4. Moved(c, e, S, b, E, d, x)
    BY <2>0
  <2>5. b \in s \cup {x} <=> b \in s \/ x = b
    OBVIOUS
  <2>6. x = b => b \notin s /\ x \in S
    BY <1>2
  <2>7. Eq(s \cup {x})
    BY <2>0, <2>1, <2>2, <2>3, <2>4, <2>5, <2>6 DEF Moved
  <2> QED
    BY <2>7
<1> HIDE DEF F
<1>3. K \in F
  BY <1>1, <1>2, FS_Subset, FiniteInduction
<1> QED
  BY <1>3 DEF F

\* The bound on the sum of k of n weights, and how the bounds of k + 1 and of
\* k - m of them make up that of k.
Bound(k, n, M) == (k * (n - k)) * M

LEMMA Multiply == \A a, b, d \in Int : a <= b /\ d >= 0 => d * a <= d * b
  OBVIOUS

LEMMA BoundsAverage ==
    ASSUME NEW k \in Int, NEW n \in Int, NEW m \in Int, NEW M \in Int
    PROVE  /\ Bound(k, n, M) \in Int
           /\ m * Bound(k + 1, n, M) + Bound(k - m, n, M) + (m * (m + 1)) * M
                 = (m + 1) * Bound(k, n, M)
<1>1. m * ((k + 1) * (n - (k + 1))) + (k - m) * (n - (k - m)) + m * (m + 1)
          = (m + 1) * (k * (n - k))
  OBVIOUS
<1> DEFINE x == (k + 1) * (n - (k + 1))
           y == (k - m) * (n - (k - m))
           z == k * (n - k)
<1>2. x \in Int /\ y \in Int /\ z \in Int
  OBVIOUS
<1>3. m * x + y + m * (m + 1) = (m + 1) * z
  BY <1>1
<1> HIDE DEF x, y, z
<1>4. (m * x + y + m * (m + 1)) * M = ((m + 1) * z) * M
  BY <1>3
<1>5. (m * x + y + m * (m + 1)) * M = m * (x * M) + y * M + (m * (m + 1)) * M
  BY <1>2
<1>6. ((m + 1) * z) * M = (m + 1) * (z * M)
  BY <1>2
<1>7. m * (x * M) + y * M + (m * (m + 1)) * M = (m + 1) * (z * M)
  BY <1>4, <1>5, <1>6
<1> QED
  BY <1>2, <1>7 DEF Bound, x, y, z

\* The sum of a set without the winner: X before, u of it of the m eligible
\* ones, whose effective weights add up to v; the winner's weights are P and w.
Pays(k, n, m, M, X, u, v, P, w) ==
    /\ k \in Nat /\ n \in Nat /\ m \in Nat /\ M \in Nat
    /\ X \in Int /\ u \in Int /\ v \in Int /\ P \in Int /\ w \in Int
    /\ X + P <= Bound(k + 1, n, M) /\ X - u <= Bound(k - m, n, M)
    /\ u + v <= m * (P + w) /\ v <= m * M /\ w <= M

LEMMA WinnerPays ==
    ASSUME NEW k, NEW n, NEW m, NEW M, NEW X, NEW u, NEW v, NEW P, NEW w,
           Pays(k, n, m, M, X, u, v, P, w)
    PROVE  X + v <= Bound(k, n, M)
<1>0. /\ k \in Nat /\ n \in Nat /\ m \in Nat /\ M \in Nat
      /\ X \in Int /\ u \in Int /\ v \in Int /\ P \in Int /\ w \in Int
      /\ X + P <= Bound(k + 1, n, M) /\ X - u <= Bound(k - m, n, M)
      /\ u + v <= m * (P + w) /\ v <= m * M /\ w <= M
  BY DEF Pays
<1> USE <1>0
<1> DEFINE F1 == Bound(k + 1, n, M)
           F2 == Bound(k - m, n, M)
           F == Bound(k, n, M)
<1>1. F1 \in Int /\ F2 \in Int /\ F \in Int
  BY BoundsAverage
<1>2. m * F1 + F2 + (m * (m + 1)) * M = (m + 1) * F
  BY BoundsAverage
<1>3. X + P <= F1 /\ X - u <= F2
  OBVIOUS
<1> HIDE DEF F1, F2, F
<1>4. P + w <= F1 - X + M
  BY <1>1, <1>3
<1>5. m * (P + w) <= m * (F1 - X + M)
  BY <1>1, <1>4, Multiply
<1>6. m * (F1 - X + M) = m * F1 - m * X + m * M
  BY <1>1
<1>7. m * v <= m * (m * M)
  BY Multiply
<1>8. m * (m * M) + m * M = (m * (m + 1)) * M
  OBVIOUS
<1> DEFINE a == m * F1
           b == m * X
           d == m * M
           h == m * (m * M)
           j == m * v
           q == m * (P + w)
<1>9. a \in Int /\ b \in Int /\ d \in Int /\ h \in Int /\ j \in Int /\ q \in Int
  BY <1>1
<1>10. q <= a - b + d /\ j <= h /\ u + v <= q /\ v <= d /\ a + F2 + h + d = (m + 1) * F
  <2>1. (m + 1) * F \in Int /\ (m * (m + 1)) * M \in Int
    BY <1>1
  <2> QED
    BY <1>1, <1>2, <1>5, <1>6, <1>7, <1>8, <1>9, <2>1
<1>11. (m + 1) * (X + v) = b + X + j + v
  OBVIOUS
<1> HIDE DEF a, b, d, h, j, q
<1>12. b + X + j + v <= a + F2 + h + d
  BY <1>1, <1>3, <1>9, <1>10
<1>13. (m + 1) * (X + v) <= (m + 1) * F
  BY <1>10, <1>11, <1>12
<1>14. ~(F + 1 <= X + v)
  <2> SUFFICES ASSUME F + 1 <= X + v PROVE FALSE
    OBVIOUS
  <2>1. (m + 1) * (F + 1) <= (m + 1) * (X + v)
    BY <1>1, Multiply
  <2>2. (m + 1) * (F + 1) = (m + 1) * F + m + 1
    BY <1>1
  <2>3. (m + 1) * F \in Int /\ (m + 1) * (X + v) \in Int
    BY <1>1
  <2> QED
    BY <2>1, <2>2, <2>3, <1>13
<1> QED
  BY <1>1, <1>14 DEF F

\* A choice keeps a list balanced: S is who is eligible, b wins and pays.
LEMMA BalanceKept ==
    ASSUME NEW T, IsFiniteSet(T), NEW L \in SUBSET T,
           NEW c, \A x \in T : c[x] \in Int, NEW e, \A x \in T : e[x] \in Nat,
           NEW S \in SUBSET L, NEW b \in S, \A q \in S : c[q] + e[q] <= c[b] + e[b],
           NEW E, E = SumFunctionOnSet(e, S), NEW d,
           \A x \in T : Moved(c, e, S, b, E, d, x),
           SumFunctionOnSet(c, L) = 0,
           NEW M \in Nat, \A q \in L : e[q] <= M,
           \A K \in SUBSET L : SumFunctionOnSet(c, K) <= Bound(Cardinality(K), Cardinality(L), M)
    PROVE  \A K \in SUBSET L : SumFunctionOnSet(d, K) <= Bound(Cardinality(K), Cardinality(L), M)
<1> SUFFICES ASSUME NEW K \in SUBSET L
             PROVE  SumFunctionOnSet(d, K) <= Bound(Cardinality(K), Cardinality(L), M)
  OBVIOUS
<1> DEFINE A == S \cap K
           k == Cardinality(K)
           n == Cardinality(L)
           m == Cardinality(A)
           X == SumFunctionOnSet(c, K)
           u == SumFunctionOnSet(c, A)
           v == SumFunctionOnSet(e, A)
<1>0. \A x \in T : e[x] \in Int
  OBVIOUS
<1>1. /\ A \in SUBSET T /\ K \in SUBSET T /\ S \in SUBSET T /\ b \in T /\ b \in L
      /\ K \ A \in SUBSET T /\ K \ A \in SUBSET L /\ S \ K \in SUBSET T
  OBVIOUS
<1>2. /\ IsFiniteSet(L) /\ IsFiniteSet(K) /\ IsFiniteSet(A)
      /\ k \in Nat /\ n \in Nat /\ m \in Nat
  BY <1>1, FS_Subset, FS_CardinalityType
<1>3. X \in Int /\ u \in Int /\ E \in Int /\ c[b] \in Int /\ e[b] \in Nat
  BY <1>0, <1>1, SumFacts
<1>4. v \in Nat
  BY <1>1, SumNat
<1>5. SumFunctionOnSet(d, K) = (X + v) - IF b \in K THEN E ELSE 0
  BY <1>1, <1>3, WeighSums
<1>6. X <= Bound(k, n, M) /\ Bound(k, n, M) \in Int
  <2>1. X <= Bound(k, n, M)
    OBVIOUS
  <2> HIDE DEF X, k, n
  <2>2. Bound(k, n, M) \in Int
    BY <1>2, BoundsAverage
  <2> QED
    BY <2>1, <2>2
<1>7. CASE b \in K
  <2>1. E = v + SumFunctionOnSet(e, S \ K)
    <3>1. A \cup (S \ K) = S /\ A \cap (S \ K) = {}
      OBVIOUS
    <3> DEFINE B == S \ K
    <3> HIDE DEF A, B
    <3>2. SumFunctionOnSet(e, A \cup B) = SumFunctionOnSet(e, A) + SumFunctionOnSet(e, B)
      BY <1>0, <1>1, <3>1, SumUnion DEF B
    <3> QED
      BY ONLY <3>1, <3>2, E = SumFunctionOnSet(e, S), Zenon DEF B
  <2>2. SumFunctionOnSet(e, S \ K) \in Nat
    BY <1>1, SumNat
  <2> HIDE DEF X, v, k, n
  <2>3. SumFunctionOnSet(d, K) <= X
    BY <1>3, <1>4, <1>5, <1>7, <2>1, <2>2
  <2> QED
    BY <1>3, <1>4, <1>5, <1>6, <1>7, <2>1, <2>2 DEF k, n
<1>8. CASE b \notin K
  <2>1. X + c[b] <= Bound(k + 1, n, M)
    <3>1. SumFunctionOnSet(c, K \cup {b}) = c[b] + X
      BY <1>1, <1>8, SumAdd
    <3>2. Cardinality(K \cup {b}) = k + 1 /\ K \cup {b} \in SUBSET L
      BY <1>1, <1>2, <1>8, FS_AddElement
    <3>3. SumFunctionOnSet(c, K \cup {b}) <= Bound(Cardinality(K \cup {b}), n, M)
      BY <3>2
    <3> HIDE DEF X, k, n
    <3>4. c[b] + X <= Bound(k + 1, n, M)
      BY <3>1, <3>2, <3>3
    <3>5. c[b] + X = X + c[b]
      BY <1>3
    <3> QED
      BY <3>4, <3>5
  <2>2. X - u <= Bound(k - m, n, M)
    <3>1. A \cup (K \ A) = K /\ A \cap (K \ A) = {}
      OBVIOUS
    <3> DEFINE B == K \ A
    <3>2. B \in SUBSET L /\ B \in SUBSET T
      BY <1>1
    <3>3. Cardinality(B) = k - m
      <4>1. K \cap A = A
        OBVIOUS
      <4> HIDE DEF A
      <4>2. Cardinality(K \ A) = Cardinality(K) - Cardinality(K \cap A)
        BY <1>2, FS_Difference
      <4> QED
        BY <4>1, <4>2
    <3>4. SumFunctionOnSet(c, B) <= Bound(Cardinality(B), n, M)
      BY <3>2
    <3> HIDE DEF A, B
    <3>5. SumFunctionOnSet(c, A \cup B) = SumFunctionOnSet(c, A) + SumFunctionOnSet(c, B)
      BY <1>1, <3>1, <3>2, SumUnion DEF B
    <3>6. X = u + SumFunctionOnSet(c, B)
      BY <3>1, <3>5 DEF B
    <3>7. SumFunctionOnSet(c, B) \in Int
      BY <3>2, SumFacts
    <3> HIDE DEF X, u, k, m, n
    <3>8. X - u = SumFunctionOnSet(c, B)
      BY <1>3, <3>6, <3>7
    <3> QED
      BY <3>3, <3>4, <3>8
  <2>3. u + v <= m * (c[b] + e[b])
    <3>1. \A x \in A : c[x] + e[x] <= c[b] + e[b]
      OBVIOUS
    <3>2. c[b] + e[b] \in Int
      BY <1>3
    <3> HIDE DEF A
    <3> QED
      BY <1>0, <1>1, <3>1, <3>2, SumAtMost
  <2>4. v <= m * M
    <3> DEFINE z == [x \in T |-> 0]
    <3>1. \A x \in T : z[x] \in Int
      OBVIOUS
    <3>2. \A x \in A : e[x] + z[x] <= M
      BY <1>0
    <3>3. SumFunctionOnSet(z, A) \in Nat
      BY <1>1, SumNat
    <3> HIDE DEF A, z
    <3>4. SumFunctionOnSet(e, A) + SumFunctionOnSet(z, A) <= Cardinality(A) * M
      BY <1>0, <1>1, <3>1, <3>2, SumAtMost
    <3>5. m * M \in Int
      BY <1>2
    <3> QED
      BY <1>4, <3>3, <3>4, <3>5
  <2>5. e[b] <= M
    BY <1>1
  <2> HIDE DEF X, u, v, k, m, n
  <2> DEFINE P == c[b]
             w == e[b]
  <2> HIDE DEF P, w
  <2>p. /\ P \in Int /\ w \in Int /\ X + P <= Bound(k + 1, n, M)
        /\ u + v <= m * (P + w) /\ w <= M
    BY <1>3, <2>1, <2>3, <2>5 DEF P, w
  <2>6. X + v <= Bound(k, n, M)
    <3>1. Pays(k, n, m, M, X, u, v, P, w)
      BY <2>p, <1>2, <1>3, <1>4, <2>2, <2>4 DEF Pays
    <3> QED
      BY ONLY <3>1, WinnerPays
  <2>7. SumFunctionOnSet(d, K) = X + v
    BY <1>3, <1>4, <1>5, <1>8
  <2> QED
    BY <2>6, <2>7 DEF k, n
<1> QED
  BY <1>7, <1>8

----------------------------------------------------------------------------
(* The current weights.                                                    *)

\* They add up to zero over a list, and to no more than the bound over any part
\* of it.
Zero(l) == SumFunctionOnSet(current, List(l)) = 0

Within(l) == \A M \in Nat : (\A q \in List(l) : Weight(q) <= M) =>
                \A K \in SUBSET List(l) :
                   SumFunctionOnSet(current, K) <= Bound(Cardinality(K), Cardinality(List(l)), M)

Balanced == /\ current \in [Peer -> Int]
            /\ \A l \in {1, 2} : Zero(l) /\ Within(l)

\* A step weighs the eligible peers of one list, or leaves the weights alone.
Weighs(S, b) == /\ \E l \in {1, 2} : S \subseteq List(l)
                /\ b \in S
                /\ Wins(b, S)
                /\ Weigh(S, b)

LEMMA WeighKinds ==
    ASSUME Local, [Next]_vars
    PROVE  UNCHANGED current \/ \E S, b : Weighs(S, b)
<1>1. ASSUME NEW r \in Requests, GetRoundRobin(r) PROVE \E S, b : Weighs(S, b)
  <2>1. PICK b \in Eligible(r) : Wins(b, Eligible(r)) /\ Weigh(Eligible(r), b)
    BY <1>1 DEF GetRoundRobin
  <2>2. list[r] \in {1, 2} /\ Eligible(r) \subseteq List(list[r])
    BY DEF Local, Eligible
  <2> QED
    BY <2>1, <2>2 DEF Weighs
<1>2. ASSUME NEW r \in Requests, GetLeastConn(r)
      PROVE  UNCHANGED current \/ \E S, b : Weighs(S, b)
  <2> DEFINE S == Fewest(Eligible(r))
  <2>1. PICK b \in S : Wins(b, S) /\ IF S = {b} THEN UNCHANGED weights ELSE Weigh(S, b)
    BY <1>2 DEF GetLeastConn
  <2>2. list[r] \in {1, 2} /\ S \subseteq List(list[r])
    BY DEF Local, Eligible, Fewest
  <2> HIDE DEF S
  <2> QED
    BY <2>1, <2>2 DEF Weighs, weights
<1>3. ASSUME NEW r \in Requests,
             GetSingle(r) \/ GetHash(r) \/ HashMisses(r) \/ UseBackup(r) \/ Busy(r) \/ Revive(r)
      PROVE  UNCHANGED current
  BY <1>3 DEF GetSingle, GetHash, HashMisses, UseBackup, Busy, Revive, weights
<1>4. ASSUME NEW r \in Requests, NEW failed \in BOOLEAN,
             Start(r) \/ Finish(r) \/ PeerFails(r) \/ BadResponse(r, failed)
      PROVE  UNCHANGED current
  BY <1>4 DEF Start, Finish, PeerFails, BadResponse, Free, weights
<1>5. ASSUME NEW w \in Workers, Die(w) PROVE UNCHANGED current
  BY <1>5 DEF Die, weights
<1>6. Tick \/ UNCHANGED vars => UNCHANGED current
  BY DEF Tick, vars, weights
<1> QED
  BY <1>1, <1>2, <1>3, <1>4, <1>5, <1>6 DEF Next, Step, Get

\* What a choice does to a list: to its own, as S is a part of it, and to the
\* other one, of which S has no peer.
LEMMA ListBalanced ==
    ASSUME Inv, Balanced, conf' = conf, NEW S, NEW b, Weighs(S, b), NEW l \in {1, 2}
    PROVE  Zero(l)' /\ Within(l)'
<1> DEFINE L == List(l)
           E == SumFunctionOnSet(effective, S)
<1>0. Peer' = Peer /\ L' = L /\ \A q : Weight(q)' = Weight(q)
  BY ConfStays DEF List
<1>1. IsFiniteSet(Peer) /\ L \in SUBSET Peer /\ S \in SUBSET Peer /\ b \in S
  <2>1. Peer = 1 .. Len(conf.peer) /\ Len(conf.peer) \in Nat
    BY ConfFacts DEF Inv, Local
  <2>2. IsFiniteSet(Peer)
    BY <2>1, FS_Interval
  <2> QED
    BY <2>2 DEF List, Weighs
<1>2. /\ \A x \in Peer : current[x] \in Int /\ effective[x] \in Nat
      /\ \A x \in Peer : effective[x] <= Weight(x) /\ Weight(x) \in Nat
  BY ConfFacts DEF Inv, Local, Health, Balanced
<1>3. \A x \in Peer : Moved(current, effective, S, b, E, current', x)
  <2>1. current' = [p \in Peer |-> IF p \notin S THEN current[p]
                                   ELSE Raised(p) - IF p = b THEN E ELSE 0]
    BY DEF Weighs, Weigh
  <2>2. E \in Int
    BY <1>1, <1>2, SumFacts
  <2> HIDE DEF E
  <2>3. ASSUME NEW x \in Peer PROVE Moved(current, effective, S, b, E, current', x)
    <3>1. Raised(x) \in Int /\ Raised(x) = current[x] + effective[x]
      BY <1>2 DEF Raised
    <3>2. /\ x \notin S => current'[x] = current[x]
          /\ x \in S /\ x # b => current'[x] = Raised(x) - 0
          /\ x = b => current'[x] = Raised(x) - E
      BY <1>1, <2>1
    <3>3. Raised(x) - 0 = Raised(x)
      BY <3>1
    <3>4. x \notin S => current'[x] = current[x]
      BY <3>2
    <3>5. x \in S /\ x # b => current'[x] = current[x] + effective[x]
      BY <3>1, <3>2, <3>3
    <3>6. x = b => current'[x] = (current[x] + effective[x]) - E
      BY <3>1, <3>2
    <3> QED
      BY <3>4, <3>5, <3>6, Zenon DEF Moved
  <2> QED
    BY <2>3
<1>4. S \in SUBSET L \/ S \cap L = {}
  BY DEF Weighs, List
<1>5. Zero(l) /\ Within(l)
  BY DEF Balanced
<1>6. E \in Int
  BY <1>1, <1>2, SumFacts
<1> HIDE DEF L
<1>7. ASSUME NEW K \in SUBSET L
      PROVE  SumFunctionOnSet(current', K)
                = (SumFunctionOnSet(current, K) + SumFunctionOnSet(effective, S \cap K))
                     - IF b \in K THEN E ELSE 0
  <2> HIDE DEF E
  <2>1. K \in SUBSET Peer
    BY <1>1
  <2> QED
    BY <1>1, <1>2, <1>3, <1>6, <2>1, WeighSums
<1>8. CASE S \in SUBSET L
  <2>1. SumFunctionOnSet(current', L) = 0
    <3>1. S \cap L = S /\ b \in L
      BY <1>1, <1>8
    <3>2. SumFunctionOnSet(current, L) = 0
      BY <1>5 DEF Zero, L
    <3> QED
      BY <1>6, <1>7, <3>1, <3>2
  <2>2. ASSUME NEW M \in Nat, \A q \in L : Weight(q) <= M
        PROVE  \A K \in SUBSET L :
                  SumFunctionOnSet(current', K) <= Bound(Cardinality(K), Cardinality(L), M)
    <3>1. \A q \in S : current[q] + effective[q] <= current[b] + effective[b]
      <4>1. \A q \in S : Raised(q) \in Int /\ Raised(q) <= Raised(b)
        BY <1>1, <1>2 DEF Weighs, Wins, Raised
      <4> QED
        BY <4>1 DEF Raised
    <3>2. \A q \in L : effective[q] <= M
      BY <1>1, <1>2, <2>2
    <3>3. SumFunctionOnSet(current, L) = 0
      BY <1>5 DEF Zero, L
    <3>4. \A K \in SUBSET L :
             SumFunctionOnSet(current, K) <= Bound(Cardinality(K), Cardinality(L), M)
      BY <1>5, <2>2 DEF Within, L
    <3>5. E = SumFunctionOnSet(effective, S)
      OBVIOUS
    <3> HIDE DEF E
    <3> QED
      BY <1>1, <1>2, <1>3, <1>8, <3>1, <3>2, <3>3, <3>4, <3>5, BalanceKept
  <2> QED
    BY <1>0, <2>1, <2>2 DEF Zero, Within, L
<1>9. CASE S \cap L = {}
  <2>1. ASSUME NEW K \in SUBSET L
        PROVE  SumFunctionOnSet(current', K) = SumFunctionOnSet(current, K)
    <3>1. S \cap K = {} /\ b \notin K /\ K \in SUBSET Peer
      BY <1>1, <1>9
    <3>2. SumFunctionOnSet(effective, {}) = 0 /\ SumFunctionOnSet(current, K) \in Int
      BY <1>1, <1>2, <3>1, SumFacts
    <3> QED
      BY <1>7, <3>1, <3>2
  <2> QED
    BY <1>0, <1>5, <2>1 DEF Zero, Within, L
<1> QED
  BY <1>4, <1>8, <1>9

LEMMA BalancedStep == Inv /\ Balanced /\ [Next]_vars => Balanced'
<1> SUFFICES ASSUME Inv, Balanced, [Next]_vars PROVE Balanced'
  OBVIOUS
<1>1. conf' = conf /\ Peer' = Peer
  BY ConfStep, ConfStays
<1>2. CASE UNCHANGED current
  BY <1>1, <1>2 DEF Balanced, Zero, Within, List, Weight
<1>3. ASSUME NEW S, NEW b, Weighs(S, b) PROVE Balanced'
  <2>1. \A l \in {1, 2} : Zero(l)' /\ Within(l)'
    BY <1>1, <1>3, ListBalanced
  <2>2. current' \in [Peer -> Int]
    <3>1. IsFiniteSet(Peer) /\ S \in SUBSET Peer
      <4>1. Peer = 1 .. Len(conf.peer) /\ Len(conf.peer) \in Nat
        BY ConfFacts DEF Inv, Local
      <4> QED
        BY <1>3, <4>1, FS_Interval DEF Weighs, List
    <3>2. SumFunctionOnSet(effective, S) \in Int
      BY <3>1, SumFacts DEF Inv, Health
    <3> QED
      BY <1>3, <3>2 DEF Weighs, Weigh, Raised, Inv, Health, Balanced
  <2> QED
    BY <1>1, <2>1, <2>2 DEF Balanced
<1> QED
  BY <1>2, <1>3, WeighKinds DEF Inv

LEMMA BalancedInit == Init => Balanced
<1> SUFFICES ASSUME Init PROVE Balanced
  OBVIOUS
<1>1. IsFiniteSet(Peer)
  <2>1. Peer = 1 .. Len(conf.peer) /\ Len(conf.peer) \in Nat
    BY ConfFacts DEF Init
  <2> QED
    BY <2>1, FS_Interval
<1>2. current \in [Peer -> Int] /\ \A p \in Peer : current[p] = 0
  BY DEF Init
<1>3. ASSUME NEW K \in SUBSET Peer PROVE SumFunctionOnSet(current, K) = 0
  <2> DEFINE F == {s \in SUBSET K : SumFunctionOnSet(current, s) = 0}
  <2>1. {} \in F
    BY <1>1, <1>2, SumFacts
  <2>2. ASSUME NEW s \in SUBSET K, NEW x \in K, x \notin s, s \in F PROVE s \cup {x} \in F
    <3>1. SumFunctionOnSet(current, s \cup {x}) = current[x] + SumFunctionOnSet(current, s)
      BY <1>1, <1>2, <2>2, SumAdd
    <3> QED
      BY <1>2, <2>2, <3>1
  <2> HIDE DEF F
  <2>3. K \in F
    BY <1>1, <2>1, <2>2, FS_Subset, FiniteInduction
  <2> QED
    BY <2>3 DEF F
<1>4. ASSUME NEW l \in {1, 2}, NEW K \in SUBSET List(l), NEW M \in Nat
      PROVE  0 <= Bound(Cardinality(K), Cardinality(List(l)), M)
  <2> DEFINE k == Cardinality(K)
             n == Cardinality(List(l))
  <2>1. k \in Nat /\ n \in Nat /\ k <= n
    <3>1. List(l) \in SUBSET Peer
      BY DEF List
    <3>2. IsFiniteSet(List(l))
      BY <1>1, <3>1, FS_Subset
    <3>3. IsFiniteSet(K) /\ k <= n
      BY <3>2, FS_Subset
    <3> QED
      BY <3>2, <3>3, FS_CardinalityType
  <2> HIDE DEF k, n
  <2>2. k * (n - k) \in Nat
    <3>1. n - k \in Nat
      BY <2>1
    <3> QED
      BY <2>1, <3>1
  <2>3. (k * (n - k)) * M \in Nat
    BY <2>2
  <2> QED
    BY <2>3 DEF Bound, k, n
<1>5. \A l \in {1, 2} : List(l) \in SUBSET Peer
  BY DEF List
<1> QED
  BY <1>2, <1>3, <1>4, <1>5 DEF Balanced, Zero, Within

LEMMA BalancedInvariant == Spec => [](Inv /\ Balanced)
<1>1. Init => Inv /\ Balanced
  BY InitInv, BalancedInit
<1>2. (Inv /\ Balanced) /\ [Next]_vars => (Inv /\ Balanced)'
  BY LocalStep, HealthStep, CountsStep, BalancedStep DEF Inv
<1> QED
  BY <1>1, <1>2, PTL DEF Spec

\* A list has a peer of the largest weight.
LEMMA Heaviest ==
    ASSUME Inv, NEW l \in {1, 2}, NEW p \in List(l)
    PROVE  \E q \in List(l) : \A x \in List(l) : Weight(x) <= Weight(q)
<1> DEFINE L == List(l)
           F == {s \in SUBSET L : s = {} \/ \E q \in s : \A x \in s : Weight(x) <= Weight(q)}
<1>1. IsFiniteSet(L) /\ \A x \in L : Weight(x) \in Nat
  <2>1. Peer = 1 .. Len(conf.peer) /\ Len(conf.peer) \in Nat /\ \A x \in Peer : Weight(x) \in Nat
    BY ConfFacts DEF Inv, Local
  <2>2. IsFiniteSet(Peer)
    BY <2>1, FS_Interval
  <2> QED
    BY <2>1, <2>2, FS_Subset DEF List
<1> HIDE DEF L
<1>2. {} \in F
  OBVIOUS
<1>3. ASSUME NEW s \in SUBSET L, NEW x \in L, x \notin s, s \in F PROVE s \cup {x} \in F
  <2>1. CASE s = {}
    <3>1. x \in s \cup {x} /\ \A y \in s \cup {x} : Weight(y) <= Weight(x)
      BY <1>1, <2>1
    <3> QED
      BY <3>1
  <2>2. CASE s # {}
    <3>1. PICK q \in s : \A y \in s : Weight(y) <= Weight(q)
      BY <1>3, <2>2
    <3>2. CASE Weight(x) <= Weight(q)
      <4>1. q \in s \cup {x} /\ \A y \in s \cup {x} : Weight(y) <= Weight(q)
        BY <3>1, <3>2
      <4> QED
        BY <4>1
    <3>3. CASE ~(Weight(x) <= Weight(q))
      <4>1. \A y \in s \cup {x} : Weight(y) \in Nat
        BY <1>1
      <4>2. x \in s \cup {x} /\ \A y \in s \cup {x} : Weight(y) <= Weight(x)
        BY <3>1, <3>3, <4>1
      <4> QED
        BY <4>2
    <3> QED
      BY <3>2, <3>3
  <2> QED
    BY <2>1, <2>2
<1> HIDE DEF F
<1>4. L \in F
  BY <1>1, <1>2, <1>3, FiniteInduction
<1>5. L # {}
  BY DEF L
<1> QED
  BY <1>4, <1>5 DEF F, L

\* WeightsBalanced: whoever is eligible when, and whatever failures do to the
\* effective weights, no list drifts: its current weights add up to zero, and none
\* is further from zero than n - 1 times the largest weight of its n peers.
THEOREM WeightsStayBalanced == Spec => []WeightsBalanced
<1>1. Inv /\ Balanced => WeightsBalanced
  <2> SUFFICES ASSUME Inv, Balanced, NEW l \in {1, 2}, NEW p \in List(l)
               PROVE  \E q \in List(l) :
                         LET bound == (Cardinality(List(l)) - 1) * Weight(q)
                         IN  -bound <= current[p] /\ current[p] <= bound
    BY DEF WeightsBalanced, Balanced, Zero
  <2> DEFINE L == List(l)
             n == Cardinality(L)
             R == L \ {p}
  <2>1. PICK q \in List(l) : \A x \in List(l) : Weight(x) <= Weight(q)
    BY Heaviest
  <2>2. IsFiniteSet(Peer) /\ L \in SUBSET Peer /\ p \in Peer /\ q \in Peer
    <3>1. Peer = 1 .. Len(conf.peer) /\ Len(conf.peer) \in Nat
      BY ConfFacts DEF Inv, Local
    <3> QED
      BY <3>1, FS_Interval DEF List
  <2>3. Weight(q) \in Nat /\ current \in [Peer -> Int]
    BY <2>2, ConfFacts DEF Inv, Local, Balanced
  <2> DEFINE M == Weight(q)
  <2>4. IsFiniteSet(L) /\ n \in Nat /\ Cardinality(R) = n - 1 /\ R \in SUBSET L /\ {p} \in SUBSET L
    BY <2>2, FS_Subset, FS_CardinalityType, FS_RemoveElement
  <2>5. \A K \in SUBSET L : SumFunctionOnSet(current, K) <= Bound(Cardinality(K), n, M)
    BY <2>1, <2>3 DEF Balanced, Within
  <2>6. SumFunctionOnSet(current, L) = 0
    BY DEF Balanced, Zero
  <2>7. Cardinality({p}) = 1
    BY FS_Singleton
  <2>8. SumFunctionOnSet(current, {p}) = current[p]
    <3>1. SumFunctionOnSet(current, {}) = 0
      BY <2>2, <2>3, SumFacts
    <3>2. {} \cup {p} = {p}
      OBVIOUS
    <3>3. SumFunctionOnSet(current, {} \cup {p}) = current[p] + SumFunctionOnSet(current, {})
      BY <2>2, <2>3, SumAdd
    <3> QED
      BY <2>2, <2>3, <3>1, <3>2, <3>3
  <2>9. SumFunctionOnSet(current, L) = current[p] + SumFunctionOnSet(current, R)
    BY <2>2, <2>3, SumFacts
  <2>10. SumFunctionOnSet(current, R) \in Int /\ current[p] \in Int
    BY <2>2, <2>3, <2>4, SumFacts
  <2>11. SumFunctionOnSet(current, {p}) <= Bound(1, n, M)
    BY <2>4, <2>5, <2>7
  <2>12. SumFunctionOnSet(current, R) <= Bound(n - 1, n, M)
    BY <2>4, <2>5
  <2> HIDE DEF L, n, R, M
  <2>13. Bound(1, n, M) = (n - 1) * M /\ Bound(n - 1, n, M) = (n - 1) * M
    <3>1. M \in Nat
      BY <2>3 DEF M
    <3>2. 1 * (n - 1) = n - 1 /\ (n - 1) * (n - (n - 1)) = n - 1
      BY <2>4
    <3> QED
      BY <3>2 DEF Bound
  <2>14. (n - 1) * M \in Int
    BY <2>3, <2>4 DEF M
  <2>15. -((n - 1) * M) <= current[p] /\ current[p] <= (n - 1) * M
    BY <2>6, <2>8, <2>9, <2>10, <2>11, <2>12, <2>13, <2>14
  <2> QED
    BY <2>1, <2>15 DEF L, n, M
<1> QED
  BY <1>1, BalancedInvariant, PTL

----------------------------------------------------------------------------
(* The keepalive cache.                                                    *)

\* Whatever the cache does is a step of the balancer or none of its business.
LEMMA KStepIsStep == [KNext]_kvars => [Next]_vars
<1> SUFFICES ASSUME [KNext]_kvars PROVE [Next]_vars
  OBVIOUS
<1>1. ASSUME NEW r \in Requests, KStart(r) \/ KStep(r) PROVE Next
  <2>1. Start(r) \/ Step(r)
    BY <1>1 DEF KStart, KStep, KGet, KFinish, KPeerFails, KBadResponse, Step
  <2> QED
    BY <2>1 DEF Next
<1>2. CASE KTick
  BY <1>2 DEF KTick, Next
<1>3. ASSUME NEW w \in Workers, KDie(w) PROVE Next
  BY <1>3 DEF KDie, Next
<1>4. ASSUME NEW w \in Workers, CloseIdle(w) PROVE UNCHANGED vars
  BY <1>4 DEF CloseIdle
<1>5. CASE UNCHANGED kvars
  BY <1>5 DEF kvars
<1> QED
  BY <1>1, <1>2, <1>3, <1>4, <1>5 DEF KNext

\* ngx_http_upstream_keepalive_module only wraps get and free: seen without the
\* connections, an upstream with a cache is an upstream as Peers describes it.
THEOREM WrapsBalancer == KSpec => Spec
<1>1. KInit => Init
  BY DEF KInit
<1> QED
  BY <1>1, KStepIsStep, PTL DEF KSpec, Spec

\* So connections are counted exactly, kept ones too: a kept connection is not
\* counted while nobody uses it, and is counted again when it is handed out.
THEOREM KeptCounted == KSpec => []ConnsExact
BY WrapsBalancer, ConnectionsCounted, PTL

\* And kept connections do not let more than one request per fail_timeout reach
\* a failed server.
THEOREM KeptProbedOnce == KSpec => OneProbe
BY WrapsBalancer, ProbedOnce

\* And no current weight drifts with a cache either.
THEOREM KeptBalanced == KSpec => []WeightsBalanced
BY WrapsBalancer, WeightsStayBalanced, PTL

----------------------------------------------------------------------------
(* Lists of connections.                                                   *)

LEMMA Positions ==
    ASSUME NEW T, NEW s \in Seq(T)
    PROVE  /\ Len(s) \in Nat /\ DOMAIN s = 1 .. Len(s)
           /\ \A i \in 1 .. Len(s) : s[i] \in T
           /\ ToSet(s) \subseteq T
           /\ \A i \in DOMAIN s : s[i] \in ToSet(s)
<1>1. Len(s) \in Nat /\ DOMAIN s = 1 .. Len(s) /\ \A i \in 1 .. Len(s) : s[i] \in T
  BY LenProperties, ElementOfSeq
<1> QED
  BY <1>1 DEF ToSet

\* Removing one of them leaves the others.
LEMMA RemoveAtElements ==
    ASSUME NEW T, NEW s \in Seq(T), IsInjective(s), NEW i \in DOMAIN s
    PROVE  /\ RemoveAt(s, i) \in Seq(T) /\ Len(RemoveAt(s, i)) = Len(s) - 1
           /\ IsInjective(RemoveAt(s, i))
           /\ ToSet(RemoveAt(s, i)) = ToSet(s) \ {s[i]}
<1> DEFINE a == SubSeq(s, 1, i - 1)
           b == SubSeq(s, i + 1, Len(s))
           t == a \o b
           From(k) == IF k < i THEN k ELSE k + 1
<1>1. Len(s) \in Nat /\ DOMAIN s = 1 .. Len(s) /\ i \in 1 .. Len(s)
      /\ \A k \in 1 .. Len(s) : s[k] \in T
  BY Positions
<1>2. /\ a \in Seq(T) /\ Len(a) = i - 1 /\ \A k \in 1 .. i - 1 : a[k] = s[k]
  <2>1. \A k \in 1 .. i - 1 : s[k] \in T
    BY <1>1
  <2>2. 1 \in Int /\ i - 1 \in Int
    BY <1>1
  <2>3. /\ a \in Seq(T) /\ Len(a) = IF 1 <= i - 1 THEN (i - 1) - 1 + 1 ELSE 0
        /\ \A k \in 1 .. (i - 1) - 1 + 1 : a[k] = s[1 + k - 1]
    BY <2>1, <2>2, SubSeqProperties
  <2> HIDE DEF a
  <2> QED
    BY <1>1, <2>3
<1>3. /\ b \in Seq(T) /\ Len(b) = Len(s) - i /\ \A k \in 1 .. Len(s) - i : b[k] = s[i + k]
  <2>1. \A k \in i + 1 .. Len(s) : s[k] \in T
    BY <1>1
  <2>2. i + 1 \in Int /\ Len(s) \in Int
    BY <1>1
  <2>3. /\ b \in Seq(T) /\ Len(b) = IF i + 1 <= Len(s) THEN Len(s) - (i + 1) + 1 ELSE 0
        /\ \A k \in 1 .. Len(s) - (i + 1) + 1 : b[k] = s[(i + 1) + k - 1]
    BY <2>1, <2>2, SubSeqProperties
  <2> HIDE DEF b
  <2>4. Len(s) - (i + 1) + 1 = Len(s) - i /\ \A k \in 1 .. Len(s) - i : (i + 1) + k - 1 = i + k
    BY <1>1
  <2>5. Len(b) = Len(s) - i
    BY <1>1, <2>3
  <2> QED
    BY <2>3, <2>4, <2>5
<1> HIDE DEF a, b
<1>4. /\ t \in Seq(T) /\ Len(t) = Len(a) + Len(b)
      /\ \A k \in 1 .. Len(a) + Len(b) : t[k] = IF k <= Len(a) THEN a[k] ELSE b[k - Len(a)]
  BY <1>2, <1>3, ConcatProperties
<1> HIDE DEF t
<1>5. DOMAIN t = 1 .. Len(s) - 1 /\ Len(t) = Len(s) - 1
  BY <1>1, <1>2, <1>3, <1>4, LenProperties
<1>6. ASSUME NEW k \in 1 .. Len(s) - 1
      PROVE  t[k] = s[From(k)] /\ From(k) \in 1 .. Len(s) /\ From(k) # i
  <2>1. CASE k < i
    BY <1>1, <1>2, <1>3, <1>4, <2>1
  <2>2. CASE ~(k < i)
    <3>1. t[k] = b[k - Len(a)] /\ k - Len(a) = k - i + 1 /\ k - i + 1 \in 1 .. Len(s) - i
      BY <1>1, <1>2, <1>3, <1>4, <2>2
    <3>2. b[k - i + 1] = s[i + (k - i + 1)] /\ i + (k - i + 1) = k + 1
      BY <1>1, <1>3, <3>1
    <3> QED
      BY <1>1, <2>2, <3>1, <3>2
  <2> QED
    BY <2>1, <2>2
<1>7. \A k, l \in 1 .. Len(s) - 1 : From(k) = From(l) => k = l
  BY <1>1
<1>8. \A j \in 1 .. Len(s) : j # i => \E k \in 1 .. Len(s) - 1 : From(k) = j
  <2> SUFFICES ASSUME NEW j \in 1 .. Len(s), j # i
               PROVE  \E k \in 1 .. Len(s) - 1 : From(k) = j
    OBVIOUS
  <2>1. CASE j < i
    <3>1. j \in 1 .. Len(s) - 1 /\ From(j) = j
      BY <1>1, <2>1
    <3> QED
      BY <3>1
  <2>2. CASE ~(j < i)
    <3>1. j - 1 \in 1 .. Len(s) - 1 /\ From(j - 1) = j
      BY <1>1, <2>2
    <3> QED
      BY <3>1
  <2> QED
    BY <2>1, <2>2
<1> HIDE DEF From
<1>9. IsInjective(t)
  BY <1>1, <1>5, <1>6, <1>7 DEF IsInjective
<1>10. ToSet(t) \subseteq ToSet(s) \ {s[i]}
  BY <1>1, <1>5, <1>6 DEF IsInjective, ToSet
<1>11. ToSet(s) \ {s[i]} \subseteq ToSet(t)
  <2> SUFFICES ASSUME NEW j \in 1 .. Len(s), s[j] # s[i] PROVE s[j] \in ToSet(t)
    BY <1>1 DEF ToSet
  <2>1. PICK k \in 1 .. Len(s) - 1 : From(k) = j
    BY <1>8
  <2> QED
    BY <1>5, <1>6, <2>1 DEF ToSet
<1> QED
  BY <1>4, <1>5, <1>9, <1>10, <1>11 DEF t, RemoveAt, a, b

\* A connection put before the others.
LEMMA PutFirst ==
    ASSUME NEW T, NEW c \in T, NEW s \in Seq(T), c \notin ToSet(s), IsInjective(s)
    PROVE  /\ <<c>> \o s \in Seq(T) /\ (<<c>> \o s)[1] = c
           /\ Len(<<c>> \o s) = Len(s) + 1
           /\ IsInjective(<<c>> \o s) /\ ToSet(<<c>> \o s) = {c} \cup ToSet(s)
<1> DEFINE t == <<c>> \o s
<1>1. <<c>> \in Seq(T) /\ Len(<<c>>) = 1 /\ <<c>>[1] = c
  OBVIOUS
<1>2. Len(s) \in Nat /\ DOMAIN s = 1 .. Len(s)
  BY Positions
<1>3. /\ t \in Seq(T) /\ Len(t) = 1 + Len(s)
      /\ \A k \in 1 .. 1 + Len(s) : t[k] = IF k <= 1 THEN <<c>>[k] ELSE s[k - 1]
  BY <1>1, ConcatProperties
<1> HIDE DEF t
<1>4. DOMAIN t = 1 .. Len(s) + 1 /\ t[1] = c
      /\ \A k \in 2 .. Len(s) + 1 : k - 1 \in DOMAIN s /\ t[k] = s[k - 1]
  BY <1>1, <1>2, <1>3, LenProperties
<1>5. ASSUME NEW k \in DOMAIN t, NEW l \in DOMAIN t, t[k] = t[l] PROVE k = l
  <2>1. \A j \in DOMAIN s : s[j] # c
    BY DEF ToSet
  <2>2. CASE k = 1 \/ l = 1
    BY <1>2, <1>4, <1>5, <2>1, <2>2
  <2>3. CASE k # 1 /\ l # 1
    <3>1. k \in 2 .. Len(s) + 1 /\ l \in 2 .. Len(s) + 1
      BY <1>2, <1>4, <2>3
    <3>2. k - 1 = l - 1
      BY <1>4, <1>5, <3>1 DEF IsInjective
    <3> QED
      BY <1>2, <3>1, <3>2
  <2> QED
    BY <2>2, <2>3
<1>6. ToSet(t) \subseteq {c} \cup ToSet(s)
  <2> SUFFICES ASSUME NEW k \in DOMAIN t, k # 1 PROVE t[k] \in ToSet(s)
    BY <1>4 DEF ToSet
  <2>1. k \in 2 .. Len(s) + 1
    BY <1>2, <1>4
  <2> QED
    BY <1>4, <2>1 DEF ToSet
<1>7. {c} \cup ToSet(s) \subseteq ToSet(t)
  <2>1. c \in ToSet(t)
    BY <1>2, <1>4 DEF ToSet
  <2>2. ASSUME NEW j \in DOMAIN s PROVE s[j] \in ToSet(t)
    <3>1. j + 1 \in DOMAIN t /\ j + 1 \in 2 .. Len(s) + 1 /\ (j + 1) - 1 = j
      BY <1>2, <1>4
    <3>2. t[j + 1] = s[j]
      BY <1>4, <3>1
    <3> QED
      BY <3>1, <3>2 DEF ToSet
  <2> QED
    BY <2>1, <2>2 DEF ToSet
<1> QED
  BY <1>2, <1>3, <1>4, <1>5, <1>6, <1>7 DEF t, IsInjective

\* The first n, and those behind the first one.
LEMMA FirstElements ==
    ASSUME NEW T, NEW s \in Seq(T), IsInjective(s), NEW n \in 1 .. Len(s)
    PROVE  LET t == SubSeq(s, 1, n)
           IN /\ t \in Seq(T) /\ Len(t) = n /\ IsInjective(t) /\ ToSet(t) \subseteq ToSet(s)
              /\ Tail(t) \in Seq(T) /\ Len(Tail(t)) = n - 1 /\ IsInjective(Tail(t))
              /\ s[1] \in ToSet(t) /\ ToSet(Tail(t)) = ToSet(t) \ {s[1]}
<1> DEFINE t == SubSeq(s, 1, n)
<1>1. Len(s) \in Nat /\ DOMAIN s = 1 .. Len(s) /\ \A k \in 1 .. Len(s) : s[k] \in T
  BY Positions
<1>2. \A k \in 1 .. n : s[k] \in T
  BY <1>1
<1>3. /\ t \in Seq(T) /\ Len(t) = IF 1 <= n THEN n - 1 + 1 ELSE 0
      /\ \A k \in 1 .. n - 1 + 1 : t[k] = s[1 + k - 1]
  <2>1. 1 \in Int /\ n \in Int
    OBVIOUS
  <2> QED
    BY <1>2, <2>1, SubSeqProperties
<1> HIDE DEF t
<1>4. Len(t) = n /\ DOMAIN t = 1 .. n /\ \A k \in 1 .. n : k \in DOMAIN s /\ t[k] = s[k]
  BY <1>1, <1>3, LenProperties
<1>5. IsInjective(t) /\ ToSet(t) \subseteq ToSet(s)
  BY <1>4 DEF IsInjective, ToSet
<1>6. t # <<>>
  BY <1>4, EmptySeq
<1> DEFINE u == Tail(t)
<1>7. /\ u \in Seq(T) /\ Len(u) = Len(t) - 1
      /\ \A k \in 1 .. Len(u) : u[k] = t[k + 1]
  BY <1>3, <1>6, HeadTailProperties
<1> HIDE DEF u
<1>8. Len(u) = n - 1 /\ DOMAIN u = 1 .. n - 1
      /\ \A k \in 1 .. n - 1 : k + 1 \in 1 .. n /\ k + 1 # 1 /\ u[k] = s[k + 1]
  BY <1>4, <1>7, LenProperties
<1>9. ASSUME NEW k \in DOMAIN u, NEW l \in DOMAIN u, u[k] = u[l] PROVE k = l
  <2>1. k + 1 = l + 1
    BY <1>4, <1>8, <1>9 DEF IsInjective
  <2> QED
    BY <1>8, <2>1
<1>10. s[1] \in ToSet(t) /\ ToSet(u) \subseteq ToSet(t) \ {s[1]}
  <2>1. 1 \in DOMAIN t /\ t[1] = s[1] /\ 1 \in DOMAIN s
    BY <1>4
  <2>2. ASSUME NEW k \in DOMAIN u PROVE u[k] \in ToSet(t) /\ u[k] # s[1]
    <3>1. k + 1 \in DOMAIN t /\ t[k + 1] = u[k] /\ k + 1 \in DOMAIN s /\ k + 1 # 1
      BY <1>4, <1>8
    <3> QED
      BY <1>4, <2>1, <3>1 DEF IsInjective, ToSet
  <2> QED
    BY <2>1, <2>2 DEF ToSet
<1>11. ToSet(t) \ {s[1]} \subseteq ToSet(u)
  <2> SUFFICES ASSUME NEW k \in DOMAIN t, k # 1 PROVE t[k] \in ToSet(u)
    BY <1>4 DEF ToSet
  <2>1. k - 1 \in DOMAIN u /\ (k - 1) + 1 = k
    BY <1>4, <1>8
  <2>2. u[k - 1] = t[k]
    BY <1>4, <1>8, <2>1
  <2> QED
    BY <2>1, <2>2 DEF ToSet
<1> QED
  BY <1>3, <1>4, <1>5, <1>7, <1>8, <1>9, <1>10, <1>11 DEF t, u, IsInjective

----------------------------------------------------------------------------
(* The owners of the connections.                                          *)

Connected == /\ IsFiniteSet(Open) /\ Open \subseteq Nat \ {0}
             /\ connection \in [Requests -> Nat]
             /\ cache \in [Workers -> Seq(Nat \ {0})]
             /\ \A r \in Requests : connection[r] # 0 => at[r] # 0
             /\ KeptApart

\* There is a number that no open connection has.
LEMMA UnusedIsFree ==
    ASSUME IsFiniteSet(Open)
    PROVE  Unused \in Nat \ {0} /\ Unused \notin Open
<1> DEFINE n == Cardinality(Open)
<1>1. n \in Nat
  BY FS_CardinalityType
<1>2. IsFiniteSet(1 .. n + 1) /\ Cardinality(1 .. n + 1) = n + 1
  <2>1. 1 \in Int /\ n + 1 \in Int /\ (n + 1) - 1 + 1 = n + 1 /\ ~(1 > n + 1)
    BY <1>1
  <2> HIDE DEF n
  <2> QED
    BY <2>1, FS_Interval
<1>3. ASSUME 1 .. n + 1 \subseteq Open PROVE FALSE
  <2>1. Cardinality(1 .. n + 1) <= n
    BY <1>3, FS_Subset
  <2> QED
    BY <1>1, <1>2, <2>1
<1>4. \E c \in 1 .. n + 1 : c \notin Open
  BY <1>3
<1>5. Unused \in 1 .. n + 1 /\ Unused \notin Open
  BY <1>4 DEF Unused
<1> QED
  BY <1>1, <1>5

\* What the requests of R and worker w's cache hold.
Own(R, w) == ({connection[q] : q \in R} \ {0}) \cup ToSet(cache[w])

\* Connections move between some requests and the cache of one worker, new ones
\* come and some are closed: if each of those that stay has one place there, all
\* connections have one owner again.
LEMMA OwnersMove ==
    ASSUME Connected, conf' = conf,
           NEW R \in SUBSET Requests, NEW w \in Workers,
           NEW x \in [Requests -> Nat], connection' = x,
           NEW k \in Seq(Nat \ {0}), cache' = [cache EXCEPT ![w] = k],
           \A q \in Requests \ R : x[q] = connection[q] /\ at'[q] = at[q],
           \A p, q \in R : x[p] = x[q] => p = q \/ x[p] = 0,
           IsInjective(k), \A q \in R : x[q] \notin ToSet(k),
           Len(k) <= conf.keepalive,
           NEW After, After = ({x[q] : q \in R} \ {0}) \cup ToSet(k),
           After \cap Open \subseteq Own(R, w),
           Open' = (Open \ Own(R, w)) \cup After,
           IsFiniteSet(Open'),
           \A c \in Open \ Own(R, w) : server'[c] = server[c],
           \A q \in R : x[q] # 0 => at'[q] # 0 /\ server'[x[q]] = at'[q]
    PROVE  Connected'
<1> DEFINE Held == Own(R, w)
<1>0. /\ OneOwner /\ RightServer /\ Open \subseteq Nat \ {0}
      /\ connection \in [Requests -> Nat] /\ cache \in [Workers -> Seq(Nat \ {0})]
      /\ \A r \in Requests : connection[r] # 0 => at[r] # 0
      /\ \A v \in Workers : Len(cache[v]) <= conf.keepalive
  BY DEF Connected, KeptApart
<1>1. /\ cache' \in [Workers -> Seq(Nat \ {0})] /\ cache'[w] = k
      /\ \A v \in Workers \ {w} : cache'[v] = cache[v]
  BY <1>0
<1>2. \A v \in Workers : ToSet(cache[v]) \subseteq Nat \ {0} /\ ToSet(cache[v]) \subseteq Open
  BY <1>0, Positions DEF OneOwner
<1>3. ToSet(k) \subseteq Nat \ {0}
  BY Positions
<1>4. ASSUME NEW q \in Requests \ R, x[q] # 0
      PROVE  /\ x[q] = connection[q] /\ x[q] \in Open /\ x[q] \notin Held
             /\ \A r \in R : x[r] # x[q]
             /\ x[q] \notin ToSet(k)
             /\ \A v \in Workers : x[q] \notin ToSet(cache'[v])
             /\ server'[x[q]] = at'[q] /\ at'[q] # 0
             /\ \A r \in Requests \ R : x[r] = x[q] => r = q
  <2>1. x[q] = connection[q] /\ x[q] \in Open /\ \A v \in Workers : x[q] \notin ToSet(cache[v])
    BY <1>0, <1>4 DEF OneOwner
  <2>2. x[q] \notin Held
    BY <1>0, <1>4, <2>1 DEF OneOwner, Own
  <2>3. x[q] \notin After
    BY <2>1, <2>2
  <2>4. (\A r \in R : x[r] # x[q]) /\ x[q] \notin ToSet(k)
    BY <1>4, <2>3
  <2>5. server'[x[q]] = server[x[q]] /\ at'[q] = at[q]
    BY <2>1, <2>2
  <2>6. server[x[q]] = at[q] /\ at[q] # 0
    BY <1>0, <1>4, <2>1 DEF RightServer
  <2>7. \A r \in Requests \ R : x[r] = x[q] => r = q
    BY <1>0, <1>4, <2>1 DEF OneOwner
  <2> QED
    BY <1>1, <2>1, <2>2, <2>4, <2>5, <2>6, <2>7
<1>5. ASSUME NEW v \in Workers \ {w}, NEW c \in ToSet(cache[v])
      PROVE  /\ c \in Open /\ c \notin Held /\ c \notin ToSet(k) /\ c \notin {x[q] : q \in R}
             /\ c # 0
  <2>1. c \in Open /\ c # 0 /\ c \notin ToSet(cache[w])
    BY <1>2, <1>5, <1>0 DEF OneOwner
  <2>2. c \notin {connection[q] : q \in R}
    BY <1>0, <1>5 DEF OneOwner
  <2>3. c \notin Held
    BY <2>1, <2>2 DEF Own
  <2> QED
    BY <2>1, <2>3
<1>6. ASSUME NEW r \in Requests, NEW q \in Requests, x[r] = x[q], x[r] # 0 PROVE r = q
  BY <1>4, <1>6
<1>7. ASSUME NEW v \in Workers
      PROVE  /\ IsInjective(cache'[v])
             /\ \A r \in Requests : x[r] \notin ToSet(cache'[v])
             /\ \A u \in Workers \ {v} : ToSet(cache'[u]) \cap ToSet(cache'[v]) = {}
  <2>1. IsInjective(cache'[v])
    BY <1>0, <1>1 DEF OneOwner
  <2>2. ASSUME NEW r \in Requests PROVE x[r] \notin ToSet(cache'[v])
    <3>1. CASE x[r] = 0
      BY <1>1, <1>2, <1>3, <3>1
    <3>2. CASE x[r] # 0 /\ r \notin R
      BY <1>4, <3>2
    <3>3. CASE r \in R
      BY <1>1, <1>5, <3>3
    <3> QED
      BY <3>1, <3>2, <3>3
  <2>3. ASSUME NEW u \in Workers \ {v} PROVE ToSet(cache'[u]) \cap ToSet(cache'[v]) = {}
    <3>1. CASE u # w /\ v # w
      BY <1>0, <1>1, <3>1 DEF OneOwner
    <3>2. CASE u = w
      BY <1>1, <1>5, <3>2
    <3>3. CASE v = w
      BY <1>1, <1>5, <3>3
    <3> QED
      BY <3>1, <3>2, <3>3
  <2> QED
    BY <2>1, <2>2, <2>3
<1> DEFINE All == ({connection'[r] : r \in Requests} \ {0}) \cup UNION {ToSet(cache'[v]) : v \in Workers}
<1>8. Open' \subseteq All
  <2> SUFFICES ASSUME NEW c \in Open' PROVE c \in All
    OBVIOUS
  <2>1. CASE c \in After
    BY <1>1, <2>1
  <2>2. CASE c \in Open \ Held
    <3>1. CASE c \in {connection[r] : r \in Requests} \ {0}
      <4>1. PICK r \in Requests : c = connection[r]
        BY <3>1
      <4>2. r \notin R
        BY <2>2, <3>1, <4>1 DEF Own
      <4> QED
        BY <3>1, <4>1, <4>2
    <3>2. ASSUME NEW v \in Workers, c \in ToSet(cache[v]) PROVE c \in All
      <4>1. v # w
        BY <2>2, <3>2 DEF Own
      <4> QED
        BY <1>1, <3>2, <4>1
    <3> QED
      BY <1>0, <2>2, <3>1, <3>2 DEF OneOwner
  <2> QED
    BY <2>1, <2>2
<1>9. All \subseteq Open'
  <2>1. ASSUME NEW r \in Requests, x[r] # 0 PROVE x[r] \in Open'
    BY <1>4, <2>1
  <2>2. ASSUME NEW v \in Workers, NEW c \in ToSet(cache'[v]) PROVE c \in Open'
    BY <1>1, <1>5, <2>2
  <2> QED
    BY <2>1, <2>2
<1>10. OneOwner'
  <2> HIDE DEF All
  <2>1. Open' = All
    BY <1>8, <1>9
  <2>2. Open' = ({connection'[r] : r \in Requests} \ {0}) \cup UNION {ToSet(cache'[v]) : v \in Workers}
    BY <2>1 DEF All
  <2>3. \A r, q \in Requests : connection'[r] = connection'[q] => r = q \/ connection'[r] = 0
    BY <1>6
  <2>4. \A v \in Workers : /\ IsInjective(cache'[v])
                           /\ \A r \in Requests : connection'[r] \notin ToSet(cache'[v])
                           /\ \A u \in Workers \ {v} : ToSet(cache'[u]) \cap ToSet(cache'[v]) = {}
    BY <1>7
  <2> QED
    BY <2>2, <2>3, <2>4 DEF OneOwner
<1>11. RightServer' /\ \A r \in Requests : x[r] # 0 => at'[r] # 0
  BY <1>4 DEF RightServer
<1>12. Open' \subseteq Nat \ {0}
  <2>1. After \subseteq Nat \ {0}
    BY <1>3
  <2> QED
    BY <1>0, <2>1
<1>13. \A v \in Workers : Len(cache'[v]) <= conf'.keepalive
  BY <1>0, <1>1
<1> QED
  BY <1>1, <1>10, <1>11, <1>12, <1>13 DEF Connected, KeptApart

\* A get ends with a peer, or with what the request had: no peer.
LEMMA GetFacts ==
    ASSUME Inv, NEW r \in Requests, Get(r)
    PROVE  /\ at[r] = 0
           /\ \/ pc'[r] = "trying" /\ \E p \in Peer : at' = [at EXCEPT ![r] = p]
              \/ pc'[r] # "trying" /\ at' = at
<1>1. at[r] = 0 /\ pc[r] # "trying"
  <2>1. pc[r] # "trying"
    BY DEF Get, GetSingle, GetRoundRobin, GetLeastConn, GetHash, HashMisses, UseBackup, Busy,
           Revive, Exhausted, Choosing
  <2> QED
    BY <2>1 DEF Inv, Local
<1>2. CASE GetSingle(r) \/ Gives(r)
  <2>1. PICK p \in Peer : Take(r, p)
    BY <1>2, EligiblePeers DEF GetSingle, Gives, Give, List, Inv
  <2> QED
    BY <1>1, <2>1 DEF Take, Inv, Local
<1>3. CASE HashMisses(r) \/ UseBackup(r) \/ Busy(r) \/ Revive(r)
  <2>1. at' = at
    BY <1>3, OthersPass DEF Passes, Inv
  <2>2. pc'[r] # "trying"
    BY <1>1, <1>3 DEF HashMisses, UseBackup, Busy, Revive, Done, Inv, Local
  <2> QED
    BY <1>1, <2>1, <2>2
<1> QED
  BY <1>2, <1>3, GetGives DEF Get, Inv

\* The worker of a request.
LEMMA WorkerType ==
    ASSUME Inv, NEW r \in Requests
    PROVE  Worker(r) \in Workers /\ conf.keepalive \in Nat
BY PeersAssumption DEF Inv, Local, Worker

\* A request that has no connection takes one, kept or new.
LEMMA ConnectedGet ==
    ASSUME Inv, Connected, NEW r \in Requests, KGet(r), conf' = conf
    PROVE  Connected'
<1> DEFINE w == Worker(r)
<1>1. /\ w \in Workers
      /\ Open \subseteq Nat \ {0} /\ IsFiniteSet(Open)
      /\ connection \in [Requests -> Nat]
      /\ cache[w] \in Seq(Nat \ {0}) /\ IsInjective(cache[w]) /\ Len(cache[w]) <= conf.keepalive
      /\ ToSet(cache[w]) \subseteq Open
      /\ cache = [cache EXCEPT ![w] = cache[w]]
      /\ 0 \notin ToSet(cache[w])
  BY WorkerType, Positions DEF Connected, KeptApart, OneOwner
<1>2. at[r] = 0 /\ connection[r] = 0
  BY GetFacts DEF KGet, Connected
<1>3. CASE UNCHANGED kept /\ at' = at
  BY <1>3 DEF kept, Open, Connected, KeptApart, OneOwner, RightServer
<1>4. ASSUME NEW p \in Peer, at' = [at EXCEPT ![r] = p], Reuse(r) \/ Connect(r) PROVE Connected'
  <2>1. /\ at'[r] = p /\ p # 0 /\ \A q \in Requests \ {r} : at'[q] = at[q]
    BY <1>4, ConfFacts DEF Inv, Local
  <2>2. Own({r}, w) = ToSet(cache[w])
    BY <1>2 DEF Own
  <2>3. CASE Reuse(r)
    <3>1. PICK i \in DOMAIN cache[w] :
             /\ server[cache[w][i]] = p
             /\ connection' = [connection EXCEPT ![r] = cache[w][i]]
             /\ cache' = [cache EXCEPT ![w] = RemoveAt(@, i)]
             /\ server' = server
      BY <2>1, <2>3 DEF Reuse, Suits
    <3> DEFINE c == cache[w][i]
               k == RemoveAt(cache[w], i)
               x == [connection EXCEPT ![r] = c]
    <3>2. /\ k \in Seq(Nat \ {0}) /\ Len(k) = Len(cache[w]) - 1
          /\ IsInjective(k) /\ ToSet(k) = ToSet(cache[w]) \ {c}
      BY <1>1, RemoveAtElements
    <3>3. c \in ToSet(cache[w]) /\ c \in Nat \ {0}
      BY <1>1, Positions
    <3>4. cache' = [cache EXCEPT ![w] = k] /\ connection' = x /\ server[c] = p
      BY <3>1
    <3> HIDE DEF c, k
    <3>5. x \in [Requests -> Nat] /\ x[r] = c /\ \A q \in Requests \ {r} : x[q] = connection[q]
      BY <1>1, <3>3
    <3> HIDE DEF x
    <3> DEFINE After == ToSet(cache[w])
    <3>6. After = ({x[q] : q \in {r}} \ {0}) \cup ToSet(k)
      BY <3>2, <3>3, <3>5
    <3>7. Len(k) <= conf.keepalive
      BY <1>1, <3>2, Positions, WorkerType
    <3>8. Open' = Open
      BY <3>1 DEF Open
    <3>9. Open' = (Open \ Own({r}, w)) \cup After
      BY <1>1, <2>2, <3>8
    <3>10. After \cap Open \subseteq Own({r}, w)
      BY <2>2
    <3>11. \A q \in {r} : x[q] # 0 => at'[q] # 0 /\ server'[x[q]] = at'[q]
      BY <2>1, <3>1, <3>4, <3>5
    <3>12. \A q \in {r} : x[q] \notin ToSet(k)
      BY <3>2, <3>5
    <3>13. \A p1, q \in {r} : x[p1] = x[q] => p1 = q \/ x[p1] = 0
      OBVIOUS
    <3>14. \A d \in Open \ Own({r}, w) : server'[d] = server[d]
      BY <3>1
    <3>15. \A q \in Requests \ {r} : x[q] = connection[q] /\ at'[q] = at[q]
      BY <2>1, <3>5
    <3>16. IsFiniteSet(Open')
      BY <1>1, <3>8
    <3>17. {r} \in SUBSET Requests /\ w \in Workers
      BY <1>1
    <3>18. x \in [Requests -> Nat] /\ connection' = x /\ cache' = [cache EXCEPT ![w] = k]
      BY <3>4, <3>5
    <3>19. k \in Seq(Nat \ {0}) /\ IsInjective(k)
      BY <3>2
    <3> HIDE DEF w, After
    <3> QED
      BY <3>6, <3>7, <3>9, <3>10, <3>11, <3>12, <3>13, <3>14, <3>15, <3>16, <3>17, <3>18, <3>19,
         OwnersMove
  <2>4. CASE Connect(r)
    <3> DEFINE c == Unused
               x == [connection EXCEPT ![r] = c]
    <3>1. c \in Nat \ {0} /\ c \notin Open
      BY <1>1, UnusedIsFree
    <3>2. /\ server' = [d \in Open \cup {c} |-> IF d = c THEN p ELSE server[d]]
          /\ connection' = x
          /\ cache' = [cache EXCEPT ![w] = cache[w]]
      BY <1>1, <2>1, <2>4 DEF Connect
    <3> HIDE DEF c
    <3>3. x \in [Requests -> Nat] /\ x[r] = c /\ \A q \in Requests \ {r} : x[q] = connection[q]
      BY <1>1, <3>1
    <3> HIDE DEF x
    <3>4. Open' = Open \cup {c} /\ server'[c] = p /\ \A d \in Open : server'[d] = server[d]
      BY <3>1, <3>2 DEF Open
    <3>5. IsFiniteSet(Open')
      BY <1>1, <3>4, FS_AddElement
    <3> DEFINE After == {c} \cup ToSet(cache[w])
    <3>6. After = ({x[q] : q \in {r}} \ {0}) \cup ToSet(cache[w])
      BY <3>1, <3>3
    <3>7. Open' = (Open \ Own({r}, w)) \cup After
      BY <1>1, <2>2, <3>4
    <3>8. After \cap Open \subseteq Own({r}, w)
      BY <2>2, <3>1
    <3>9. \A q \in {r} : x[q] # 0 => at'[q] # 0 /\ server'[x[q]] = at'[q]
      BY <2>1, <3>3, <3>4
    <3>10. \A q \in {r} : x[q] \notin ToSet(cache[w])
      BY <1>1, <3>1, <3>3
    <3>11. \A p1, q \in {r} : x[p1] = x[q] => p1 = q \/ x[p1] = 0
      OBVIOUS
    <3>12. \A q \in Requests \ {r} : x[q] = connection[q] /\ at'[q] = at[q]
      BY <2>1, <3>3
    <3>13. {r} \in SUBSET Requests
      OBVIOUS
    <3>14. \A d \in Open \ Own({r}, w) : server'[d] = server[d]
      BY <3>4
    <3> HIDE DEF w, After
    <3> QED
      BY <1>1, <3>2, <3>3, <3>5, <3>6, <3>7, <3>8, <3>9, <3>10, <3>11, <3>12, <3>13, <3>14, OwnersMove
  <2> QED
    BY <1>4, <2>3, <2>4
<1>5. pc'[r] # "trying" => UNCHANGED kept
  BY DEF KGet
<1>6. pc'[r] = "trying" => Reuse(r) \/ Connect(r)
  BY DEF KGet
<1>7. Get(r)
  BY DEF KGet
<1> HIDE DEF w
<1> QED
  BY <1>3, <1>4, <1>5, <1>6, <1>7, GetFacts

LEMMA ClosedOpen ==
    ASSUME NEW S, server' = Closed(S)
    PROVE  Open' = Open \ S /\ \A c \in Open \ S : server'[c] = server[c]
BY DEF Closed, Open

\* A request gives up its connection: to the cache, or to be closed.
LEMMA ConnectedFree ==
    ASSUME Inv, Connected, NEW r \in Requests, Save(r) \/ Close(r), conf' = conf,
           at' = [at EXCEPT ![r] = 0]
    PROVE  Connected'
<1> DEFINE w == Worker(r)
           own == connection[r]
           x == [connection EXCEPT ![r] = 0]
<1>1. /\ w \in Workers /\ conf.keepalive \in Nat
      /\ IsFiniteSet(Open)
      /\ connection \in [Requests -> Nat] /\ own \in Nat /\ connection' = x
      /\ cache[w] \in Seq(Nat \ {0}) /\ IsInjective(cache[w]) /\ Len(cache[w]) <= conf.keepalive
      /\ ToSet(cache[w]) \subseteq Open /\ 0 \notin Open
      /\ cache = [cache EXCEPT ![w] = cache[w]]
      /\ own \notin ToSet(cache[w]) /\ (own # 0 => own \in Open)
  BY WorkerType DEF Connected, KeptApart, OneOwner, Save, Close
<1>2. Own({r}, w) = ({own} \ {0}) \cup ToSet(cache[w])
  BY DEF Own
<1>3. x \in [Requests -> Nat] /\ x[r] = 0 /\ \A q \in Requests \ {r} : x[q] = connection[q]
  BY <1>1
<1>4. \A q \in Requests \ {r} : at'[q] = at[q]
  BY DEF Inv, Local
<1> HIDE DEF x
\* So it is enough that the new list has some of what they held, and the rest is closed.
<1>5. ASSUME NEW k \in Seq(Nat \ {0}), IsInjective(k), Len(k) <= conf.keepalive,
             cache' = [cache EXCEPT ![w] = k], ToSet(k) \subseteq Own({r}, w),
             NEW S, server' = Closed(S), Own({r}, w) \ ToSet(k) = S \cap Open,
             S \cap Open \subseteq Own({r}, w)
      PROVE  Connected'
  <2> DEFINE After == ToSet(k)
  <2>1. After = ({x[q] : q \in {r}} \ {0}) \cup ToSet(k)
    BY <1>3
  <2>2. Open' = Open \ S /\ \A c \in Open \ S : server'[c] = server[c]
    BY <1>5, ClosedOpen
  <2>3. Own({r}, w) \subseteq Open
    BY <1>1, <1>2
  <2>4. Open' = (Open \ Own({r}, w)) \cup After
    BY <1>5, <2>2, <2>3
  <2>5. After \cap Open \subseteq Own({r}, w)
    BY <1>5
  <2>6. IsFiniteSet(Open')
    <3>1. Open' \in SUBSET Open
      BY <2>2
    <3> QED
      BY <1>1, <3>1, FS_Subset
  <2>7. \A c \in Open \ Own({r}, w) : server'[c] = server[c]
    BY <1>5, <2>2
  <2>8. \A q \in {r} : x[q] # 0 => at'[q] # 0 /\ server'[x[q]] = at'[q]
    BY <1>3
  <2>9. \A q \in {r} : x[q] \notin ToSet(k)
    BY <1>3, Positions
  <2>10. \A p, q \in {r} : x[p] = x[q] => p = q \/ x[p] = 0
    OBVIOUS
  <2>11. \A q \in Requests \ {r} : x[q] = connection[q] /\ at'[q] = at[q]
    BY <1>3, <1>4
  <2>12. {r} \in SUBSET Requests /\ w \in Workers /\ connection' = x /\ x \in [Requests -> Nat]
    BY <1>1, <1>3
  <2> HIDE DEF w, After, own
  <2> QED
    BY <1>5, <2>1, <2>4, <2>5, <2>6, <2>7, <2>8, <2>9, <2>10, <2>11, <2>12, OwnersMove
<1>6. CASE Close(r)
  <2>1. server' = Closed({own}) /\ cache' = [cache EXCEPT ![w] = cache[w]]
    BY <1>1, <1>6 DEF Close
  <2>2. ToSet(cache[w]) \subseteq Own({r}, w) /\ Own({r}, w) \ ToSet(cache[w]) = {own} \cap Open
        /\ {own} \cap Open \subseteq Own({r}, w)
    BY <1>1, <1>2
  <2> HIDE DEF w, own
  <2> QED
    BY <1>1, <1>5, <2>1, <2>2
<1>7. CASE Save(r)
  <2> DEFINE all == Items(r)
             n == Least(Len(Items(r)), conf.keepalive)
  <2>1. own # 0 /\ conf.keepalive > 0
    BY <1>7 DEF Save
  <2>2. /\ all \in Seq(Nat \ {0}) /\ all[1] = own /\ Len(all) = Len(cache[w]) + 1
        /\ IsInjective(all) /\ ToSet(all) = {own} \cup ToSet(cache[w])
    <3>1. all = <<own>> \o cache[w]
      BY DEF Items
    <3> HIDE DEF w, own, all
    <3> QED
      BY <1>1, <2>1, <3>1, PutFirst
  <2>3. ToSet(all) = Own({r}, w)
    BY <1>2, <2>1, <2>2
  <2>4. n \in 1 .. Len(all) /\ n <= conf.keepalive
    <3>1. Len(cache[w]) \in Nat
      BY <1>1, Positions
    <3> QED
      BY <1>1, <2>1, <2>2, <3>1 DEF Least
  <2> DEFINE k == SubSeq(all, 1, n)
  <2>5. /\ k \in Seq(Nat \ {0}) /\ Len(k) = n /\ IsInjective(k) /\ ToSet(k) \subseteq ToSet(all)
        /\ Tail(k) \in Seq(Nat \ {0}) /\ Len(Tail(k)) = n - 1 /\ IsInjective(Tail(k))
        /\ own \in ToSet(k) /\ ToSet(Tail(k)) = ToSet(k) \ {own}
    <3> HIDE DEF all, n, own, w
    <3>1. all \in Seq(Nat \ {0}) /\ IsInjective(all) /\ n \in 1 .. Len(all)
      BY <2>2, <2>4
    <3>2. /\ k \in Seq(Nat \ {0}) /\ Len(k) = n /\ IsInjective(k) /\ ToSet(k) \subseteq ToSet(all)
          /\ Tail(k) \in Seq(Nat \ {0}) /\ Len(Tail(k)) = n - 1 /\ IsInjective(Tail(k))
          /\ all[1] \in ToSet(k) /\ ToSet(Tail(k)) = ToSet(k) \ {all[1]}
      BY <3>1, FirstElements
    <3> QED
      BY <2>2, <3>2
  <2>6. Kept(r) = k /\ Evicted(r) = ToSet(all) \ ToSet(k)
    BY DEF Kept, Evicted
  <2>7. \/ cache' = [cache EXCEPT ![w] = k] /\ server' = Closed(Evicted(r))
        \/ cache' = [cache EXCEPT ![w] = Tail(k)] /\ server' = Closed(Evicted(r) \cup {own})
    BY <1>7, <2>6 DEF Save
  <2>8. Own({r}, w) \subseteq Open
    BY <1>1, <1>2
  <2> HIDE DEF all, k
  <2>9. Len(k) <= conf.keepalive /\ Len(Tail(k)) <= conf.keepalive
    BY <1>1, <2>4, <2>5
  <2>10. CASE cache' = [cache EXCEPT ![w] = k] /\ server' = Closed(Evicted(r))
    <3>1. Own({r}, w) \ ToSet(k) = Evicted(r) \cap Open /\ Evicted(r) \subseteq Own({r}, w)
      BY <2>3, <2>5, <2>6, <2>8
    <3> HIDE DEF w, own
    <3> QED
      BY <1>5, <2>3, <2>5, <2>9, <2>10, <3>1
  <2>11. CASE cache' = [cache EXCEPT ![w] = Tail(k)] /\ server' = Closed(Evicted(r) \cup {own})
    <3> DEFINE S == Evicted(r) \cup {own}
    <3>1. /\ ToSet(Tail(k)) \subseteq Own({r}, w)
          /\ Own({r}, w) \ ToSet(Tail(k)) = S \cap Open
          /\ S \cap Open \subseteq Own({r}, w)
      BY <2>3, <2>5, <2>6, <2>8
    <3>2. server' = Closed(S)
      BY <2>11
    <3> HIDE DEF w, own, S
    <3> QED
      BY <1>5, <2>5, <2>9, <2>11, <3>1, <3>2
  <2> QED
    BY <2>7, <2>10, <2>11
<1> QED
  BY <1>6, <1>7

\* A worker loses one idle connection, or all it has.
LEMMA ConnectedIdle ==
    ASSUME Inv, Connected, NEW w \in Workers, CloseIdle(w), conf' = conf
    PROVE  Connected'
<1>1. PICK i \in DOMAIN cache[w] :
         /\ server' = Closed({cache[w][i]})
         /\ cache' = [cache EXCEPT ![w] = RemoveAt(@, i)]
         /\ connection' = connection /\ at' = at
  BY DEF CloseIdle, vars, local
<1> DEFINE c == cache[w][i]
           k == RemoveAt(cache[w], i)
<1>2. /\ IsFiniteSet(Open) /\ connection \in [Requests -> Nat]
      /\ cache[w] \in Seq(Nat \ {0}) /\ IsInjective(cache[w]) /\ Len(cache[w]) <= conf.keepalive
      /\ ToSet(cache[w]) \subseteq Open
  BY DEF Connected, KeptApart, OneOwner
<1>3. k \in Seq(Nat \ {0}) /\ Len(k) = Len(cache[w]) - 1 /\ IsInjective(k)
      /\ ToSet(k) = ToSet(cache[w]) \ {c}
  BY <1>2, RemoveAtElements
<1>4. c \in ToSet(cache[w]) /\ Len(cache[w]) \in Nat
  BY <1>2, Positions
<1>5. cache' = [cache EXCEPT ![w] = k] /\ server' = Closed({c})
  BY <1>1
<1> HIDE DEF c, k
<1>6. Own({}, w) = ToSet(cache[w])
  BY DEF Own
<1>7. Open' = Open \ {c} /\ \A d \in Open \ {c} : server'[d] = server[d]
  BY <1>5, ClosedOpen
<1>8. Len(k) <= conf.keepalive
  <2>1. conf.keepalive \in Nat
    BY PeersAssumption DEF Inv, Local
  <2> QED
    BY <1>2, <1>3, <1>4, <2>1
<1> DEFINE After == ToSet(k)
<1>9. After = ({connection[q] : q \in {}} \ {0}) \cup ToSet(k)
  OBVIOUS
<1>10. Open' = (Open \ Own({}, w)) \cup After /\ After \cap Open \subseteq Own({}, w)
  BY <1>2, <1>3, <1>4, <1>6, <1>7
<1>11. IsFiniteSet(Open')
  <2>1. Open' \in SUBSET Open
    BY <1>7
  <2> QED
    BY <1>2, <2>1, FS_Subset
<1>12. \A d \in Open \ Own({}, w) : server'[d] = server[d]
  BY <1>4, <1>6, <1>7
<1>13. \A q \in Requests \ {} : connection[q] = connection[q] /\ at'[q] = at[q]
  BY <1>1
<1>14. {} \in SUBSET Requests /\ connection' = connection /\ connection \in [Requests -> Nat]
  BY <1>1, <1>2
<1> HIDE DEF After
<1> QED
  BY <1>3, <1>5, <1>8, <1>9, <1>10, <1>11, <1>12, <1>13, <1>14, OwnersMove

LEMMA ConnectedDie ==
    ASSUME Inv, Connected, NEW w \in Workers, KDie(w), conf' = conf
    PROVE  Connected'
<1> DEFINE R == {r \in Requests : Worker(r) = w}
           x == [r \in Requests |-> IF r \in R THEN 0 ELSE connection[r]]
           S == ToSet(cache[w]) \cup {connection[r] : r \in R}
           k == <<>>
<1>1. /\ server' = Closed(S)
      /\ connection' = x
      /\ cache' = [cache EXCEPT ![w] = k]
  BY DEF KDie
<1>2. \A q \in Requests \ R : at'[q] = at[q]
  BY DEF KDie, Die, Worker
<1>3. /\ IsFiniteSet(Open) /\ connection \in [Requests -> Nat]
      /\ ToSet(cache[w]) \subseteq Open /\ 0 \notin Open
      /\ \A q \in Requests : connection[q] # 0 => connection[q] \in Open
  <2>1. OneOwner /\ 0 \notin Open
    BY DEF Connected, KeptApart
  <2>2. \A q \in Requests : connection[q] # 0 => connection[q] \in Open
    BY <2>1 DEF OneOwner
  <2>3. ToSet(cache[w]) \subseteq Open
    BY <2>1 DEF OneOwner
  <2> QED
    BY <2>1, <2>2, <2>3 DEF Connected
<1>4. k \in Seq(Nat \ {0}) /\ IsInjective(k) /\ ToSet(k) = {} /\ Len(k) = 0
  BY DEF IsInjective, ToSet
<1>5. /\ R \in SUBSET Requests /\ x \in [Requests -> Nat]
      /\ \A q \in R : x[q] = 0
      /\ \A q \in Requests \ R : x[q] = connection[q] /\ at'[q] = at[q]
  BY <1>2, <1>3
<1> HIDE DEF R, x, k
<1>6. S \cap Open = Own(R, w)
  BY <1>3, <1>5 DEF Own
<1>7. Open' = Open \ S /\ \A c \in Open \ S : server'[c] = server[c]
  BY <1>1, ClosedOpen
<1> HIDE DEF S
<1> DEFINE After == {}
<1>8. After = ({x[q] : q \in R} \ {0}) \cup ToSet(k)
  BY <1>4, <1>5
<1>9. Open' = (Open \ Own(R, w)) \cup After /\ After \cap Open \subseteq Own(R, w)
  BY <1>6, <1>7
<1>10. IsFiniteSet(Open')
  <2>1. Open' \in SUBSET Open
    BY <1>7
  <2> QED
    BY <1>3, <2>1, FS_Subset
<1>11. \A c \in Open \ Own(R, w) : server'[c] = server[c]
  BY <1>6, <1>7
<1>12. Len(k) <= conf.keepalive
  BY <1>4, PeersAssumption DEF Inv, Local
<1>13. /\ \A p, q \in R : x[p] = x[q] => p = q \/ x[p] = 0
       /\ \A q \in R : x[q] # 0 => at'[q] # 0 /\ server'[x[q]] = at'[q]
       /\ \A q \in R : x[q] \notin ToSet(k)
  BY <1>4, <1>5
<1> HIDE DEF After
<1> QED
  BY <1>1, <1>4, <1>5, <1>8, <1>9, <1>10, <1>11, <1>12, <1>13, OwnersMove

LEMMA ConnectedStep ==
    ASSUME Inv, Connected, [KNext]_kvars
    PROVE  Connected'
<1>0. conf' = conf
  BY KStepIsStep, ConfStep
<1>1. ASSUME UNCHANGED kept, at' = at PROVE Connected'
  BY <1>0, <1>1 DEF kept, Open, Connected, KeptApart, OneOwner, RightServer
<1>2. ASSUME NEW r \in Requests, KStart(r) PROVE Connected'
  BY <1>1, <1>2 DEF KStart, Start
<1>3. ASSUME NEW r \in Requests, KGet(r) PROVE Connected'
  BY <1>0, <1>3, ConnectedGet
<1>4. ASSUME NEW r \in Requests, KFinish(r) \/ KPeerFails(r) \/ KBadResponse(r) PROVE Connected'
  <2>1. Save(r) \/ Close(r)
    BY <1>4 DEF KFinish, KPeerFails, KBadResponse
  <2>2. at' = [at EXCEPT ![r] = 0]
    BY <1>4, AnswerFrees DEF KFinish, KPeerFails, KBadResponse, Frees, Inv
  <2> QED
    BY <1>0, <2>1, <2>2, ConnectedFree
<1>5. ASSUME NEW w \in Workers, CloseIdle(w) \/ KDie(w) PROVE Connected'
  BY <1>0, <1>5, ConnectedIdle, ConnectedDie
<1>6. CASE KTick
  BY <1>1, <1>6 DEF KTick, Tick, local
<1>7. CASE UNCHANGED kvars
  BY <1>1, <1>7 DEF kvars, vars, local
<1> QED
  BY <1>2, <1>3, <1>4, <1>5, <1>6, <1>7 DEF KNext, KStep

\* KeptApart: every open connection to a server is used by one request or kept
\* by one cache, at the right server, whatever requests, servers and workers do.
THEOREM ConnectionsApart == KSpec => []KeptApart
<1>1. KInit => Connected
  <2> SUFFICES ASSUME KInit PROVE Connected
    OBVIOUS
  <2>1. Init /\ server = <<>> /\ connection = [r \in Requests |-> 0]
        /\ cache = [w \in Workers |-> <<>>]
    BY DEF KInit
  <2>2. \A s : s = <<>> => /\ s \in Seq(Nat \ {0}) /\ IsInjective(s) /\ ToSet(s) = {}
                           /\ Len(s) = 0 /\ DOMAIN s = {}
    BY DEF IsInjective, ToSet
  <2>3. Open = {} /\ IsFiniteSet(Open)
    BY <2>1, <2>2, FS_EmptySet DEF Open
  <2>4. OneOwner
    BY <2>1, <2>2, <2>3 DEF OneOwner
  <2>5. RightServer
    BY <2>1 DEF RightServer
  <2>6. \A w \in Workers : Len(cache[w]) <= conf.keepalive
    <3>1. conf.keepalive \in Nat
      BY <2>1, PeersAssumption DEF Init
    <3> QED
      BY <2>1, <2>2, <3>1
  <2> QED
    BY <2>1, <2>2, <2>3, <2>4, <2>5, <2>6 DEF Connected, KeptApart
<1>2. KSpec => []Inv
  BY WrapsBalancer, PeersInvariant, PTL
<1>3. Inv /\ Connected /\ [KNext]_kvars => Connected'
  BY ConnectedStep
<1>4. Connected => KeptApart
  BY DEF Connected
<1> QED
  BY <1>1, <1>2, <1>3, <1>4, PTL DEF KSpec
=============================================================================
