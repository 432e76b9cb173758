------------------------------- MODULE Peers -------------------------------
(***************************************************************************)
(* The servers of an upstream, shared by the requests of all workers       *)
(* through a zone: choosing one (round robin, least_conn, hash, ip_hash),  *)
(* giving it back, and the tries of a request in ngx_http_upstream_next.   *)
(*                                                                         *)
(* Each get and each free is one step: a get holds the write lock of its   *)
(* list, a free the read lock and the lock of its peer (see Rwlock).  What *)
(* the code does after it has unlocked - search the backup servers, come   *)
(* back to mark the primary ones live, fall back from hash to round robin  *)
(* - is a step of its own.  A peer is its number in the configuration;     *)
(* list 1 are the primary servers, list 2 the backup ones.                 *)
(***************************************************************************)
EXTENDS Integers, Sequences, FiniteSets, Functions

CONSTANTS Requests,
          Workers,
          Configs,      \* upstreams: method, next_upstream_tries, servers, keepalive; the
                        \* worker of each request; and a bound on the deaths of workers
          FailTimeout   \* fail_timeout, in ticks of the cached second

Methods   == {"round_robin", "least_conn", "hash"}
PeerConfs == [list : {1, 2}, weight : Nat \ {0}, maxFails : Nat, down : BOOLEAN]

ASSUME PeersAssumption ==
    /\ IsFiniteSet(Requests)
    /\ FailTimeout \in Nat
    /\ \A c \in Configs : /\ c.method \in Methods
                          /\ c.tries \in Nat /\ c.keepalive \in Nat /\ c.deaths \in Nat
                          /\ c.worker \in [Requests -> Workers]
                          /\ c.peer \in Seq(PeerConfs)
                          /\ \E p \in DOMAIN c.peer : c.peer[p].list = 1
                          /\ c.method = "hash" => \A p \in DOMAIN c.peer : c.peer[p].list = 1

VARIABLES conf,       \* the configuration, fixed at the start
          current,    \* peer->current_weight
          effective,  \* peer->effective_weight
          fails,      \* peer->fails, up to max_fails
          age,        \* now - peer->checked, up to FailTimeout + 1
          probed,     \* peer->accessed < peer->checked
          conns,      \* peer->conns
          pc,         \* where a request is
          list,       \* rrp->peers
          tried,      \* rrp->tried
          at,         \* rrp->current while u->peer.sockaddr is set, else 0
          tries,      \* u->peer.tries
          cached,     \* u->peer.cached
          fallen,     \* hp->tries > 20: hash has fallen back to round robin
          quiet,      \* history: time since a failed peer was chosen
          lost,       \* history: connections a dead worker never gave back
          deaths

weights == <<current, effective>>
health  == <<fails, age, probed>>
local   == <<pc, list, tried, at, tries, cached, fallen>>
vars    == <<conf, weights, health, conns, local, quiet, lost, deaths>>

Peer        == DOMAIN conf.peer
Weight(p)   == conf.peer[p].weight
MaxFails(p) == conf.peer[p].maxFails
Down(p)     == conf.peer[p].down
List(l)     == {p \in Peer : conf.peer[p].list = l}

\* peers->single: one server and no backup.
Single == Len(conf.peer) = 1

Failed(p)  == MaxFails(p) > 0 /\ fails[p] >= MaxFails(p)
Resting(p) == Failed(p) /\ age[p] <= FailTimeout

Least(m, n) == IF m < n THEN m ELSE n

Init == /\ conf \in Configs
        /\ current = [p \in Peer |-> 0]
        /\ effective = [p \in Peer |-> Weight(p)]
        /\ fails = [p \in Peer |-> 0]
        /\ age = [p \in Peer |-> FailTimeout + 1]
        /\ probed = [p \in Peer |-> FALSE]
        /\ conns = [p \in Peer |-> 0]
        /\ pc = [r \in Requests |-> "idle"]
        /\ list = [r \in Requests |-> 1]
        /\ tried = [r \in Requests |-> {}]
        /\ at = [r \in Requests |-> 0]
        /\ tries = [r \in Requests |-> 0]
        /\ cached = [r \in Requests |-> FALSE]
        /\ fallen = [r \in Requests |-> FALSE]
        /\ quiet = [p \in Peer |-> FailTimeout + 1]
        /\ lost = [p \in Peer |-> 0]
        /\ deaths = 0

----------------------------------------------------------------------------
(* A request: peer.init, and the end of everything it keeps.               *)

\* Every server is a try, up to next_upstream_tries.
Start(r) == /\ pc[r] = "idle"
            /\ pc' = [pc EXCEPT ![r] = "choose"]
            /\ tries' = [tries EXCEPT ![r] = IF conf.tries > 0
                                             THEN Least(conf.tries, Len(conf.peer))
                                             ELSE Len(conf.peer)]
            /\ UNCHANGED <<conf, weights, health, conns, list, tried, at, cached, fallen,
                           quiet, lost, deaths>>

Done(r) == /\ pc' = [pc EXCEPT ![r] = "idle"]
           /\ list' = [list EXCEPT ![r] = 1]
           /\ tried' = [tried EXCEPT ![r] = {}]
           /\ at' = [at EXCEPT ![r] = 0]
           /\ tries' = [tries EXCEPT ![r] = 0]
           /\ cached' = [cached EXCEPT ![r] = FALSE]
           /\ fallen' = [fallen EXCEPT ![r] = FALSE]

\* ngx_http_upstream_connect once more.
Again(r, n) == /\ pc' = [pc EXCEPT ![r] = "choose"]
               /\ at' = [at EXCEPT ![r] = 0]
               /\ tries' = [tries EXCEPT ![r] = n]
               /\ cached' = [cached EXCEPT ![r] = FALSE]
               /\ UNCHANGED <<list, tried, fallen>>

----------------------------------------------------------------------------
(* peer.get                                                                *)

Choosing(r) == pc[r] \in {"choose", "backup"}

Eligible(r) == {p \in List(list[r]) : p \notin tried[r] /\ ~Down(p) /\ ~Resting(p)}

\* What round robin compares.
Raised(p) == current[p] + effective[p]

\* The first peer with the largest weight wins, and pays for the others.
Wins(p, S) == \A q \in S : Raised(q) < Raised(p) \/ (Raised(q) = Raised(p) /\ p <= q)

Recovered(S) == [p \in Peer |-> IF p \in S THEN Least(effective[p] + 1, Weight(p))
                                          ELSE effective[p]]

\* Mutant: a failed peer stays at the weight its failures left it.
WeighNoRecovery(S, best) ==
    /\ current' = [p \in Peer |->
                      IF p \notin S THEN current[p]
                      ELSE Raised(p) - IF p = best THEN SumFunctionOnSet(effective, S) ELSE 0]
    /\ UNCHANGED effective

\* Mutant: the winner pays with its own weight only.
WeighUnbalanced(S, best) ==
    /\ current' = [p \in Peer |-> IF p \notin S THEN current[p]
                                  ELSE Raised(p) - IF p = best THEN Weight(p) ELSE 0]
    /\ effective' = Recovered(S)

Weigh(S, best) ==
    /\ current' = [p \in Peer |->
                      IF p \notin S THEN current[p]
                      ELSE Raised(p) - IF p = best THEN SumFunctionOnSet(effective, S) ELSE 0]
    /\ effective' = Recovered(S)

\* Mutant: the time of the check is not taken.
CheckNever(p) == UNCHANGED <<age, probed>>

\* The first choice after fail_timeout is the check of a failed peer.
Check(p) == IF age[p] > FailTimeout
            THEN age' = [age EXCEPT ![p] = 0] /\ probed' = [probed EXCEPT ![p] = TRUE]
            ELSE UNCHANGED <<age, probed>>

Mark(r, p) == tried' = [tried EXCEPT ![r] = @ \cup {p}]

\* With a keepalive cache the connection may be a kept one (see Keepalive).
Take(r, p) == /\ pc' = [pc EXCEPT ![r] = "trying"]
              /\ at' = [at EXCEPT ![r] = p]
              /\ conns' = [conns EXCEPT ![p] = @ + 1]
              /\ quiet' = IF Failed(p) THEN [quiet EXCEPT ![p] = 0] ELSE quiet
              /\ \E kept \in BOOLEAN : /\ kept => conf.keepalive > 0
                                     /\ cached' = [cached EXCEPT ![r] = kept]
              /\ UNCHANGED <<conf, fails, list, tries, fallen, lost, deaths>>

GetSingle(r) == /\ Choosing(r)
                /\ Single
                /\ \E p \in List(1) : ~Down(p) /\ Take(r, p)
                /\ UNCHANGED <<weights, age, probed, tried>>

Give(r, p) == Check(p) /\ Mark(r, p) /\ Take(r, p)

GetRoundRobin(r) == /\ Choosing(r)
                    /\ ~Single
                    /\ conf.method = "round_robin" \/ fallen[r]
                    /\ \E p \in Eligible(r) : /\ Wins(p, Eligible(r))
                                              /\ Weigh(Eligible(r), p)
                                              /\ Give(r, p)

\* The peers with the least connections for their weight.
Fewest(S) == {p \in S : \A q \in S : conns[p] * Weight(q) <= conns[q] * Weight(p)}

\* Several of them are chosen from in turn; a single one is taken as it is.
GetLeastConn(r) == /\ Choosing(r)
                   /\ ~Single
                   /\ conf.method = "least_conn"
                   /\ LET S == Fewest(Eligible(r))
                      IN \E p \in S : /\ Wins(p, S)
                                      /\ IF S = {p} THEN UNCHANGED weights ELSE Weigh(S, p)
                                      /\ Give(r, p)

\* Where the hash of the key leads, if it leads to an eligible peer.
GetHash(r) == /\ Choosing(r)
              /\ ~Single
              /\ conf.method = "hash"
              /\ ~fallen[r]
              /\ \E p \in Eligible(r) : Give(r, p)
              /\ UNCHANGED weights

\* More than 20 misses: unlock, and on to round robin for good.
HashMisses(r) == /\ Choosing(r)
                 /\ ~Single
                 /\ conf.method = "hash"
                 /\ ~fallen[r]
                 /\ fallen' = [fallen EXCEPT ![r] = TRUE]
                 /\ UNCHANGED <<conf, weights, health, conns, pc, list, tried, at, tries,
                                cached, quiet, lost, deaths>>

Exhausted(r) == /\ Choosing(r)
                /\ IF Single THEN \A p \in Peer : Down(p)
                             ELSE Eligible(r) = {} /\ (conf.method = "hash" => fallen[r])

\* Unlock, and search the backup servers.
UseBackup(r) == /\ Exhausted(r)
                /\ list[r] = 1
                /\ List(2) # {}
                /\ pc' = [pc EXCEPT ![r] = "backup"]
                /\ list' = [list EXCEPT ![r] = 2]
                /\ tried' = [tried EXCEPT ![r] = {}]
                /\ UNCHANGED <<conf, weights, health, conns, at, tries, cached, fallen,
                               quiet, lost, deaths>>

\* Mark the list live for quick recovery.
Revived(l) == fails' = [p \in Peer |-> IF p \in List(l) THEN 0 ELSE fails[p]]

\* No live server: NGX_BUSY ends the request, unless this is the search of the
\* backup servers, whose caller marks the primary servers live first.
Busy(r) == /\ Exhausted(r)
           /\ list[r] = 2 \/ List(2) = {}
           /\ Revived(list[r])
           /\ IF pc[r] = "backup"
              THEN /\ pc' = [pc EXCEPT ![r] = "revive"]
                   /\ UNCHANGED <<list, tried, at, tries, cached, fallen>>
              ELSE Done(r)
           /\ UNCHANGED <<conf, weights, age, probed, conns, quiet, lost, deaths>>

Revive(r) == /\ pc[r] = "revive"
             /\ Revived(1)
             /\ Done(r)
             /\ UNCHANGED <<conf, weights, age, probed, conns, quiet, lost, deaths>>

Get(r) == \/ GetSingle(r) \/ GetRoundRobin(r) \/ GetLeastConn(r) \/ GetHash(r)
          \/ HashMisses(r) \/ UseBackup(r) \/ Busy(r) \/ Revive(r)

----------------------------------------------------------------------------
(* peer.free                                                               *)

Share(p) == Weight(p) \div MaxFails(p)

\* Each failure costs its share of the weight.
Lower(p) == effective' = [effective EXCEPT ![p] = IF @ > Share(p) THEN @ - Share(p) ELSE 0]

\* A failure starts fail_timeout anew.
Blame(p) == /\ fails' = [fails EXCEPT ![p] = Least(@ + 1, MaxFails(p))]
            /\ age' = [age EXCEPT ![p] = 0]
            /\ probed' = [probed EXCEPT ![p] = FALSE]
            /\ IF MaxFails(p) > 0 THEN Lower(p) ELSE UNCHANGED effective

\* A success after a check forgives.
Clear(p) == /\ fails' = IF probed[p] THEN [fails EXCEPT ![p] = 0] ELSE fails
            /\ UNCHANGED <<age, probed, effective>>

Free(p, failed) == /\ conns' = [conns EXCEPT ![p] = @ - 1]
                   /\ IF Single THEN UNCHANGED <<health, effective>>
                      ELSE IF failed THEN Blame(p) ELSE Clear(p)
                   /\ UNCHANGED <<conf, current, quiet, lost, deaths>>

TriesLeft(r) == IF Single \/ tries[r] = 0 THEN 0 ELSE tries[r] - 1

----------------------------------------------------------------------------
(* The request that has a peer                                             *)

\* Mutant: a request that ends otherwise than by a failure keeps its peer.
FinishUnfreed(r) == /\ pc[r] = "trying"
                    /\ Done(r)
                    /\ UNCHANGED <<conf, weights, health, conns, quiet, lost, deaths>>

\* The response is complete, the client has gone, a timer or an internal
\* failure ends the request: all are a success of the peer to the balancer.
Finish(r) == /\ pc[r] = "trying"
             /\ Free(at[r], FALSE)
             /\ Done(r)

\* No connection, a broken connection or a timeout.  Whatever else is against
\* another try (next_upstream, a body that cannot be sent again, the client)
\* is a choice; an error of a kept connection does not count as a try.
PeerFails(r) == /\ pc[r] = "trying"
                /\ Free(at[r], TRUE)
                /\ \/ Done(r)
                   \/ TriesLeft(r) > 0 /\ Again(r, TriesLeft(r))
                   \/ cached[r] /\ Again(r, TriesLeft(r) + 1)

\* A status that next_upstream names: 500 and the like are failures, 403 and
\* 404 are not.  On the last try the response is passed on instead.
BadResponse(r, failed) == /\ pc[r] = "trying"
                          /\ tries[r] > 1
                          /\ Free(at[r], failed)
                          /\ Done(r) \/ Again(r, TriesLeft(r))

\* A worker dies with its requests; the zone keeps what it counted.
Die(w) == LET R == {r \in Requests : conf.worker[r] = w}
              Reset(f, x) == [r \in Requests |-> IF r \in R THEN x ELSE f[r]]
          IN /\ deaths < conf.deaths
             /\ deaths' = deaths + 1
             /\ lost' = [p \in Peer |-> lost[p] + Cardinality({r \in R : at[r] = p})]
             /\ pc' = Reset(pc, "idle") /\ list' = Reset(list, 1) /\ tried' = Reset(tried, {})
             /\ at' = Reset(at, 0) /\ tries' = Reset(tries, 0)
             /\ cached' = Reset(cached, FALSE) /\ fallen' = Reset(fallen, FALSE)
             /\ UNCHANGED <<conf, weights, health, conns, quiet>>

\* A second passes, for all workers at once.
Tick == /\ \E p \in Peer : age[p] <= FailTimeout \/ quiet[p] <= FailTimeout
        /\ age' = [p \in Peer |-> Least(age[p] + 1, FailTimeout + 1)]
        /\ quiet' = [p \in Peer |-> Least(quiet[p] + 1, FailTimeout + 1)]
        /\ UNCHANGED <<conf, weights, fails, probed, conns, local, lost, deaths>>

Step(r) == \/ Get(r) \/ Finish(r) \/ PeerFails(r)
           \/ \E failed \in BOOLEAN : BadResponse(r, failed)

Next == \/ Tick
        \/ \E r \in Requests : Start(r) \/ Step(r)
        \/ \E w \in Workers : Die(w)

Spec == Init /\ [][Next]_vars

\* Time passes, and a request that has a peer hears from it or times out.
\* That requests keep coming is not assumed.
Fairness == WF_vars(Tick) /\ \A r \in Requests : WF_vars(Step(r))

FairSpec == Spec /\ Fairness

----------------------------------------------------------------------------
(* Properties                                                              *)

Places == {"idle", "choose", "backup", "revive", "trying"}

\* Types; an effective weight stays between zero and what the configuration says
\* (WeightsBalanced says where the current weights stay).
TypeOK == /\ conf \in Configs
          /\ effective \in [Peer -> Nat] /\ \A p \in Peer : effective[p] <= Weight(p)
          /\ fails \in [Peer -> Nat] /\ \A p \in Peer : fails[p] <= MaxFails(p)
          /\ age \in [Peer -> 0 .. FailTimeout + 1]
          /\ probed \in [Peer -> BOOLEAN]
          /\ conns \in [Peer -> Nat]
          /\ pc \in [Requests -> Places]
          /\ list \in [Requests -> {1, 2}]
          /\ tried \in [Requests -> SUBSET Peer]
          /\ at \in [Requests -> Peer \cup {0}]
          /\ tries \in [Requests -> 0 .. Len(conf.peer)]
          /\ cached \in [Requests -> BOOLEAN] /\ fallen \in [Requests -> BOOLEAN]
          /\ \A r \in Requests : (pc[r] = "trying") <=> (at[r] # 0)

\* Every connection is counted at its peer until it is given back, once, on
\* whichever way its request ends; only a dead worker's are never given back.
ConnsExact == \A p \in Peer :
    conns[p] = Cardinality({r \in Requests : at[r] = p}) + lost[p]

\* The current weights of a list add up to zero, and none is further from zero than
\* all the other peers' choices with the list's largest weight, whoever was eligible
\* when a peer was chosen and whatever failures did to the effective weights: no
\* list drifts, and so none overflows.
WeightsBalanced == \A l \in {1, 2} :
    /\ SumFunctionOnSet(current, List(l)) = 0
    /\ \A p \in List(l) : \E q \in List(l) :
          LET bound == (Cardinality(List(l)) - 1) * Weight(q)
          IN  -bound <= current[p] /\ current[p] <= bound

Chosen(r, p) == at[r] # p /\ at'[r] = p

\* A failed peer that nobody revived gets one request per fail_timeout.
OneProbe ==
    [][\A r \in Requests, p \in Peer : Chosen(r, p) /\ Failed(p) => quiet[p] > FailTimeout]_vars

PeerIds == UNION {DOMAIN c.peer : c \in Configs}

InUse(p)     == \E r \in Requests : at[r] = p
ListInUse(p) == \E l \in {1, 2} : p \in List(l) /\ \E q \in List(l) : InUse(q)

\* Round robin comes back to every server of a list it goes on choosing from,
\* however often that server failed and its weight was lowered.
PeerReturns == \A p \in PeerIds :
    (conf.method = "round_robin" /\ p \in Peer /\ ~Down(p) /\ []<>ListInUse(p)) => []<>InUse(p)
=============================================================================
