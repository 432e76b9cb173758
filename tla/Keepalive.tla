----------------------------- MODULE Keepalive -----------------------------
(***************************************************************************)
(* The connections to the servers of an upstream, and the cache in which   *)
(* each worker keeps idle ones (ngx_http_upstream_keepalive_module).       *)
(*                                                                         *)
(* The module wraps the get and free of a balancer, and so does this one:  *)
(* every action is an action of Peers together with what becomes of the    *)
(* request's connection.  The item of a cache is the connection it holds;  *)
(* the queue of free items is whatever the cache leaves of max_cached.     *)
(* With keepalive = 0 the directive is absent, and requests only open and  *)
(* close connections.                                                      *)
(***************************************************************************)
EXTENDS Peers, SequencesExt

VARIABLES server,     \* the open connections, and the peer each is connected to
          connection, \* u->peer.connection of a request, 0 if NULL
          cache       \* kcf->cache of each worker, the latest first

kept  == <<server, connection, cache>>
kvars == <<vars, kept>>

Open      == DOMAIN server
Worker(r) == conf.worker[r]

KInit == /\ Init
         /\ server = <<>>
         /\ connection = [r \in Requests |-> 0]
         /\ cache = [w \in Workers |-> <<>>]

\* A descriptor that is not in use.
Unused == CHOOSE c \in 1 .. Cardinality(Open) + 1 : c \notin Open

----------------------------------------------------------------------------
(* get                                                                     *)

\* The latest kept connection to the peer that the balancer chose.
Suits(w, i, p) == /\ i \in DOMAIN cache[w]
                  /\ server[cache[w][i]] = p
                  /\ \A j \in 1 .. i - 1 : server[cache[w][j]] # p

Reuse(r) == \E i \in DOMAIN cache[Worker(r)] :
    /\ Suits(Worker(r), i, at'[r])
    /\ connection' = [connection EXCEPT ![r] = cache[Worker(r)][i]]
    /\ cache' = [cache EXCEPT ![Worker(r)] = RemoveAt(@, i)]
    /\ UNCHANGED server

\* ngx_event_connect_peer opens one.  (If that fails at once, what is open until
\* the failure is handled is a connection that is closed then.)
Connect(r) == /\ \A c \in ToSet(cache[Worker(r)]) : server[c] # at'[r]
              /\ server' = [c \in Open \cup {Unused} |-> IF c = Unused THEN at'[r] ELSE server[c]]
              /\ connection' = [connection EXCEPT ![r] = Unused]
              /\ UNCHANGED cache

KGet(r) == /\ Get(r)
           /\ IF pc'[r] # "trying" THEN UNCHANGED kept
              ELSE IF cached'[r] THEN Reuse(r) ELSE Connect(r)

----------------------------------------------------------------------------
(* free, and what its callers do with the connection it leaves them        *)

Closed(S) == [c \in Open \ S |-> server[c]]

\* ngx_close_connection by ngx_http_upstream_next or finalize_request.
Close(r) == /\ server' = Closed({connection[r]})
            /\ connection' = [connection EXCEPT ![r] = 0]
            /\ UNCHANGED cache

Items(r) == <<connection[r]>> \o cache[Worker(r)]

\* Without a free item the oldest connection makes room.
Kept(r) == SubSeq(Items(r), 1, Least(Len(Items(r)), conf.keepalive))

Evicted(r) == ToSet(Items(r)) \ ToSet(Kept(r))

\* Mutant: pc->connection is not set to NULL, and the caller closes it.
SaveAndClose(r) == /\ conf.keepalive > 0 /\ connection[r] # 0
                   /\ connection' = [connection EXCEPT ![r] = 0]
                   /\ cache' = [cache EXCEPT ![Worker(r)] = Kept(r)]
                   /\ server' = Closed(Evicted(r) \cup {connection[r]})

\* A connection that is fit, u->keepalive set by a complete response, goes to
\* the cache, and is not the caller's to close any more.  If something came
\* meanwhile the close handler runs at once.
Save(r) == /\ conf.keepalive > 0 /\ connection[r] # 0
           /\ connection' = [connection EXCEPT ![r] = 0]
           /\ \/ /\ cache' = [cache EXCEPT ![Worker(r)] = Kept(r)]
                 /\ server' = Closed(Evicted(r))
              \/ /\ cache' = [cache EXCEPT ![Worker(r)] = Tail(Kept(r))]
                 /\ server' = Closed(Evicted(r) \cup {connection[r]})

KFinish(r) == Finish(r) /\ (Save(r) \/ Close(r))

KPeerFails(r) == PeerFails(r) /\ Close(r)

\* NGX_PEER_NEXT, after 403 or 404, leaves the connection fit.
KBadResponse(r) == \/ BadResponse(r, TRUE) /\ Close(r)
                   \/ BadResponse(r, FALSE) /\ (Save(r) \/ Close(r))

----------------------------------------------------------------------------
\* ngx_http_upstream_keepalive_close_handler: the server closes a connection
\* nobody uses or sends something nobody asked for, or the worker is exiting.
CloseIdle(w) == /\ \E i \in DOMAIN cache[w] :
                     /\ server' = Closed({cache[w][i]})
                     /\ cache' = [cache EXCEPT ![w] = RemoveAt(@, i)]
                /\ UNCHANGED <<vars, connection>>

\* The kernel closes what a dead worker had open.
KDie(w) == LET R == {r \in Requests : Worker(r) = w}
           IN /\ Die(w)
              /\ server' = Closed(ToSet(cache[w]) \cup {connection[r] : r \in R})
              /\ connection' = [r \in Requests |-> IF r \in R THEN 0 ELSE connection[r]]
              /\ cache' = [cache EXCEPT ![w] = <<>>]

KStart(r) == Start(r) /\ UNCHANGED kept

KTick == Tick /\ UNCHANGED kept

KStep(r) == KGet(r) \/ KFinish(r) \/ KPeerFails(r) \/ KBadResponse(r)

KNext == \/ KTick
         \/ \E r \in Requests : KStart(r) \/ KStep(r)
         \/ \E w \in Workers : CloseIdle(w) \/ KDie(w)

KSpec == KInit /\ [][KNext]_kvars

\* As for Peers; servers need not close connections.
KFairSpec == /\ KSpec
             /\ WF_kvars(KTick)
             /\ \A r \in Requests : WF_kvars(KStep(r))

----------------------------------------------------------------------------
(* Properties                                                              *)

\* Every open connection is one request's or one item's, and no other is used
\* or kept: none leaks, none is closed while it is kept, none serves two
\* requests, whatever requests and servers do in which order.
OneOwner ==
    /\ Open = ({connection[r] : r \in Requests} \ {0}) \cup UNION {ToSet(cache[w]) : w \in Workers}
    /\ \A r, q \in Requests : connection[r] = connection[q] => r = q \/ connection[r] = 0
    /\ \A w \in Workers : /\ IsInjective(cache[w])
                          /\ \A r \in Requests : connection[r] \notin ToSet(cache[w])
                          /\ \A v \in Workers \ {w} : ToSet(cache[v]) \cap ToSet(cache[w]) = {}

\* A request talks to the server it is counted at, kept connection or not.
RightServer == \A r \in Requests : connection[r] # 0 => server[connection[r]] = at[r]

\* A cache stays within its limit, and a kept connection is handed on alone and
\* to its own server.
KeptApart == /\ OneOwner
             /\ RightServer
             /\ \A w \in Workers : Len(cache[w]) <= conf.keepalive
=============================================================================
