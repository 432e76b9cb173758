------------------------------ MODULE MCPeers ------------------------------
(* Instances of Keepalive, and so of Peers, for TLC. *)
EXTENDS Keepalive

CONSTANTS r1, r2, w1, w2

Server(l, w, m) == [list |-> l, weight |-> w, maxFails |-> m, down |-> FALSE]

Upstream(m, n, servers, k, home, d) ==
    [method |-> m, tries |-> n, peer |-> servers, keepalive |-> k, worker |-> home, deaths |-> d]

Together == r1 :> w1 @@ r2 :> w1
Apart    == r1 :> w1 @@ r2 :> w2

\* One server, and two workers one of which dies; a worker that keeps two connections
\* and dies; a failure that costs half a weight; a backup, one try and a kept
\* connection; a server that is down and a backup; the other methods.
SmallConfigs ==
    {Upstream("round_robin", 0, <<Server(1, 1, 1)>>, 1, Apart, 1),
     Upstream("round_robin", 0, <<Server(1, 1, 1)>>, 2, Together, 1),
     Upstream("round_robin", 0, <<Server(1, 2, 2), Server(1, 1, 0)>>, 0, Apart, 0),
     Upstream("round_robin", 1, <<Server(1, 1, 1), Server(2, 1, 1)>>, 1, Together, 0),
     Upstream("round_robin", 2, <<Server(1, 1, 1), [Server(1, 1, 1) EXCEPT !.down = TRUE],
                                  Server(2, 1, 0)>>, 0, Apart, 0),
     Upstream("least_conn", 0, <<Server(1, 1, 1), Server(1, 1, 1)>>, 0, Together, 0),
     Upstream("hash", 0, <<Server(1, 1, 1), Server(1, 1, 0)>>, 0, Apart, 0)}
=============================================================================
