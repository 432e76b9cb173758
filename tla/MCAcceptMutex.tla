--------------------------- MODULE MCAcceptMutex ---------------------------
(* Instances of AcceptMutex for TLC: two workers with eight connections     *)
(* each, all of them in use at the start.                                   *)
EXTENDS AcceptMutex

CONSTANTS w1, w2
=============================================================================
