------------------------------ MODULE MCRwlock ------------------------------
(* The instance of Rwlock for TLC.  No symmetry: the run checks liveness.   *)
EXTENDS Rwlock

=============================================================================
