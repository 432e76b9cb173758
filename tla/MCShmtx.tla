------------------------------ MODULE MCShmtx ------------------------------
(* Instances of Shmtx for TLC.  No symmetry: the run checks liveness.       *)
EXTENDS Shmtx

=============================================================================
