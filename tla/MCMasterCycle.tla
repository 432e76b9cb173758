--------------------------- MODULE MCMasterCycle ---------------------------
(* Instances of MasterCycle for TLC. *)
EXTENDS MasterCycle
=============================================================================
