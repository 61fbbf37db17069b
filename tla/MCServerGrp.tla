---------------------------- MODULE MCServerGrp ----------------------------
(* MakePartition treats server 0 in its own way, so there is no symmetry. *)
EXTENDS ServerGrp
=============================================================================
