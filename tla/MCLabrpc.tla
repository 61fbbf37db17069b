------------------------------ MODULE MCLabrpc ------------------------------
(* Calls do not change what other calls read, so one call is enough; liveness *)
(* is checked, so there is no symmetry.                                       *)
EXTENDS Labrpc
=============================================================================
