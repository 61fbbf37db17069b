----------------------------- MODULE MCShardCfg -----------------------------
(* Gids are compared by their order, so there is no symmetry. *)
EXTENDS ShardCfg
=============================================================================
