---------------------------- MODULE MCShardLeases ----------------------------
(* Instances of ShardLeases for TLC; the bounds are in the .cfg files. *)
EXTENDS ShardLeases
=============================================================================
