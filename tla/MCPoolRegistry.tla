--------------------------- MODULE MCPoolRegistry ---------------------------
(* Small instances of PoolRegistry for TLC. *)
EXTENDS PoolRegistry
=============================================================================
