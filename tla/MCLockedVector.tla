--------------------------- MODULE MCLockedVector ---------------------------
(* A small instance of the threads that share a vector, for TLC. *)
EXTENDS LockedVector
=============================================================================
