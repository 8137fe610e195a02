------------------------------- MODULE MCTree -------------------------------
(* A small instance of the tree for TLC. *)
EXTENDS TreeLookup

CONSTANTS k1, k2

TwoKeys == <<k1, k2>>
=============================================================================
