------------------------- MODULE MCPersistentVector -------------------------
(* Small instances of PersistentVector for TLC. *)
EXTENDS PersistentVector, TLC

(* Elements and places in the pool are interchangeable. *)
Symmetry == Permutations(Elem) \union Permutations(Block)
=============================================================================
