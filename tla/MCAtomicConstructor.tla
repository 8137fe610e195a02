------------------------- MODULE MCAtomicConstructor -------------------------
(* A small instance of nested construction for TLC. *)
EXTENDS AtomicConstructor, TLC

(* Blocks, slots and members are interchangeable. *)
Symmetry == Permutations(Block) \union Permutations(Slot) \union Permutations(Member)
=============================================================================
