--------------------------- MODULE MCTypedPointers ---------------------------
(***************************************************************************)
(* Two pools, each with one slot in its root for a pointer to a T; an S is *)
(* a T as well, and is constructed in a PersistentPtr<T> by an             *)
(* AtomicConstructorCast.                                                  *)
(***************************************************************************)
EXTENDS TypedPointers, TLC

CONSTANTS p1, p2, s1, s2, v, w, T, S

SlotPools == s1 :> p1 @@ s2 :> p2
CellTypes == s1 :> T @@ s2 :> T @@ v :> T @@ w :> S
Tags == T :> 1 @@ S :> 2
AcceptedTags == T :> {1, 2} @@ S :> {2}
BuiltTypes == {<<T, T>>, <<S, S>>, <<S, T>>}
UpOnly == {<<S, T>>}

(* Offsets and addresses are interchangeable. *)
Symmetry == Permutations(Offset) \union Permutations(Base)
=============================================================================
