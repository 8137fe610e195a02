------------------------------ MODULE MCTreeTool ------------------------------
(* Small instances of the tool for TLC. *)
EXTENDS TreeTool

CONSTANT k1

OneKey == <<k1>>
=============================================================================
