----------------------- MODULE MCPersistentPODVector -----------------------
(* A small instance of PersistentPODVector for TLC. *)
EXTENDS PersistentPODVector
=============================================================================
