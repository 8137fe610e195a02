------------------------------ MODULE MCBuffers ------------------------------
(* Small instances of the objects of variable size for TLC. *)
EXTENDS Buffers

VoidPointer == {"const void*, size_t"}
CharPointer == {"const char*, size_t"}
=============================================================================
