-------------------------- MODULE AppendOnlyVector --------------------------
(***************************************************************************)
(* What pmem promises of a vector kept in a persistent pool to the program *)
(* that owns it: the elements form a log that only grows at its end, a     *)
(* push_back takes effect at one instant between its call and its return,  *)
(* it returns only when the element is in the log, it throws only when the *)
(* element is not, and a process that dies keeps the log exactly as it is. *)
(* How the vector is laid out, grown and repaired is not visible here.     *)
(***************************************************************************)
EXTENDS Sequences

CONSTANTS Elem,     \* the elements a program appends
          NoElem    \* the argument of "no call in progress", not an element

VARIABLES log,      \* the elements that survive a restart, in order
          status,   \* the progress of the push_back being executed
          arg,      \* the element of that push_back
          reply     \* how the last call ended

vars == <<log, status, arg, reply>>

TypeOK == /\ log \in Seq(Elem)
          /\ status \in {"idle", "pending", "stored"}
          /\ arg \in Elem \union {NoElem}
          /\ reply \in {"none", "ok", "thrown"}

Init == /\ log = <<>>
        /\ status = "idle"
        /\ arg = NoElem
        /\ reply = "none"

(* push_back is called. *)
Call(e) == /\ status = "idle"
           /\ status' = "pending"
           /\ arg' = e
           /\ reply' = "none"
           /\ UNCHANGED log

(* The instant at which the element becomes part of the persistent log. *)
Store == /\ status = "pending"
         /\ status' = "stored"
         /\ log' = Append(log, arg)
         /\ UNCHANGED <<arg, reply>>

(* push_back returns: the element is in the log. *)
Return == /\ status = "stored"
          /\ status' = "idle"
          /\ arg' = NoElem
          /\ reply' = "ok"
          /\ UNCHANGED log

(* push_back throws: the element is not in the log. *)
Throw == /\ status = "pending"
         /\ status' = "idle"
         /\ arg' = NoElem
         /\ reply' = "thrown"
         /\ UNCHANGED log

(* A call that is not a push_back (resize, size) never changes the log. *)
Maintain == /\ status = "idle"
            /\ reply' \in {"none", "ok", "thrown"}
            /\ UNCHANGED <<log, status, arg>>

(* The owner frees the vector. *)
Free == /\ status = "idle"
        /\ log' = <<>>
        /\ reply' = "ok"
        /\ UNCHANGED <<status, arg>>

(* The process dies and a new one opens the pool: the log is as it was. *)
Restart == /\ status' = "idle"
           /\ arg' = NoElem
           /\ reply' = "none"
           /\ UNCHANGED log

Next == \/ \E e \in Elem : Call(e)
        \/ Store
        \/ Return
        \/ Throw
        \/ Maintain
        \/ Free
        \/ Restart

Spec == Init /\ [][Next]_vars
=============================================================================
