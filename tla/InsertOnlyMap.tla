---------------------------- MODULE InsertOnlyMap ----------------------------
(***************************************************************************)
(* What the tree promises to the program that owns it: a map from complete *)
(* keys to data that is never changed and never shrinks.  An insertion     *)
(* takes effect at one instant between its call and its return; it returns *)
(* only when the datum is in the map, it throws only when it is not, it is *)
(* told that the key exists only when it does, and a process that dies     *)
(* keeps the map as it is.  Nodes, schema and half built branches are not  *)
(* visible here.                                                           *)
(***************************************************************************)
CONSTANTS Key,      \* the complete keys
          Datum,    \* what is stored under them
          NoArg     \* the argument of "no call in progress"

VARIABLES map,      \* the data that survive a restart
          status,   \* the progress of the insertion being executed
          arg,      \* its key and datum
          reply     \* how the last call ended

vars == <<map, status, arg, reply>>

Init == /\ map = <<>>
        /\ status = "idle"
        /\ arg = NoArg
        /\ reply = "none"

Call(k, d) == /\ status = "idle"
              /\ status' = "pending"
              /\ arg' = <<k, d>>
              /\ reply' = "none"
              /\ UNCHANGED map

(* The instant at which the datum becomes part of the map. *)
Store == /\ status = "pending"
         /\ arg[1] \notin DOMAIN map
         /\ map' = [k \in DOMAIN map \union {arg[1]} |-> IF k = arg[1] THEN arg[2] ELSE map[k]]
         /\ status' = "stored"
         /\ UNCHANGED <<arg, reply>>

End(r) == /\ status' = "idle"
          /\ arg' = NoArg
          /\ reply' = r
          /\ UNCHANGED map

Return == status = "stored" /\ End("ok")
Throw == status = "pending" /\ End("thrown")
Exists == status = "pending" /\ arg[1] \in DOMAIN map /\ End("exists")

(* A call whose key is not a complete one is refused at once. *)
Refuse == status = "idle" /\ End("refused")

(* The process dies and a new one opens the pool: the map is as it was. *)
Restart == End("none")

Next == \/ \E k \in Key, d \in Datum : Call(k, d)
        \/ Store
        \/ Return \/ Throw \/ Exists \/ Refuse
        \/ Restart

Spec == Init /\ [][Next]_vars
=============================================================================
