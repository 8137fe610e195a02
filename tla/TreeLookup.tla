----------------------------- MODULE TreeLookup -----------------------------
(***************************************************************************)
(* TreeNode::lookup and TreeObject::lookup: the leaves that match a        *)
(* request, which can leave out keys of the schema and name other keys.    *)
(***************************************************************************)
EXTENDS Tree, Functions

Items(n) == heap[n].items_

(* Slip: a key that the request leaves out selects nothing. *)
SelectsStrict(n, c, request) ==
    heap[n].key_ \in DOMAIN request /\ heap[c].value_ = request[heap[n].key_]

(* Whether the request selects the item c of n. *)
Selects(n, c, request) ==
    heap[n].key_ \in DOMAIN request => heap[c].value_ = request[heap[n].key_]

(* The loop over the items of n; found gives the results further down.     *)
Gathered(n, request, found) ==
    LET result[j \in 0..Len(Items(n))] ==
            IF j = 0 THEN <<>>
            ELSE LET c == Items(n)[j]
                     tmp_nodes == IF leaf(c) THEN <<c>> ELSE found[c]
                 IN IF Selects(n, c, request) THEN result[j - 1] \o tmp_nodes
                                              ELSE result[j - 1]
    IN result[Len(Items(n))]

lookup(n, request) ==
    LET found[m \in DOMAIN heap] == Gathered(m, request, found)
    IN IF n = 0 THEN <<>> ELSE found[n]

(* A lookup finds every leaf that was inserted under a key the request     *)
(* agrees with, each of them once, and nothing else; an insertion that is  *)
(* half way or was interrupted shows nothing of its branch.                *)
Agrees(p, request) ==
    \A n \in DOMAIN Schema : Schema[n] \in DOMAIN request => request[Schema[n]] = p[n]

LookupIsExact ==
    \A request \in Dict :
        LET found == lookup(node_, request) IN
        /\ IsInjective(found)
        /\ Range(found) = {LeafAt(p) : p \in {q \in Stored : Agrees(q, request)}}
=============================================================================
