-------------------------------- MODULE Tree --------------------------------
(***************************************************************************)
(* The tree of the tree/ directory: TreeObject, TreeRoot, TreeNode and     *)
(* TreeSchema.  A leaf is found along the values its key gives to the keys *)
(* of the schema, in the order of the schema.  One process uses the tree   *)
(* and can die between any two durable effects.                            *)
(*                                                                         *)
(* A new branch is built bottom up from objects that nothing persistent    *)
(* refers to, and becomes part of the tree by one push_back_elem, or by    *)
(* the store of TreeRoot::node_.  No code of the tree ever frees an        *)
(* object, so the pool is the sequence of the objects allocated so far and *)
(* an address is a position in it, 0 being OID_NULL.                       *)
(*                                                                         *)
(* The items_ of a node are a PersistentVector: they appear here as the    *)
(* append-only log that PersistentVector implements, in which              *)
(* push_back_elem appends at one instant or throws.                        *)
(***************************************************************************)
EXTENDS Integers, Sequences, FiniteSets

CONSTANTS Key,          \* the names of the keys a program uses
          Value,        \* the values it gives to them
          Datum,        \* the contents of the leaves
          Schema,       \* TreeSchema::keys_, as the pool was created with it
          Empty,        \* the empty string, and the absence of a datum
          MaxObjects,   \* bound: the objects the pool has place for
          MaxCrashes    \* bound on the deaths of the process

ASSUME SchemaAssumption == Schema \in Seq(Key)
ASSUME EmptyAssumption == Empty \notin Key \union Value \union Datum
ASSUME TreeBoundsAssumption == MaxObjects \in Nat /\ MaxCrashes \in Nat

VARIABLES heap,     \* the objects allocated in the pool, in order
          node_,    \* TreeRoot::node_
          pc,       \* where the insertion being executed stands
          call,     \* its key, as processInsertKey made it, and its datum
          this,     \* the node whose addNode is executed, 0 in TreeRoot's
          key,      \* the key passed to that addNode
          i,        \* allocateNested: the key:value pairs still without a node
          pNode,    \* allocateNested: the last object that is complete
          pNewNode, \* allocateNested: the node that is not complete yet
          reply,    \* how the last call ended
          acked,    \* history: the key and datum of every insertion that returned
          failed,   \* history: the calls that ended or died in allocateNested
          crashes   \* history: how many times the process died

pool == <<heap, node_>>
building == <<i, pNode, pNewNode>>
history == <<acked, failed, crashes>>
vars == <<pool, pc, call, this, key, building, reply, history>>

-----------------------------------------------------------------------------
(***************************************************************************)
(* The objects, and the schema.                                            *)
(***************************************************************************)
Buffer(d) ==
    [type |-> "PersistentBuffer", content |-> d,
     key_ |-> Empty, value_ |-> Empty, data_ |-> 0, items_ |-> <<>>]
Node(k, v, data, items) ==
    [type |-> "TreeNode", content |-> Empty,
     key_ |-> k, value_ |-> v, data_ |-> data, items_ |-> items]

leaf(n) == heap[n].data_ # 0

(* Insertion keys and lookup requests: a value for each of some keys. *)
Dict == UNION {[K -> Value] : K \in SUBSET Key}

(* The complete keys: a value for each key of the schema. *)
Path == [1..Len(Schema) -> Value]
Values(chain) == [n \in DOMAIN chain |-> chain[n].second]

IsInsertKey(in) == /\ Cardinality(DOMAIN in) = Len(Schema)
                   /\ \A n \in 1..Len(Schema) : Schema[n] \in DOMAIN in

processInsertKey(in) ==
    [n \in 1..Len(Schema) |-> [first |-> Schema[n], second |-> in[Schema[n]]]]

-----------------------------------------------------------------------------
NoCall == [key |-> <<>>, datum |-> Empty]

Init == /\ heap = <<>>
        /\ node_ = 0
        /\ pc = "idle"
        /\ call = NoCall
        /\ this = 0
        /\ key = <<>>
        /\ i = 0 /\ pNode = 0 /\ pNewNode = 0
        /\ reply = "none"
        /\ acked = {} /\ failed = 0 /\ crashes = 0

(* The call ends; what it held in volatile memory is gone. *)
Finish(r) == /\ pc' = "idle"
             /\ call' = NoCall
             /\ this' = 0
             /\ key' = <<>>
             /\ i' = 0 /\ pNode' = 0 /\ pNewNode' = 0
             /\ reply' = r

(* allocateNested(value, keyChain), for the root or for the node this. *)
Chain == IF this = 0 THEN key ELSE Tail(key)
ValueOfTop == IF this = 0 THEN Head(key).first ELSE Head(key).second
LeafValue == IF Chain = <<>> THEN ValueOfTop ELSE Chain[Len(Chain)].second

(* Slip: a new node takes the value of its own pair, not of the one above. *)
ValueOfNodeHere(n) == Chain[n].second

ValueOfNode(n) == IF n > 1 THEN Chain[n - 1].second ELSE ValueOfTop

(* Slip: a new node takes the key of the first pair of the chain. *)
KeyOfNodeFirst(n) == Chain[1].first

KeyOfNode(n) == Chain[n].first

Space == Len(heap) < MaxObjects

(* TreeObject::addNode(key, datum), and TreeRoot::addNode. *)
AddNode(in, d) ==
    /\ pc = "idle"
    /\ IF ~IsInsertKey(in) THEN Finish("UserError")
       ELSE IF Schema = <<>> THEN Finish("AssertionFailed")
       ELSE /\ call' = [key |-> processInsertKey(in), datum |-> d]
            /\ key' = processInsertKey(in)
            /\ this' = node_
            /\ pc' = IF node_ = 0 THEN "blob" ELSE "root"
            /\ reply' = "none"
            /\ UNCHANGED building
    /\ UNCHANGED <<pool, history>>

(* TreeRoot::addNode checks the key of the root node. *)
CheckRoot ==
    /\ pc = "root"
    /\ IF heap[node_].key_ = Head(key).first
       THEN pc' = "visit" /\ UNCHANGED <<call, this, key, building, reply>>
       ELSE Finish("AssertionFailed")
    /\ UNCHANGED <<pool, history>>

(* The items of n that the scan of addNode stops at: the first that match. *)
Matches(n, v) == {j \in DOMAIN heap[n].items_ : heap[heap[n].items_[j]].value_ = v}
FirstMatch(n, v) ==
    heap[n].items_[CHOOSE j \in Matches(n, v) : \A l \in Matches(n, v) : j <= l]

(* Slip: addNode appends without looking for the value. *)
VisitWithoutScan ==
    /\ pc = "visit"
    /\ IF key = <<>> \/ leaf(this) THEN Finish("AssertionFailed")
       ELSE pc' = "blob" /\ UNCHANGED <<call, this, key, building, reply>>
    /\ UNCHANGED <<pool, history>>

(* Slip: the blob is allocated before it is known that the leaf exists. *)
VisitAllocating ==
    /\ pc = "visit"
    /\ IF key = <<>> \/ leaf(this) THEN Finish("AssertionFailed") /\ UNCHANGED heap
       ELSE IF Matches(this, Head(key).second) = {}
       THEN pc' = "blob" /\ UNCHANGED <<heap, call, this, key, building, reply>>
       ELSE IF leaf(FirstMatch(this, Head(key).second))
       THEN Finish("LeafExistsError") /\ heap' = Append(heap, Buffer(call.datum))
       ELSE /\ this' = FirstMatch(this, Head(key).second)
            /\ key' = Tail(key)
            /\ UNCHANGED <<heap, pc, call, building, reply>>
    /\ UNCHANGED <<node_, history>>

(* Slip: addNode calls itself on this node, with the same key. *)
VisitNotDescending ==
    /\ pc = "visit"
    /\ IF Matches(this, Head(key).second) = {} THEN pc' = "blob" ELSE UNCHANGED pc
    /\ UNCHANGED <<pool, call, this, key, building, reply, history>>

(* One call of TreeNode::addNode, up to its recursion or its allocation.   *)
Visit ==
    /\ pc = "visit"
    /\ IF key = <<>> \/ leaf(this) THEN Finish("AssertionFailed")
       ELSE IF heap[this].key_ # Head(key).first THEN Finish("AssertionFailed")
       ELSE IF Matches(this, Head(key).second) = {}
       THEN pc' = "blob" /\ UNCHANGED <<call, this, key, building, reply>>
       ELSE IF leaf(FirstMatch(this, Head(key).second)) THEN Finish("LeafExistsError")
       ELSE /\ this' = FirstMatch(this, Head(key).second)
            /\ key' = Tail(key)
            /\ UNCHANGED <<pc, call, building, reply>>
    /\ UNCHANGED <<pool, history>>

(* allocateLeaf: the buffer first. *)
AllocateBlob ==
    /\ pc = "blob" /\ Space
    /\ heap' = Append(heap, Buffer(call.datum))
    /\ pNode' = Len(heap')
    /\ pc' = "leaf"
    /\ UNCHANGED <<node_, call, this, key, i, pNewNode, reply, history>>

(* allocateLeaf: the node that holds it. *)
AllocateLeaf ==
    /\ pc = "leaf" /\ Space
    /\ heap' = Append(heap, Node(Empty, LeafValue, pNode, <<>>))
    /\ pNode' = Len(heap')
    /\ i' = Len(Chain)
    /\ pc' = IF Chain = <<>> THEN "link" ELSE "node"
    /\ UNCHANGED <<node_, call, this, key, pNewNode, reply, history>>

(* allocateNested: the node above the last one, without items yet. *)
AllocateNode ==
    /\ pc = "node" /\ Space
    /\ heap' = Append(heap, Node(KeyOfNode(i), ValueOfNode(i), 0, <<>>))
    /\ pNewNode' = Len(heap')
    /\ pc' = "push"
    /\ UNCHANGED <<node_, call, this, key, i, pNode, reply, history>>

(* pNewNode->items_.push_back_elem(pNode). *)
PushIntoNew ==
    /\ pc = "push"
    /\ heap' = [heap EXCEPT ![pNewNode].items_ = Append(@, pNode)]
    /\ pNode' = pNewNode
    /\ pNewNode' = 0
    /\ i' = i - 1
    /\ pc' = IF i = 1 THEN "link" ELSE "node"
    /\ UNCHANGED <<node_, call, this, key, reply, history>>

(* node_ = allocateNested(...), or items_.push_back_elem(allocateNested(...)). *)
Link ==
    /\ pc = "link"
    /\ IF this = 0
       THEN node_' = pNode /\ UNCHANGED heap
       ELSE /\ heap' = [heap EXCEPT ![this].items_ = Append(@, pNode)]
            /\ UNCHANGED node_
    /\ pc' = "return"
    /\ UNCHANGED <<call, this, key, building, reply, history>>

Return ==
    /\ pc = "return"
    /\ acked' = acked \union {<<Values(call.key), call.datum>>}
    /\ Finish("ok")
    /\ UNCHANGED <<pool, failed, crashes>>

(* An allocation fails: of an object, or of the array of an items_. *)
Abandoned == IF pNode # 0 /\ pc # "return" THEN 1 ELSE 0
AllocationFails ==
    /\ \/ pc \in {"blob", "leaf", "node", "push"}
       \/ pc = "link" /\ this # 0
    /\ failed' = failed + Abandoned
    /\ Finish("AllocationError")
    /\ UNCHANGED <<pool, acked, crashes>>

(* The process dies and a new one opens the pool. *)
Restart ==
    /\ crashes < MaxCrashes
    /\ crashes' = crashes + 1
    /\ failed' = failed + Abandoned
    /\ Finish("none")
    /\ UNCHANGED <<pool, acked>>

Step == \/ CheckRoot \/ Visit
        \/ AllocateBlob \/ AllocateLeaf \/ AllocateNode
        \/ PushIntoNew \/ Link
        \/ Return
        \/ AllocationFails

Next == \/ \E in \in Dict, d \in Datum : AddNode(in, d)
        \/ Step
        \/ Restart

(* The thread that executes a call is scheduled until the call ends. *)
Spec == Init /\ [][Next]_vars /\ WF_vars(Step)

-----------------------------------------------------------------------------
(***************************************************************************)
(* What a reader finds.                                                    *)
(***************************************************************************)
(* The node at depth n on the path p, or 0: what the scans of addNode find. *)
NodeAt(p) ==
    LET at[n \in 0..Len(Schema)] ==
            IF n = 0 THEN node_
            ELSE IF at[n - 1] = 0 \/ Matches(at[n - 1], p[n]) = {} THEN 0
            ELSE FirstMatch(at[n - 1], p[n])
    IN at

LeafAt(p) == NodeAt(p)[Len(Schema)]
Stored == {p \in Path : LeafAt(p) # 0}
DatumOf(n) == heap[heap[n].data_].content
Content == [p \in Stored |-> DatumOf(LeafAt(p))]

(* The objects a program can get to from the root. *)
Successors(n) == {heap[n].items_[j] : j \in DOMAIN heap[n].items_}
                     \union (IF leaf(n) THEN {heap[n].data_} ELSE {})
Reachable ==
    LET level[n \in 0..(Len(Schema) + 1)] ==
            IF n = 0 THEN {node_} \ {0}
            ELSE UNION {Successors(o) : o \in level[n - 1]}
    IN UNION {level[n] : n \in 0..(Len(Schema) + 1)}
Unreachable == DOMAIN heap \ Reachable

-----------------------------------------------------------------------------
(***************************************************************************)
(* Properties.                                                             *)
(***************************************************************************)
Pair == [first : Key, second : Value]
Address == 0..Len(heap)

TypeOK ==
    /\ Len(heap) <= MaxObjects
    /\ \A n \in DOMAIN heap :
          /\ heap[n].type \in {"PersistentBuffer", "TreeNode"}
          /\ heap[n].content \in Datum \union {Empty}
          /\ heap[n].key_ \in Key \union {Empty}
          /\ heap[n].value_ \in Key \union Value \union {Empty}
          /\ heap[n].data_ \in Address
          /\ heap[n].items_ \in Seq(Address)
    /\ node_ \in Address
    /\ pc \in {"idle", "root", "visit", "blob", "leaf", "node", "push", "link", "return"}
    /\ call \in [key : Seq(Pair), datum : Datum \union {Empty}]
    /\ this \in Address
    /\ key \in Seq(Pair)
    /\ i \in 0..Len(Schema)
    /\ {pNode, pNewNode} \subseteq Address
    /\ reply \in {"none", "ok", "UserError", "LeafExistsError",
                  "AllocationError", "AssertionFailed"}
    /\ acked \subseteq Path \X Datum
    /\ failed \in Nat
    /\ crashes \in 0..MaxCrashes

(* Two items of a node never have the same value, though the scan for the  *)
(* value and the append are many steps apart and calls die in between; and *)
(* the items of a node are nodes, at the depth the schema gives them.      *)
SiblingsDiffer ==
    /\ TypeOK
    /\ \A n \in DOMAIN heap : \A j, l \in DOMAIN heap[n].items_ :
          LET a == heap[heap[n].items_[j]]  b == heap[heap[n].items_[l]] IN
          /\ a.type = "TreeNode"
          /\ j # l => a.value_ # b.value_

(* A datum whose insertion returned is found under its key, unchanged,     *)
(* ever after (addNode, allocateNested).                                   *)
AckedDataKept ==
    \A p \in acked : p[1] \in Stored /\ Content[p[1]] = p[2]

(* The nodes and buffers that are not reachable were left by calls that    *)
(* threw or died while they built a branch: an insertion that returns, is  *)
(* refused, or finds that the leaf exists, leaves nothing.  (The arrays of *)
(* the items_ are counted in PersistentVector.)                            *)
GarbageOnlyByFailure ==
    Cardinality(Unreachable)
        <= (Len(Schema) + 2) * (failed + (IF pNode # 0 /\ pc # "return" THEN 1 ELSE 0))

(* Whatever was inserted, interrupted and retried before, a key that the   *)
(* schema accepts never trips an assertion of addNode on its way down.     *)
NoAssertionFails == [][reply' # "AssertionFailed"]_vars

(* Every insertion ends: no descent and no construction goes on for ever. *)
EveryCallEnds == pc # "idle" ~> pc = "idle"

(***************************************************************************)
(* The tree implements the insert-only map.                                *)
(***************************************************************************)
AbstractStatus == IF pc = "idle" THEN "idle"
                  ELSE IF pc = "return" THEN "stored" ELSE "pending"
AbstractArg == IF pc = "idle" THEN Empty ELSE <<Values(call.key), call.datum>>
AbstractReply == CASE reply = "UserError" -> "refused"
                   [] reply = "LeafExistsError" -> "exists"
                   [] reply \in {"AllocationError", "AssertionFailed"} -> "thrown"
                   [] OTHER -> reply

Abstract == INSTANCE InsertOnlyMap
                WITH Key <- Path,
                     NoArg <- Empty,
                     map <- Content,
                     status <- AbstractStatus,
                     arg <- AbstractArg,
                     reply <- AbstractReply

(* Branches appear in the tree all at once or not at all, and the scan     *)
(* tells truly whether a leaf exists: the tree is an insert-only map.      *)
ImplementsInsertOnlyMap == Abstract!Spec
=============================================================================
