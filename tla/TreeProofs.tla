----------------------------- MODULE TreeProofs -----------------------------
(***************************************************************************)
(* Proofs about Tree, for every schema, every set of values and data, and  *)
(* every bound: the tree keeps its shape and no assertion of addNode       *)
(* fails; then, about what a program finds in it: the tree is an           *)
(* insert-only map, a datum whose insertion returned is found under its    *)
(* key ever after, and only failed calls leave objects behind.             *)
(***************************************************************************)
EXTENDS Tree, FiniteSetTheorems, WellFoundedInduction, SequenceTheorems, TLAPS

-----------------------------------------------------------------------------
(***************************************************************************)
(* The inductive invariant.                                                *)
(***************************************************************************)

Depth == Len(Schema)

Object == [type : {"PersistentBuffer", "TreeNode"},
           content : Datum \union {Empty},
           key_ : Key \union {Empty},
           value_ : Key \union Value \union {Empty},
           data_ : Nat,
           items_ : Seq(Nat)]

Nodes == {n \in DOMAIN heap : heap[n].type = "TreeNode"}
Kids(n) == {heap[n].items_[j] : j \in DOMAIN heap[n].items_}

(* The volatile half of a call: its types, and where it can stand.         *)
Insertion == {"root", "visit", "blob", "leaf", "node", "push", "link", "return"}
Types ==
    /\ heap \in Seq(Object)
    /\ Len(heap) <= MaxObjects
    /\ pc \in Insertion \union {"idle"}
    /\ reply \in {"none", "ok", "UserError", "LeafExistsError",
                  "AllocationError", "AssertionFailed"}
    /\ pc # "idle" => reply = "none"
    /\ Depth # 0 => reply # "AssertionFailed"
    /\ acked \subseteq Path \X Datum
    /\ failed \in Nat
    /\ crashes \in 0..MaxCrashes
    /\ {node_, this, pNode, pNewNode} \subseteq 0..Len(heap)
    /\ i \in 0..Depth

(* The key of a call has a value for each key of the schema; the addNode   *)
(* being executed has the rest of it.                                      *)
At == Depth - Len(key)
Keys ==
    /\ pc = "idle" => call = NoCall /\ key = <<>> /\ this = 0
    /\ pc # "idle" =>
          /\ call.datum \in Datum
          /\ call = [key |-> call.key, datum |-> call.datum]
          /\ Values(call.key) \in Path
          /\ call.key = [n \in 1..Depth |-> [first |-> Schema[n],
                                             second |-> Values(call.key)[n]]]
          /\ key \in Seq(Pair)
          /\ Len(key) \in 1..Depth
          /\ key = [n \in 1..Len(key) |-> call.key[At + n]]
          /\ this = 0 => At = 0

(* D gives each node a depth.  Above the last level a node has a key of    *)
(* the schema and nodes one level down; at the last it is a leaf, and has  *)
(* a buffer.                                                               *)
Level(D, n) ==
    /\ D[n] < Depth => heap[n].data_ = 0 /\ heap[n].key_ = Schema[D[n] + 1]
    /\ D[n] >= Depth => /\ heap[n].items_ = <<>>
                        /\ heap[n].data_ \in DOMAIN heap
                        /\ heap[heap[n].data_].type = "PersistentBuffer"
    /\ \A k \in Kids(n) : k \in Nodes /\ D[k] = D[n] + 1

Distinct(n) ==
    \A j, l \in DOMAIN heap[n].items_ :
        j # l => heap[heap[n].items_[j]].value_ # heap[heap[n].items_[l]].value_

Shape(D) ==
    /\ D \in [Nat -> 0..Depth]
    /\ \A n \in Nodes : Level(D, n) /\ Distinct(n)
    /\ \A n \in DOMAIN heap : n \notin Nodes => heap[n].items_ = <<>> /\ heap[n].data_ = 0
    /\ node_ # 0 => node_ \in Nodes /\ D[node_] = 0

(* No node is an item twice. *)
OneParent == \A n, m \in Nodes : \A k \in Kids(n) : k \in Kids(m) => n = m

(* Nothing persistent refers to n. *)
Loose(n) == n # node_ /\ \A m \in Nodes : n \notin Kids(m)

(* The addNode being executed stands at a node of its depth; when it has   *)
(* begun to allocate, the value it is for is not among the items.          *)
Stands(D) ==
    /\ pc \in {"root", "visit"} => this # 0
    /\ pc = "root" => this = node_ /\ At = 0
    /\ this # 0 => this \in Nodes /\ D[this] = At
    /\ pc \in {"blob", "leaf", "node", "push", "link"} =>
          /\ this = 0 => node_ = 0
          /\ this # 0 => \A k \in Kids(this) : heap[k].value_ # Head(key).second

(* The depth of the branch being built, and of its last complete node.     *)
Top == Depth - Len(Chain)
Value_(n) == call.key[n].second

Builds(D) ==
    /\ pc = "leaf" => pNode # 0 /\ heap[pNode] = Buffer(call.datum)
    /\ pc \in {"node", "push", "link"} =>
          /\ i <= Len(Chain)
          /\ pNode \in Nodes /\ Loose(pNode)
          /\ D[pNode] = Top + i
          /\ Top + i >= 1 => heap[pNode].value_ = Value_(Top + i)
    /\ pc \in {"node", "push"} => i # 0
    /\ pc = "link" => i = 0
    /\ pc = "push" =>
          /\ pNewNode \in Nodes /\ Loose(pNewNode)
          /\ D[pNewNode] = (Top + i) - 1
          /\ heap[pNewNode].items_ = <<>>
          /\ Top + i > 1 => heap[pNewNode].value_ = Value_((Top + i) - 1)

Whole(D) == Shape(D) /\ Stands(D) /\ Builds(D)

Core == Types /\ Keys /\ OneParent /\ \E D \in [Nat -> 0..Depth] : Whole(D)

-----------------------------------------------------------------------------
(***************************************************************************)
(* What happens to the heap.                                               *)
(***************************************************************************)

(* The schema is a finite sequence of keys. *)
LEMMA SchemaFacts == Depth \in Nat /\ \A n \in 1..Depth : Schema[n] \in Key
BY SchemaAssumption, LenProperties, ElementOfSeq DEF Depth

(* A function on 1..n is a sequence. *)
LEMMA FunctionIsSeq ==
    ASSUME NEW S, NEW n \in Nat, NEW f \in [1..n -> S]
    PROVE  f \in Seq(S)
OBVIOUS

(* The places of the heap. *)
LEMMA HeapFacts ==
    ASSUME heap \in Seq(Object)
    PROVE  /\ Len(heap) \in Nat
           /\ DOMAIN heap = 1..Len(heap)
           /\ \A n \in DOMAIN heap : heap[n] \in Object /\ n # 0 /\ n \in Nat
           /\ Nodes \subseteq DOMAIN heap
BY LenProperties, ElementOfSeq DEF Nodes

(* An allocation adds an object and changes no other. *)
LEMMA GrownHeap ==
    ASSUME heap \in Seq(Object), NEW o \in Object, heap' = Append(heap, o)
    PROVE  /\ heap' \in Seq(Object)
           /\ Len(heap') = Len(heap) + 1
           /\ heap'[Len(heap) + 1] = o
           /\ DOMAIN heap' = DOMAIN heap \union {Len(heap) + 1}
           /\ Len(heap) + 1 \notin DOMAIN heap
           /\ \A n \in DOMAIN heap : /\ heap'[n] = heap[n]
                                     /\ Kids(n)' = Kids(n)
           /\ Nodes' = IF o.type = "TreeNode" THEN Nodes \union {Len(heap) + 1} ELSE Nodes
<1>1. Len(heap) \in Nat /\ DOMAIN heap = 1..Len(heap)
  BY HeapFacts
<1>2. /\ heap' \in Seq(Object)
      /\ Len(heap') = Len(heap) + 1
      /\ \A n \in 1..Len(heap) : heap'[n] = heap[n]
      /\ heap'[Len(heap) + 1] = o
  BY AppendProperties
<1>3. DOMAIN heap' = 1..(Len(heap) + 1)
  BY <1>1, <1>2, LenProperties
<1>4. Nodes' = IF o.type = "TreeNode" THEN Nodes \union {Len(heap) + 1} ELSE Nodes
  BY <1>1, <1>2, <1>3 DEF Nodes
<1>5. \A n \in DOMAIN heap : Kids(n)' = Kids(n)
  BY <1>1, <1>2 DEF Kids
<1> QED BY <1>1, <1>2, <1>3, <1>4, <1>5

(* The object o is allocated at a, and its own fields say that its depth,  *)
(* if it is a node, is d.                                                  *)
Growth(D, E, a, o, d) ==
    /\ heap' = Append(heap, o) /\ node_' = node_
    /\ a = Len(heap) + 1
    /\ E = [D EXCEPT ![a] = d]
    /\ o.items_ = <<>>
    /\ o.type = "TreeNode" => IF d < Depth THEN o.data_ = 0 /\ o.key_ = Schema[d + 1]
                              ELSE /\ o.data_ \in DOMAIN heap
                                   /\ heap[o.data_].type = "PersistentBuffer"
    /\ o.type # "TreeNode" => o.data_ = 0

(* A new object fits the shape of the tree if its own fields do. *)
LEMMA GrownShape ==
    ASSUME heap \in Seq(Object), NEW D, Shape(D), OneParent,
           NEW o \in Object, NEW a, NEW E, NEW d \in 0..Depth, Growth(D, E, a, o, d)
    PROVE  /\ Shape(E)'
           /\ OneParent'
           /\ E[a] = d
           /\ \A n \in DOMAIN heap : E[n] = D[n]
           /\ \A n \in 1..a : Loose(n)' <=>
                  IF n = a THEN TRUE ELSE Loose(n)
<1> USE DEF Growth
<1>1. /\ Depth \in Nat /\ Len(heap) \in Nat /\ DOMAIN heap = 1..Len(heap)
      /\ \A n \in DOMAIN heap : heap[n] \in Object
      /\ Nodes \subseteq DOMAIN heap
  BY SchemaFacts, HeapFacts
<1>2. /\ heap'[a] = o /\ DOMAIN heap' = DOMAIN heap \union {a} /\ a \notin DOMAIN heap
      /\ \A n \in DOMAIN heap : heap'[n] = heap[n] /\ Kids(n)' = Kids(n)
      /\ Nodes' = IF o.type = "TreeNode" THEN Nodes \union {a} ELSE Nodes
  BY GrownHeap
<1>3. /\ D \in [Nat -> 0..Depth] /\ E \in [Nat -> 0..Depth] /\ E[a] = d
      /\ \A n \in DOMAIN heap : E[n] = D[n]
  <2>1. a \in Nat /\ DOMAIN heap \subseteq Nat /\ a \notin DOMAIN heap
    BY <1>1
  <2>2. D \in [Nat -> 0..Depth]
    BY DEF Shape
  <2> QED BY <2>1, <2>2
<1>4. Kids(a)' = {}
  BY <1>2 DEF Kids
<1>5. ASSUME NEW n \in Nodes PROVE Level(E, n)' /\ Distinct(n)'
  <2>1. n \in DOMAIN heap /\ Level(D, n) /\ Distinct(n) /\ heap'[n] = heap[n] /\ Kids(n)' = Kids(n)
    BY <1>1, <1>2 DEF Shape
  <2>2. \A k \in Kids(n) : k \in Nodes /\ k \in DOMAIN heap
    BY <1>1, <2>1 DEF Level
  <2>3. Level(E, n)'
    <3>1. E[n] = D[n] /\ \A k \in Kids(n) : E[k] = D[k]
      BY <1>3, <2>1, <2>2
    <3>2. \A k \in Kids(n)' : k \in Nodes' /\ E[k] = E[n] + 1
      BY <1>2, <2>1, <2>2, <3>1 DEF Level
    <3>3. ASSUME E[n] >= Depth
          PROVE  /\ heap'[n].items_ = <<>>
                 /\ heap'[n].data_ \in DOMAIN heap'
                 /\ heap'[heap'[n].data_].type = "PersistentBuffer"
      BY <1>2, <2>1, <3>1, <3>3 DEF Level
    <3>4. E[n] < Depth => heap'[n].data_ = 0 /\ heap'[n].key_ = Schema[E[n] + 1]
      BY <2>1, <3>1 DEF Level
    <3> QED BY <3>2, <3>3, <3>4 DEF Level, Depth
  <2>4. Distinct(n)'
    <3>1. \A j \in DOMAIN heap[n].items_ : heap[n].items_[j] \in DOMAIN heap
      BY <2>2 DEF Kids
    <3> QED BY <1>2, <2>1, <3>1 DEF Distinct
  <2> QED BY <2>3, <2>4
<1>6. ASSUME o.type = "TreeNode" PROVE Level(E, a)' /\ Distinct(a)'
  <2>1. Distinct(a)'
    BY <1>2 DEF Distinct
  <2>2. ASSUME d >= Depth
        PROVE  /\ heap'[a].items_ = <<>>
               /\ heap'[a].data_ \in DOMAIN heap'
               /\ heap'[heap'[a].data_].type = "PersistentBuffer"
    <3>1. o.data_ \in DOMAIN heap /\ heap[o.data_].type = "PersistentBuffer"
      <4>1. ~(d < Depth)
        BY <1>1, <2>2
      <4> QED BY <1>6, <4>1
    <3>2. heap'[a] = o /\ o.items_ = <<>>
      BY <1>2
    <3>3. o.data_ \in DOMAIN heap' /\ heap'[o.data_] = heap[o.data_]
      BY <1>2, <3>1
    <3> QED BY <3>1, <3>2, <3>3, Zenon
  <2>3. d < Depth => heap'[a].data_ = 0 /\ heap'[a].key_ = Schema[d + 1]
    BY <1>2, <1>6
  <2> QED BY <1>3, <1>4, <2>1, <2>2, <2>3 DEF Level, Depth
<1>7. Shape(E)'
  <2>1. \A n \in Nodes' : Level(E, n)' /\ Distinct(n)'
    BY <1>2, <1>5, <1>6
  <2>2. ASSUME NEW n \in DOMAIN heap', n \notin Nodes'
        PROVE  heap'[n].items_ = <<>> /\ heap'[n].data_ = 0
    <3>1. CASE n = a
      <4>1. o.type # "TreeNode"
        BY <1>2, <2>2, <3>1
      <4> QED BY <1>2, <3>1, <4>1
    <3>2. CASE n # a
      <4>1. n \in DOMAIN heap /\ n \notin Nodes /\ heap'[n] = heap[n]
        BY <1>2, <2>2, <3>2
      <4> QED BY <4>1 DEF Shape
    <3> QED BY <3>1, <3>2
  <2>3. node_' # 0 => node_' \in Nodes' /\ E[node_'] = 0
    BY <1>1, <1>2, <1>3 DEF Shape
  <2> QED BY <1>3, <2>1, <2>2, <2>3 DEF Shape, Depth
<1>8. OneParent'
  <2>1. \A n \in Nodes : n # a /\ n \in DOMAIN heap /\ Kids(n)' = Kids(n)
    BY <1>1, <1>2
  <2>2. ASSUME NEW n \in Nodes', NEW m \in Nodes', NEW k \in Kids(n)', k \in Kids(m)'
        PROVE  n = m
    BY <1>2, <1>4, <2>1, <2>2 DEF OneParent
  <2> QED BY <2>2 DEF OneParent
<1>9. \A m \in Nodes : a \notin Kids(m)
  BY <1>1, <1>2 DEF Shape, Level
<1>10. \A n \in 1..a : Loose(n)' <=> IF n = a THEN TRUE ELSE Loose(n)
  <2>1. \A n \in 1..a : Loose(n)' <=> /\ n # node_
                                      /\ \A m \in Nodes : n \notin Kids(m)
    BY <1>1, <1>2, <1>4 DEF Loose
  <2>2. node_ # a
    <3>1. node_ = 0 \/ node_ \in Nodes
      BY DEF Shape
    <3> QED BY <1>1, <1>2, <3>1
  <2> QED BY <1>9, <2>1, <2>2 DEF Loose
<1> QED BY <1>3, <1>7, <1>8, <1>10

Adoption(n, k) == heap' = [heap EXCEPT ![n].items_ = Append(@, k)]

(* push_back_elem adds an item to one node and changes nothing else. *)
LEMMA AdoptedHeap ==
    ASSUME heap \in Seq(Object), NEW n \in DOMAIN heap, NEW k \in Nat, Adoption(n, k)
    PROVE  /\ heap' \in Seq(Object)
           /\ Len(heap') = Len(heap)
           /\ DOMAIN heap' = DOMAIN heap
           /\ Nodes' = Nodes
           /\ \A m \in DOMAIN heap : /\ m # n => heap'[m] = heap[m]
                                     /\ heap'[m].type = heap[m].type
                                     /\ heap'[m].content = heap[m].content
                                     /\ heap'[m].key_ = heap[m].key_
                                     /\ heap'[m].value_ = heap[m].value_
                                     /\ heap'[m].data_ = heap[m].data_
                                     /\ Kids(m)' = IF m = n THEN Kids(m) \union {k} ELSE Kids(m)
           /\ heap'[n].items_ = Append(heap[n].items_, k)
<1>1. /\ Len(heap) \in Nat /\ DOMAIN heap = 1..Len(heap)
      /\ \A m \in DOMAIN heap : heap[m] \in Object
  BY HeapFacts
<1> DEFINE new == [heap[n] EXCEPT !.items_ = Append(heap[n].items_, k)]
<1>2. heap[n].items_ \in Seq(Nat)
  BY <1>1 DEF Object
<1>3. Append(heap[n].items_, k) \in Seq(Nat)
  BY <1>2, AppendProperties
<1>4. /\ new \in Object
      /\ new.items_ = Append(heap[n].items_, k)
      /\ new.type = heap[n].type /\ new.content = heap[n].content
      /\ new.key_ = heap[n].key_ /\ new.value_ = heap[n].value_
      /\ new.data_ = heap[n].data_
  BY <1>1, <1>3 DEF Object
<1>5. heap' = [heap EXCEPT ![n] = new]
  BY DEF Adoption
<1> HIDE DEF new
<1>6. /\ heap' \in Seq(Object) /\ Len(heap') = Len(heap) /\ DOMAIN heap' = DOMAIN heap
      /\ heap'[n] = new
      /\ \A m \in DOMAIN heap : m # n => heap'[m] = heap[m]
  <2>1. new \in Object /\ n \in 1..Len(heap)
    BY <1>1, <1>4
  <2>2. /\ heap' \in Seq(Object) /\ Len(heap') = Len(heap)
        /\ \A m \in 1..Len(heap) : heap'[m] = IF m = n THEN new ELSE heap[m]
    BY <1>5, <2>1, ExceptSeq
  <2> QED BY <1>1, <2>1, <2>2, LenProperties
<1>7. Nodes' = Nodes
  BY <1>4, <1>6 DEF Nodes
<1>8. ASSUME NEW m \in DOMAIN heap, m # n PROVE Kids(m)' = Kids(m)
  BY <1>6, <1>8 DEF Kids
<1>9. Kids(n)' = Kids(n) \union {k}
  <2> DEFINE s == heap[n].items_
  <2>1. /\ DOMAIN Append(s, k) = DOMAIN s \union {Len(s) + 1}
        /\ Append(s, k)[Len(s) + 1] = k
        /\ \A j \in DOMAIN s : Append(s, k)[j] = s[j]
    BY <1>2, <1>3, AppendProperties, LenProperties
  <2>2. heap'[n].items_ = Append(s, k)
    BY <1>4, <1>6
  <2> HIDE DEF s
  <2>3. Kids(n)' = {Append(s, k)[j] : j \in DOMAIN Append(s, k)}
    BY <2>2 DEF Kids
  <2>4. Kids(n) = {s[j] : j \in DOMAIN s}
    BY DEF Kids, s
  <2> QED BY <2>1, <2>3, <2>4
<1> QED BY <1>4, <1>6, <1>7, <1>8, <1>9

(* A complete branch that is adopted where its depth says, under a value   *)
(* that no item has yet, leaves the shape of the tree as it was.           *)
LEMMA AdoptedShape ==
    ASSUME heap \in Seq(Object), NEW D, Shape(D), OneParent,
           NEW n \in Nodes, NEW k \in Nodes, D[k] = D[n] + 1, Loose(k),
           \A m \in Kids(n) : heap[m].value_ # heap[k].value_,
           Adoption(n, k), node_' = node_
    PROVE  /\ Shape(D)'
           /\ OneParent'
           /\ \A m : Loose(m) /\ m # k => Loose(m)'
<1>1. /\ Depth \in Nat /\ DOMAIN heap = 1..Len(heap) /\ Nodes \subseteq DOMAIN heap
      /\ \A m \in DOMAIN heap : heap[m] \in Object
      /\ n \in DOMAIN heap /\ k \in DOMAIN heap /\ k \in Nat
  BY SchemaFacts, HeapFacts
<1>2. /\ DOMAIN heap' = DOMAIN heap
      /\ Nodes' = Nodes
      /\ \A m \in DOMAIN heap : /\ m # n => heap'[m] = heap[m]
                                /\ heap'[m].type = heap[m].type
                                /\ heap'[m].key_ = heap[m].key_
                                /\ heap'[m].value_ = heap[m].value_
                                /\ heap'[m].data_ = heap[m].data_
                                /\ Kids(m)' = IF m = n THEN Kids(m) \union {k} ELSE Kids(m)
      /\ heap'[n].items_ = Append(heap[n].items_, k)
  BY <1>1, AdoptedHeap
<1>3. D \in [Nat -> 0..Depth] /\ D[n] < Depth /\ D[n] \in Nat
  <2>1. D \in [Nat -> 0..Depth]
    BY DEF Shape
  <2>2. D[n] \in 0..Depth /\ D[k] \in 0..Depth
    BY <1>1, <2>1
  <2>3. \A x, y \in 0..Depth : y = x + 1 => x < Depth /\ x \in Nat
    BY <1>1
  <2> QED BY <2>1, <2>2, <2>3, Zenon
<1>4. ASSUME NEW m \in Nodes PROVE Level(D, m)'
  <2>1. m \in DOMAIN heap /\ Level(D, m)
    BY <1>1 DEF Shape
  <2>2. \A c \in Kids(m)' : c \in Nodes' /\ D[c] = D[m] + 1
    BY <1>2, <2>1 DEF Level
  <2>3. D[m] < Depth => heap'[m].data_ = 0 /\ heap'[m].key_ = Schema[D[m] + 1]
    BY <1>2, <2>1 DEF Level
  <2>4. ASSUME D[m] >= Depth
        PROVE  /\ heap'[m].items_ = <<>>
               /\ heap'[m].data_ \in DOMAIN heap'
               /\ heap'[heap'[m].data_].type = "PersistentBuffer"
    <3>1. m # n
      <4>1. D[n] < Depth /\ D[n] \in Nat /\ Depth \in Nat
        BY <1>1, <1>3
      <4>2. ~(D[n] >= Depth)
        BY <4>1
      <4> QED BY <2>4, <4>2, Zenon
    <3> QED BY <1>2, <2>1, <2>4, <3>1 DEF Level
  <2> QED BY <2>2, <2>3, <2>4 DEF Level, Depth
<1>5. ASSUME NEW m \in Nodes PROVE Distinct(m)'
  <2>1. m \in DOMAIN heap /\ Distinct(m) /\ \A j \in DOMAIN heap[m].items_ :
            heap[m].items_[j] \in DOMAIN heap
    BY <1>1 DEF Shape, Level, Kids
  <2>2. CASE m # n
    BY <1>2, <2>1, <2>2 DEF Distinct
  <2>3. CASE m = n
    <3> DEFINE s == heap[n].items_
    <3>1. s \in Seq(Nat)
      BY <1>1 DEF Object
    <3>2. /\ DOMAIN Append(s, k) = DOMAIN s \union {Len(s) + 1}
          /\ Append(s, k)[Len(s) + 1] = k
          /\ \A j \in DOMAIN s : Append(s, k)[j] = s[j]
      BY <1>1, <3>1, AppendProperties, LenProperties
    <3>3. \A j \in DOMAIN s : s[j] \in Kids(n)
      BY DEF Kids
    <3>4. \A j \in DOMAIN s : heap[s[j]].value_ # heap[k].value_
      BY <3>3
    <3>5. \A j \in DOMAIN s : s[j] \in DOMAIN heap
      BY <2>1, <2>3
    <3>6. \A j, l \in DOMAIN s : j # l => heap[s[j]].value_ # heap[s[l]].value_
      BY <2>1, <2>3 DEF Distinct
    <3>7. heap'[m].items_ = Append(s, k)
      BY <1>2, <2>3
    <3> HIDE DEF s
    <3>8. ASSUME NEW j \in DOMAIN Append(s, k), NEW l \in DOMAIN Append(s, k), j # l
          PROVE  heap'[Append(s, k)[j]].value_ # heap'[Append(s, k)[l]].value_
      <4>1. CASE j \in DOMAIN s /\ l \in DOMAIN s
        BY <1>2, <3>2, <3>5, <3>6, <3>8, <4>1
      <4>2. CASE j \in DOMAIN s /\ l \notin DOMAIN s
        BY <1>1, <1>2, <3>2, <3>4, <3>5, <3>8, <4>2
      <4>3. CASE j \notin DOMAIN s /\ l \in DOMAIN s
        BY <1>1, <1>2, <3>2, <3>4, <3>5, <3>8, <4>3
      <4> QED BY <3>2, <3>8, <4>1, <4>2, <4>3
    <3>9. \A j, l \in DOMAIN heap'[m].items_ :
              j # l => heap'[heap'[m].items_[j]].value_ # heap'[heap'[m].items_[l]].value_
      BY <3>7, <3>8, Zenon
    <3> QED BY <3>9 DEF Distinct
  <2> QED BY <2>2, <2>3
<1>6. Shape(D)'
  <2>1. \A m \in DOMAIN heap' : m \notin Nodes' => heap'[m].items_ = <<>> /\ heap'[m].data_ = 0
    BY <1>1, <1>2 DEF Shape
  <2>2. node_' # 0 => node_' \in Nodes' /\ D[node_'] = 0
    BY <1>2 DEF Shape
  <2> QED BY <1>2, <1>3, <1>4, <1>5, <2>1, <2>2 DEF Shape, Depth
<1>7. OneParent'
  BY <1>1, <1>2 DEF OneParent, Loose
<1>8. \A m : Loose(m) /\ m # k => Loose(m)'
  BY <1>1, <1>2 DEF Loose
<1> QED BY <1>6, <1>7, <1>8

(* While the pool stays as it is, so does the shape of the tree. *)
LEMMA StillShape ==
    ASSUME UNCHANGED pool
    PROVE  /\ \A D : Shape(D) => Shape(D)'
           /\ OneParent => OneParent'
           /\ \A n : Loose(n) => Loose(n)'
           /\ Nodes' = Nodes
           /\ \A n : Kids(n)' = Kids(n)
<1>1. heap' = heap /\ node_' = node_
  BY DEF pool
<1>2. Nodes' = Nodes /\ \A n : Kids(n)' = Kids(n)
  BY <1>1 DEF Nodes, Kids
<1>3. \A D, n : (Level(D, n) => Level(D, n)') /\ (Distinct(n) => Distinct(n)')
  BY <1>1, <1>2 DEF Level, Distinct, Depth
<1> QED BY <1>1, <1>2, <1>3 DEF Shape, OneParent, Loose, Depth

(* The scan of addNode finds the item that has the value, if there is one. *)
LEMMA Scan ==
    ASSUME heap \in Seq(Object), NEW D, Shape(D), NEW n \in Nodes, NEW v
    PROVE  /\ Matches(n, v) = {} <=> \A k \in Kids(n) : heap[k].value_ # v
           /\ \A k \in Kids(n) : heap[k].value_ = v => FirstMatch(n, v) = k
           /\ Matches(n, v) # {} => /\ FirstMatch(n, v) \in Kids(n)
                                    /\ heap[FirstMatch(n, v)].value_ = v
<1> DEFINE s == heap[n].items_
<1>1. s \in Seq(Nat) /\ DOMAIN s \subseteq Nat
  BY HeapFacts, LenProperties DEF Object
<1>2. \A j, l \in DOMAIN s : j # l => heap[s[j]].value_ # heap[s[l]].value_
  BY DEF Shape, Distinct
<1>3. Kids(n) = {s[j] : j \in DOMAIN s}
  BY DEF Kids
<1>4. Matches(n, v) = {j \in DOMAIN s : heap[s[j]].value_ = v}
  BY DEF Matches
<1>5. FirstMatch(n, v) =
          s[CHOOSE j \in Matches(n, v) : \A l \in Matches(n, v) : j <= l]
  BY DEF FirstMatch
<1> HIDE DEF s
<1>6. Matches(n, v) = {} <=> \A k \in Kids(n) : heap[k].value_ # v
  BY <1>3, <1>4
<1>7. ASSUME NEW j \in Matches(n, v) PROVE FirstMatch(n, v) = s[j]
  <2>1. Matches(n, v) = {j}
    BY <1>2, <1>4
  <2>2. \E m \in Matches(n, v) : \A l \in Matches(n, v) : m <= l
    BY <1>1, <1>4, <2>1
  <2>3. (CHOOSE m \in Matches(n, v) : \A l \in Matches(n, v) : m <= l) \in Matches(n, v)
    BY <2>2
  <2> QED BY <1>5, <2>1, <2>3
<1>8. \A k \in Kids(n) : heap[k].value_ = v => FirstMatch(n, v) = k
  BY <1>3, <1>4, <1>7
<1>9. Matches(n, v) # {} => /\ FirstMatch(n, v) \in Kids(n)
                            /\ heap[FirstMatch(n, v)].value_ = v
  BY <1>3, <1>4, <1>7
<1> QED BY <1>6, <1>8, <1>9

-----------------------------------------------------------------------------
(***************************************************************************)
(* What happens to a call.                                                 *)
(***************************************************************************)

(* The key passed to an addNode is the rest of the key of the call.        *)
LEMMA KeyFacts ==
    ASSUME Keys, pc # "idle"
    PROVE  /\ Depth \in Nat /\ Depth # 0
           /\ Len(key) \in 1..Depth /\ At \in 0..(Depth - 1)
           /\ key \in Seq(Pair) /\ key # <<>>
           /\ Head(key) = call.key[At + 1]
           /\ Head(key).first = Schema[At + 1]
           /\ Head(key).second = Value_(At + 1)
           /\ \A n \in 1..Depth : /\ call.key[n] \in Pair
                                  /\ call.key[n].first = Schema[n]
                                  /\ call.key[n].second = Value_(n)
                                  /\ Value_(n) = Values(call.key)[n]
                                  /\ Value_(n) \in Value
           /\ Tail(key) \in Seq(Pair) /\ Len(Tail(key)) = Len(key) - 1
           /\ \A n \in 1..(Len(key) - 1) : Tail(key)[n] = call.key[At + 1 + n]
<1>1. /\ Depth \in Nat /\ Depth # 0
      /\ Len(key) \in 1..Depth /\ At \in 0..(Depth - 1) /\ key \in Seq(Pair)
      /\ key = [n \in 1..Len(key) |-> call.key[At + n]]
  BY SchemaFacts DEF Keys, At
<1>2. \A n \in 1..Len(key) : key[n] = call.key[At + n]
  BY <1>1
<1>3. key # <<>>
  BY <1>1, EmptySeq
<1>4. /\ Head(key) = key[1]
      /\ Tail(key) \in Seq(Pair) /\ Len(Tail(key)) = Len(key) - 1
      /\ \A n \in 1..(Len(key) - 1) : Tail(key)[n] = key[n + 1]
  BY <1>1, <1>3, HeadTailProperties, LenProperties
<1>5. \A n \in 1..Depth : /\ call.key[n].first = Schema[n]
                          /\ call.key[n].second = Values(call.key)[n]
                          /\ Values(call.key)[n] \in Value
                          /\ call.key[n] \in Pair
  <2> DEFINE w == Values(call.key)
  <2>1. /\ call.key = [n \in 1..Depth |-> [first |-> Schema[n], second |-> w[n]]]
        /\ w \in [1..Depth -> Value]
    BY DEF Keys, Path, Depth
  <2> HIDE DEF w
  <2>2. \A n \in 1..Depth : w[n] \in Value /\ Schema[n] \in Key
    BY <2>1, SchemaFacts
  <2>3. \A n \in 1..Depth : call.key[n] = [first |-> Schema[n], second |-> w[n]]
    BY <2>1
  <2>4. ASSUME NEW n \in 1..Depth
        PROVE  /\ call.key[n].first = Schema[n]
               /\ call.key[n].second = w[n]
               /\ call.key[n] \in Pair
    <3>1. [first |-> Schema[n], second |-> w[n]] \in Pair
      BY <2>2 DEF Pair
    <3>2. call.key[n] = [first |-> Schema[n], second |-> w[n]]
      BY <2>3
    <3> QED BY <3>1, <3>2
  <2> QED BY <2>2, <2>4 DEF w
<1>6. \A n \in 1..(Len(key) - 1) : Tail(key)[n] = call.key[At + 1 + n]
  <2>1. \A n \in 1..(Len(key) - 1) : n + 1 \in 1..Len(key) /\ At + (n + 1) = At + 1 + n
    BY <1>1
  <2> QED BY <1>2, <1>4, <2>1
<1>7. Head(key) = call.key[At + 1] /\ At + 1 \in 1..Depth
  BY <1>1, <1>2, <1>4
<1> QED BY <1>1, <1>3, <1>4, <1>5, <1>6, <1>7 DEF Value_

(* allocateNested builds one node for every pair of the chain: the last of *)
(* its values is the leaf's, the first is the one the scan was for.        *)
LEMMA ChainFacts ==
    ASSUME Keys, pc # "idle"
    PROVE  /\ Depth \in Nat
           /\ Len(Chain) \in 0..Depth
           /\ Chain = <<>> <=> Len(Chain) = 0
           /\ Top \in 0..Depth /\ Top + Len(Chain) = Depth
           /\ Top = IF this = 0 THEN 0 ELSE At + 1
           /\ this # 0 => Head(key).second = Value_(Top)
           /\ LeafValue = Value_(Depth)
           /\ LeafValue \in Value
           /\ \A n \in 1..Len(Chain) :
                 /\ KeyOfNode(n) = Schema[Top + n]
                 /\ KeyOfNode(n) \in Key
                 /\ ValueOfNode(n) \in Key \union Value
                 /\ Top + n > 1 => ValueOfNode(n) = Value_((Top + n) - 1)
<1>1. Depth \in Nat /\ Depth # 0 /\ Len(key) \in 1..Depth /\ At \in 0..(Depth - 1)
  BY KeyFacts
<1>2. At = Depth - Len(key) /\ (this = 0 => At = 0)
  BY DEF Keys, At
<1>3. /\ key \in Seq(Pair)
      /\ Tail(key) \in Seq(Pair) /\ Len(Tail(key)) = Len(key) - 1
  BY KeyFacts
<1>4. /\ Chain \in Seq(Pair)
      /\ Top = IF this = 0 THEN 0 ELSE At + 1
      /\ Len(Chain) = Depth - Top
  <2>1. CASE this = 0
    <3>1. Chain = key /\ At = 0
      BY <1>2, <2>1 DEF Chain
    <3>2. Top = 0 /\ Len(Chain) = Depth - Top
      BY <1>1, <1>2, <3>1 DEF Top
    <3> QED BY <1>3, <2>1, <3>1, <3>2
  <2>2. CASE this # 0
    <3>1. Chain = Tail(key)
      BY <2>2 DEF Chain
    <3>2. Len(Chain) = Len(key) - 1
      BY <1>3, <3>1, Zenon
    <3>3. Top = Depth - (Len(key) - 1)
      BY <3>2, Zenon DEF Top
    <3>4. Top = At + 1 /\ Len(key) - 1 = Depth - Top
      BY <1>1, <1>2, <3>3
    <3> QED BY <1>3, <2>2, <3>1, <3>2, <3>4, Zenon
  <2> QED BY <2>1, <2>2
<1>5. /\ Top \in 0..Depth /\ Len(Chain) \in 0..Depth /\ Top + Len(Chain) = Depth
      /\ this # 0 => Top \in 1..Depth
  <2>1. CASE this = 0
    BY <1>1, <1>4, <2>1
  <2>2. CASE this # 0
    BY <1>1, <1>4, <2>2
  <2> QED BY <2>1, <2>2
<1>6. \A n \in 1..Len(Chain) : Chain[n] = call.key[Top + n] /\ Top + n \in 1..Depth
  <2>1. CASE this = 0
    <3>1. Chain = key /\ Top = At
      BY <1>2, <1>4, <2>1 DEF Chain
    <3>2. key = [n \in 1..Len(key) |-> call.key[At + n]]
      BY DEF Keys
    <3>3. \A n \in 1..Len(key) : key[n] = call.key[At + n]
      BY <3>2
    <3>4. \A n \in 1..Len(Chain) : Chain[n] = call.key[Top + n]
      BY <3>1, <3>3, Zenon
    <3>5. \A n \in 1..Len(Chain) : Top + n \in 1..Depth
      BY <1>1, <1>5
    <3> QED BY <3>4, <3>5
  <2>2. CASE this # 0
    <3>1. Chain = Tail(key) /\ Top = At + 1
      BY <1>4, <2>2 DEF Chain
    <3>2. \A n \in 1..(Len(key) - 1) : Tail(key)[n] = call.key[At + 1 + n]
      BY KeyFacts
    <3>3. \A n \in 1..(Len(key) - 1) : Chain[n] = call.key[At + 1 + n]
      BY <3>1, <3>2, Zenon
    <3>4. Len(Chain) = Len(key) - 1
      BY <1>3, <3>1, Zenon
    <3> QED BY <1>1, <1>2, <3>1, <3>3, <3>4
  <2> QED BY <2>1, <2>2
<1>7. Chain = <<>> <=> Len(Chain) = 0
  BY <1>4, EmptySeq
<1>8. \A n \in 1..Depth : /\ call.key[n].first = Schema[n]
                          /\ call.key[n].second = Value_(n)
                          /\ Value_(n) \in Value
                          /\ Schema[n] \in Key
  BY KeyFacts, SchemaFacts
<1>9. /\ this = 0 => ValueOfTop = Schema[1]
      /\ this # 0 => ValueOfTop = Value_(Top)
      /\ this # 0 => Head(key).second = Value_(Top)
  <2>1. Head(key).first = Schema[At + 1] /\ Head(key).second = Value_(At + 1)
    BY KeyFacts
  <2>2. CASE this = 0
    <3>1. At + 1 = 1
      BY <1>2, <2>2
    <3> QED BY <2>1, <2>2, <3>1 DEF ValueOfTop
  <2>3. CASE this # 0
    BY <1>4, <2>1, <2>3 DEF ValueOfTop
  <2> QED BY <2>2, <2>3
<1>10. LeafValue = Value_(Depth) /\ LeafValue \in Value
  <2>0. Depth \in 1..Depth
    BY <1>1
  <2>1. CASE Chain = <<>>
    <3>1. Top = Depth
      BY <1>1, <1>5, <1>7, <2>1
    <3>2. this # 0
      BY <1>1, <1>4, <3>1
    <3>3. LeafValue = Value_(Depth)
      BY <1>9, <2>1, <3>1, <3>2 DEF LeafValue
    <3> QED BY <1>8, <2>0, <3>3
  <2>2. CASE Chain # <<>>
    <3>1. Len(Chain) \in 1..Len(Chain) /\ Top + Len(Chain) = Depth
      BY <1>1, <1>5, <1>7, <2>2
    <3>2. Chain[Len(Chain)] = call.key[Depth]
      BY <1>6, <3>1
    <3> QED BY <1>8, <2>0, <2>2, <3>2 DEF LeafValue
  <2> QED BY <2>1, <2>2
<1>11. ASSUME NEW n \in 1..Len(Chain)
       PROVE  /\ KeyOfNode(n) = Schema[Top + n]
              /\ KeyOfNode(n) \in Key
              /\ ValueOfNode(n) \in Key \union Value
              /\ Top + n > 1 => ValueOfNode(n) = Value_((Top + n) - 1)
  <2>1. KeyOfNode(n) = Schema[Top + n] /\ KeyOfNode(n) \in Key
    BY <1>6, <1>8 DEF KeyOfNode
  <2>2. CASE n = 1
    <3>1. ValueOfNode(n) = ValueOfTop
      BY <2>2 DEF ValueOfNode
    <3>2. CASE this = 0
      <4>1. Top + n = 1 /\ ~(Top + n > 1) /\ 1 \in 1..Depth
        BY <1>1, <1>4, <2>2, <3>2
      <4>2. ValueOfNode(n) \in Key
        BY <1>8, <1>9, <3>1, <3>2, <4>1, Zenon
      <4> QED BY <2>1, <4>1, <4>2
    <3>3. CASE this # 0
      <4>1. Top \in 1..Depth /\ (Top + n) - 1 = Top
        BY <1>5, <2>2, <3>3
      <4>2. ValueOfNode(n) = Value_(Top) /\ Value_(Top) \in Value
        BY <1>8, <1>9, <3>1, <3>3, <4>1, Zenon
      <4> QED BY <2>1, <4>1, <4>2
    <3> QED BY <3>2, <3>3
  <2>3. CASE n # 1
    <3>1. n - 1 \in 1..Len(Chain) /\ (Top + n) - 1 = Top + (n - 1) /\ n > 1
      BY <1>5, <2>3
    <3>2. Chain[n - 1] = call.key[(Top + n) - 1] /\ (Top + n) - 1 \in 1..Depth
      BY <1>6, <3>1
    <3>3. ValueOfNode(n) = Chain[n - 1].second
      BY <3>1 DEF ValueOfNode
    <3>4. /\ ValueOfNode(n) = Value_((Top + n) - 1)
          /\ Value_((Top + n) - 1) \in Value
      BY <1>8, <3>2, <3>3, Zenon
    <3> QED BY <2>1, <3>4
  <2> QED BY <2>1, <2>2, <2>3
<1> QED BY <1>1, <1>4, <1>5, <1>7, <1>9, <1>10, <1>11

-----------------------------------------------------------------------------
(***************************************************************************)
(* The invariant holds at the start, and every step keeps it.              *)
(***************************************************************************)

(* A pool without objects has the shape of a tree.                         *)
LEMMA CoreInit ==
    ASSUME Init
    PROVE  Core
<1>1. /\ heap = <<>> /\ node_ = 0 /\ pc = "idle" /\ call = NoCall /\ this = 0
      /\ key = <<>> /\ i = 0 /\ pNode = 0 /\ pNewNode = 0
      /\ reply = "none" /\ acked = {} /\ failed = 0 /\ crashes = 0
  BY DEF Init
<1>2. /\ heap \in Seq(Object) /\ Len(heap) = 0 /\ DOMAIN heap = {}
      /\ Depth \in Nat /\ Nodes = {}
  BY <1>1, EmptySeq, LenProperties, SchemaFacts DEF Nodes
<1>3. Types
  BY <1>1, <1>2, TreeBoundsAssumption DEF Types, Insertion
<1>4. Keys /\ OneParent
  BY <1>1, <1>2 DEF Keys, OneParent
<1>5. PICK D : D = [n \in Nat |-> 0]
  OBVIOUS
<1>6. D \in [Nat -> 0..Depth]
  BY <1>2, <1>5
<1>7. Whole(D)
  BY <1>1, <1>2, <1>6 DEF Whole, Shape, Stands, Builds
<1> QED BY <1>3, <1>4, <1>6, <1>7 DEF Core

(* A call that ends leaves the tree as it stands. *)
LEMMA FinishCore ==
    ASSUME Core, UNCHANGED pool,
           NEW r \in {"none", "ok", "UserError", "LeafExistsError",
                      "AllocationError", "AssertionFailed"}, Finish(r),
           Depth # 0 => r # "AssertionFailed",
           acked' \subseteq Path \X Datum, failed' \in Nat, crashes' \in 0..MaxCrashes
    PROVE  Core'
<1>1. PICK D \in [Nat -> 0..Depth] : Whole(D)
  BY DEF Core
<1>2. Shape(D)' /\ OneParent'
  BY <1>1, StillShape DEF Core, Whole
<1>3. /\ pc' = "idle" /\ call' = NoCall /\ this' = 0 /\ key' = <<>>
      /\ i' = 0 /\ pNode' = 0 /\ pNewNode' = 0 /\ reply' = r
      /\ heap' = heap /\ node_' = node_
  BY DEF Finish, pool
<1>4. /\ heap \in Seq(Object) /\ Len(heap) <= MaxObjects /\ node_ \in 0..Len(heap)
      /\ Depth \in Nat /\ Len(heap) \in Nat
  BY SchemaFacts, HeapFacts DEF Core, Types
<1>5. Types'
  BY <1>3, <1>4 DEF Types, Insertion, Path, Depth
<1>6. Keys'
  BY <1>3 DEF Keys, NoCall
<1>7. Whole(D)'
  BY <1>2, <1>3 DEF Whole, Stands, Builds
<1> QED BY <1>2, <1>5, <1>6, <1>7 DEF Core, Depth

(* An insertion begins with a value for each key of the schema. *)
LEMMA AddNodeCore ==
    ASSUME Core, NEW in \in Dict, NEW d \in Datum, AddNode(in, d)
    PROVE  Core'
<1>1. /\ UNCHANGED pool /\ pc = "idle"
      /\ acked' = acked /\ failed' = failed /\ crashes' = crashes
  BY DEF AddNode, history
<1>2. acked' \subseteq Path \X Datum /\ failed' \in Nat /\ crashes' \in 0..MaxCrashes
  BY <1>1 DEF Core, Types
<1>3. CASE ~IsInsertKey(in)
  BY <1>1, <1>2, <1>3, FinishCore DEF AddNode
<1>4. CASE IsInsertKey(in) /\ Schema = <<>>
  <2>1. Depth = 0
    BY <1>4, EmptySeq DEF Depth
  <2> QED BY <1>1, <1>2, <1>4, <2>1, FinishCore DEF AddNode
<1>5. CASE IsInsertKey(in) /\ Schema # <<>>
  <2>1. /\ call' = [key |-> processInsertKey(in), datum |-> d]
        /\ key' = processInsertKey(in)
        /\ this' = node_
        /\ pc' = IF node_ = 0 THEN "blob" ELSE "root"
        /\ reply' = "none" /\ i' = i /\ pNode' = pNode /\ pNewNode' = pNewNode
        /\ heap' = heap /\ node_' = node_
    BY <1>1, <1>5 DEF AddNode, building, pool
  <2>2. PICK D \in [Nat -> 0..Depth] : Whole(D)
    BY DEF Core
  <2>3. Shape(D)' /\ OneParent' /\ Shape(D) /\ Nodes' = Nodes
    BY <1>1, <2>2, StillShape DEF Core, Whole
  <2>4. Depth \in Nat /\ Depth # 0 /\ \A n \in 1..Depth : Schema[n] \in Key
    BY <1>5, SchemaFacts, SchemaAssumption, EmptySeq DEF Depth
  <2> DEFINE w == [n \in 1..Depth |-> in[Schema[n]]]
             k == [n \in 1..Depth |-> [first |-> Schema[n], second |-> w[n]]]
  <2>5. \A n \in 1..Depth : in[Schema[n]] \in Value
    <3>1. PICK K \in SUBSET Key : in \in [K -> Value]
      BY DEF Dict
    <3>2. \A n \in 1..Depth : Schema[n] \in DOMAIN in
      BY <1>5 DEF IsInsertKey, Depth
    <3> QED BY <3>1, <3>2
  <2>6. w \in Path
    BY <2>5 DEF Path, Depth
  <2>7. processInsertKey(in) = k
    BY DEF processInsertKey, Depth
  <2>8. Values(k) = w
    <3>1. DOMAIN k = 1..Depth /\ \A n \in 1..Depth : k[n].second = w[n]
      OBVIOUS
    <3> QED BY <3>1 DEF Values
  <2>9. k \in [1..Depth -> Pair] /\ k \in Seq(Pair) /\ Len(k) = Depth
    <3>1. \A n \in 1..Depth : [first |-> Schema[n], second |-> w[n]] \in Pair
      BY <2>4, <2>5 DEF Pair
    <3>2. k \in [1..Depth -> Pair]
      BY <3>1
    <3> HIDE DEF k
    <3>3. k \in Seq(Pair)
      BY <2>4, <3>2
    <3> QED BY <2>4, <3>2, <3>3, LenProperties
  <2>10. k = [n \in 1..Depth |-> [first |-> Schema[n], second |-> w[n]]]
    OBVIOUS
  <2> HIDE DEF w, k
  <2>11. Depth - Len(k) = 0 /\ k = [n \in 1..Len(k) |-> k[0 + n]] /\ Len(k) \in 1..Depth
    BY <2>4, <2>9
  <2>12. call' = [key |-> k, datum |-> d] /\ key' = k /\ At' = 0
    BY <2>1, <2>7, <2>11 DEF At, Depth
  <2>13. Keys'
    <3>1. /\ pc' # "idle" /\ call'.datum = d /\ call'.key = k
          /\ call' = [key |-> call'.key, datum |-> call'.datum]
      BY <2>1, <2>12
    <3> QED BY <2>6, <2>8, <2>9, <2>10, <2>11, <2>12, <3>1 DEF Keys, Depth, Path, Pair
  <2>14. Types'
    <3>1. /\ heap' \in Seq(Object) /\ Len(heap') <= MaxObjects
          /\ {node_', this', pNode', pNewNode'} \subseteq 0..Len(heap')
          /\ i' \in 0..Depth
      BY <2>1 DEF Core, Types
    <3>2. pc' \in Insertion \union {"idle"} /\ reply' = "none"
      BY <2>1 DEF Insertion
    <3> QED BY <1>2, <3>1, <3>2 DEF Types, Path, Depth
  <2>15. Stands(D)'
    <3>1. node_ # 0 => node_ \in Nodes /\ D[node_] = 0
      BY <2>3 DEF Shape
    <3> QED BY <2>1, <2>3, <2>12, <3>1 DEF Stands
  <2>16. Builds(D)'
    BY <2>1 DEF Builds
  <2> QED BY <2>2, <2>3, <2>13, <2>14, <2>15, <2>16 DEF Core, Whole, Depth
<1> QED BY <1>3, <1>4, <1>5

(* Within one addNode, the key stays as it is. *)
LEMMA StillKeys ==
    ASSUME Keys, pc # "idle", pc' # "idle", call' = call, key' = key, this' = this
    PROVE  /\ Keys'
           /\ At' = At /\ Chain' = Chain /\ Top' = Top
           /\ \A n : Value_(n)' = Value_(n)
<1>1. At' = At /\ Chain' = Chain /\ Top' = Top /\ \A n : Value_(n)' = Value_(n)
  BY DEF At, Chain, Top, Value_, Depth
<1>2. Values(call.key)' = Values(call.key) /\ Values(call'.key) = Values(call.key)
  BY DEF Values
<1>3. Keys'
  BY <1>1, <1>2 DEF Keys, Depth, Pair, Path
<1> QED BY <1>1, <1>3

(* The root has the first key of the schema, whatever was inserted before. *)
LEMMA CheckRootCore ==
    ASSUME Core, CheckRoot
    PROVE  Core' /\ reply' # "AssertionFailed"
<1>1. /\ UNCHANGED pool /\ pc = "root"
      /\ acked' = acked /\ failed' = failed /\ crashes' = crashes
  BY DEF CheckRoot, history
<1>2. PICK D \in [Nat -> 0..Depth] : Whole(D)
  BY DEF Core
<1>3. Shape(D)' /\ OneParent' /\ Shape(D) /\ Nodes' = Nodes /\ \A n : Kids(n)' = Kids(n)
  BY <1>1, <1>2, StillShape DEF Core, Whole
<1>4. this = node_ /\ At = 0 /\ this # 0
  BY <1>1, <1>2 DEF Whole, Stands
<1>5. Depth \in Nat /\ Depth # 0 /\ Head(key).first = Schema[1]
  BY <1>1, <1>4, KeyFacts DEF Core
<1>6. heap[node_].key_ = Schema[1]
  <2>1. node_ \in Nodes /\ D[node_] = 0
    BY <1>3, <1>4 DEF Shape
  <2>2. Level(D, node_)
    BY <1>3, <2>1 DEF Shape
  <2> QED BY <1>5, <2>1, <2>2 DEF Level
<1>7. /\ pc' = "visit" /\ call' = call /\ this' = this /\ key' = key /\ i' = i
      /\ pNode' = pNode /\ pNewNode' = pNewNode /\ reply' = "none"
      /\ heap' = heap /\ node_' = node_
  <2>1. reply = "none"
    BY <1>1 DEF Core, Types
  <2> QED BY <1>1, <1>5, <1>6, <2>1 DEF CheckRoot, building, pool
<1>8. Keys' /\ At' = At
  BY <1>1, <1>7, StillKeys DEF Core
<1>9. Types'
  BY <1>1, <1>7 DEF Core, Types, Insertion, Path, Depth
<1>10. Whole(D)'
  BY <1>2, <1>3, <1>4, <1>7, <1>8 DEF Whole, Stands, Builds
<1> QED BY <1>2, <1>3, <1>7, <1>8, <1>9, <1>10 DEF Core, Depth

(* The node an addNode descends to is at the depth its key says: neither   *)
(* the key runs out, nor is it asked of a leaf, nor does it find the key   *)
(* of another level.                                                       *)
LEMMA VisitCore ==
    ASSUME Core, Visit
    PROVE  Core' /\ reply' # "AssertionFailed"
<1>1. /\ UNCHANGED pool /\ pc = "visit"
      /\ acked' = acked /\ failed' = failed /\ crashes' = crashes
      /\ heap' = heap /\ node_' = node_
  BY DEF Visit, history, pool
<1>2. PICK D \in [Nat -> 0..Depth] : Whole(D)
  BY DEF Core
<1>3. Shape(D)' /\ OneParent' /\ Shape(D) /\ Nodes' = Nodes /\ \A n : Kids(n)' = Kids(n)
  BY <1>1, <1>2, StillShape DEF Core, Whole
<1>4. this # 0 /\ this \in Nodes /\ D[this] = At /\ Level(D, this)
  BY <1>1, <1>2, <1>3 DEF Whole, Stands, Shape
<1>5. /\ Depth \in Nat /\ Depth # 0 /\ At \in 0..(Depth - 1) /\ key # <<>>
      /\ Head(key).first = Schema[At + 1]
      /\ At = Depth - Len(key) /\ Len(key) \in 1..Depth
  <2>1. At = Depth - Len(key)
    BY DEF At
  <2> QED BY <1>1, <2>1, KeyFacts DEF Core
<1>6. D[this] < Depth /\ ~leaf(this) /\ heap[this].key_ = Schema[At + 1]
  <2>1. D[this] < Depth
    BY <1>4, <1>5
  <2> QED BY <1>4, <2>1 DEF Level, leaf
<1>7. acked' \subseteq Path \X Datum /\ failed' \in Nat /\ crashes' \in 0..MaxCrashes
  BY <1>1 DEF Core, Types
<1>8. heap \in Seq(Object) /\ reply = "none"
  BY <1>1 DEF Core, Types
<1> DEFINE v == Head(key).second
           k == FirstMatch(this, v)
<1>9. /\ Matches(this, v) = {} <=> \A n \in Kids(this) : heap[n].value_ # v
      /\ Matches(this, v) # {} => k \in Kids(this)
  BY <1>3, <1>4, <1>8, Scan
<1>10. CASE Matches(this, v) = {}
  <2>1. /\ pc' = "blob" /\ call' = call /\ this' = this /\ key' = key /\ i' = i
        /\ pNode' = pNode /\ pNewNode' = pNewNode /\ reply' = reply
    BY <1>1, <1>5, <1>6, <1>10 DEF Visit, building
  <2>2. Keys' /\ At' = At
    BY <1>1, <2>1, StillKeys DEF Core
  <2>3. Types'
    BY <1>1, <1>8, <2>1 DEF Core, Types, Insertion, Path, Depth
  <2>4. Stands(D)'
    BY <1>1, <1>3, <1>4, <1>9, <1>10, <2>1, <2>2 DEF Stands
  <2>5. Builds(D)'
    BY <2>1 DEF Builds
  <2> QED BY <1>2, <1>3, <1>8, <2>1, <2>2, <2>3, <2>4, <2>5 DEF Core, Whole, Depth
<1>11. CASE Matches(this, v) # {} /\ leaf(k)
  <2>1. Finish("LeafExistsError")
    BY <1>5, <1>6, <1>11 DEF Visit
  <2>2. reply' = "LeafExistsError"
    BY <2>1 DEF Finish
  <2> QED BY <1>1, <1>7, <2>1, <2>2, FinishCore
<1>12. CASE Matches(this, v) # {} /\ ~leaf(k)
  <2>1. /\ this' = k /\ key' = Tail(key) /\ pc' = pc /\ call' = call /\ i' = i
        /\ pNode' = pNode /\ pNewNode' = pNewNode /\ reply' = reply
    BY <1>5, <1>6, <1>12 DEF Visit, building
  <2>2. k \in Nodes /\ D[k] = At + 1
    BY <1>4, <1>9, <1>12 DEF Level
  <2>3. D[k] \in 0..Depth /\ k \in 1..Len(heap) /\ k # 0 /\ Len(heap) \in Nat
    BY <1>2, <1>8, <2>2, HeapFacts
  <2>4. At + 1 < Depth
    <3>1. ASSUME D[k] >= Depth PROVE FALSE
      <4>1. heap[k].data_ \in DOMAIN heap
        BY <1>3, <2>2, <3>1 DEF Shape, Level
      <4>2. heap[k].data_ # 0
        BY <1>8, <4>1, HeapFacts
      <4> QED BY <1>12, <4>2 DEF leaf
    <3>2. At + 1 \in 0..Depth /\ ~(At + 1 >= Depth)
      BY <2>2, <2>3, <3>1
    <3> QED BY <1>5, <3>2
  <2>5. /\ Tail(key) \in Seq(Pair) /\ Len(Tail(key)) = Len(key) - 1
        /\ \A n \in 1..(Len(key) - 1) : Tail(key)[n] = call.key[At + 1 + n]
    BY <1>1, KeyFacts DEF Core
  <2>6. Len(key') \in 1..Depth /\ At' = At + 1
    <3>1. Len(key') = Len(key) - 1
      BY <2>1, <2>5, Zenon
    <3>2. Len(key) - 1 \in 1..Depth /\ Depth - (Len(key) - 1) = At + 1
      <4>1. \A n \in Nat : \A l \in 1..n, a \in Int :
                a = n - l /\ a + 1 < n => l - 1 \in 1..n /\ n - (l - 1) = a + 1
        OBVIOUS
      <4>2. At \in Int
        BY <1>5
      <4> QED BY <1>5, <2>4, <4>1, <4>2, Zenon
    <3>3. At' = Depth - Len(key')
      BY DEF At, Depth
    <3> QED BY <3>1, <3>2, <3>3, Zenon
  <2>7. key' = [n \in 1..Len(key') |-> call.key[At' + n]]
    <3>1. key' \in Seq(Pair) /\ Len(key') = Len(key) - 1
      BY <2>1, <2>5, Zenon
    <3>2. \A n \in 1..(Len(key) - 1) : key'[n] = call.key[At' + n]
      BY <2>1, <2>5, <2>6, Zenon
    <3>3. key' \in [1..Len(key') -> Pair]
      BY <3>1, LenProperties
    <3>4. \A n \in 1..Len(key') : key'[n] = call.key[At' + n]
      BY <3>1, <3>2, Zenon
    <3> QED BY <3>3, <3>4
  <2>8. Values(call.key)' = Values(call.key) /\ Values(call'.key) = Values(call.key)
    BY <2>1 DEF Values
  <2>9. Keys'
    <3>1. key' \in Seq(Pair) /\ this' # 0
      BY <2>1, <2>3, <2>5, Zenon
    <3> QED BY <1>1, <2>1, <2>6, <2>7, <2>8, <3>1 DEF Core, Keys, Depth, Pair, Path
  <2>10. Types'
    <3>1. /\ {node_', this', pNode', pNewNode'} \subseteq 0..Len(heap') /\ i' \in 0..Depth
          /\ heap' \in Seq(Object) /\ Len(heap') <= MaxObjects
      <4>1. /\ {node_, pNode, pNewNode} \subseteq 0..Len(heap) /\ i \in 0..Depth
            /\ heap \in Seq(Object) /\ Len(heap) <= MaxObjects
        BY <1>1 DEF Core, Types
      <4> QED BY <1>1, <2>1, <2>3, <4>1
    <3>2. pc' \in Insertion \union {"idle"} /\ reply' = "none"
      BY <1>1, <1>8, <2>1 DEF Insertion
    <3> QED BY <1>7, <3>1, <3>2 DEF Types, Path, Depth
  <2>11. Stands(D)'
    BY <1>1, <1>3, <2>1, <2>2, <2>3, <2>6 DEF Stands
  <2>12. Builds(D)'
    BY <1>1, <2>1 DEF Builds
  <2> QED BY <1>2, <1>3, <1>8, <2>1, <2>9, <2>10, <2>11, <2>12 DEF Core, Whole, Depth
<1> QED BY <1>10, <1>11, <1>12

(* An allocation of allocateNested, and the variables it may write. *)
Allocation(D, E, a, o, d) ==
    /\ pc \in {"blob", "leaf", "node"} /\ pc' \in {"leaf", "node", "push", "link"}
    /\ Space /\ o \in Object /\ d \in 0..Depth /\ Growth(D, E, a, o, d)
    /\ call' = call /\ key' = key /\ this' = this
    /\ {pNode', pNewNode'} \subseteq {pNode, pNewNode, a} /\ i' \in 0..Depth
    /\ reply' = reply /\ acked' = acked /\ failed' = failed /\ crashes' = crashes

(* An allocation of allocateNested leaves the tree and the call in order. *)
LEMMA GrownCore ==
    ASSUME Types, Keys, OneParent, NEW D, Shape(D), Stands(D),
           NEW E, NEW a, NEW o, NEW d, Allocation(D, E, a, o, d)
    PROVE  /\ Types' /\ Keys' /\ OneParent'
           /\ E \in [Nat -> 0..Depth] /\ Shape(E)' /\ Stands(E)'
           /\ E[a] = d /\ \A n \in DOMAIN heap : E[n] = D[n] /\ heap'[n] = heap[n]
           /\ heap'[a] = o /\ a \in Nat /\ a # 0 /\ a \notin DOMAIN heap
           /\ \A n \in DOMAIN heap : Loose(n) => Loose(n)'
           /\ Loose(a)'
           /\ Nodes' = IF o.type = "TreeNode" THEN Nodes \union {a} ELSE Nodes
           /\ Nodes \subseteq DOMAIN heap
           /\ Chain' = Chain /\ Top' = Top /\ \A n : Value_(n)' = Value_(n)
<1>0. /\ pc \in {"blob", "leaf", "node"} /\ pc' \in {"leaf", "node", "push", "link"}
      /\ Space /\ o \in Object /\ d \in 0..Depth /\ Growth(D, E, a, o, d)
      /\ call' = call /\ key' = key /\ this' = this
      /\ {pNode', pNewNode'} \subseteq {pNode, pNewNode, a} /\ i' \in 0..Depth
      /\ reply' = reply /\ acked' = acked /\ failed' = failed /\ crashes' = crashes
  BY DEF Allocation
<1>1. heap \in Seq(Object) /\ Len(heap) \in Nat /\ DOMAIN heap = 1..Len(heap)
      /\ Nodes \subseteq DOMAIN heap
  BY HeapFacts DEF Types
<1>2. /\ heap' \in Seq(Object) /\ Len(heap') = Len(heap) + 1
      /\ heap'[a] = o /\ a \notin DOMAIN heap
      /\ \A n \in DOMAIN heap : heap'[n] = heap[n] /\ Kids(n)' = Kids(n)
      /\ Nodes' = IF o.type = "TreeNode" THEN Nodes \union {a} ELSE Nodes
  BY <1>0, <1>1, GrownHeap DEF Growth
<1>3. /\ Shape(E)' /\ OneParent'
      /\ E[a] = d
      /\ \A n \in DOMAIN heap : E[n] = D[n]
      /\ \A n \in 1..a : Loose(n)' <=> IF n = a THEN TRUE ELSE Loose(n)
  BY <1>0, <1>1, GrownShape
<1>4. a \in Nat /\ a # 0 /\ Loose(a)' /\ \A n \in DOMAIN heap : Loose(n) => Loose(n)'
  <2>1. a \in 1..a /\ \A n \in DOMAIN heap : n \in 1..a /\ n # a
    BY <1>0, <1>1 DEF Growth
  <2> QED BY <1>1, <1>3, <2>1
<1>5. E \in [Nat -> 0..Depth]
  BY <1>3 DEF Shape, Depth
<1>6. /\ Keys' /\ At' = At /\ Chain' = Chain /\ Top' = Top
      /\ \A n : Value_(n)' = Value_(n)
  BY <1>0, StillKeys
<1>7. Types'
  <2>1. Len(heap') <= MaxObjects
    BY <1>0, <1>1, <1>2, TreeBoundsAssumption DEF Space
  <2>2. {node_', this', pNode', pNewNode'} \subseteq 0..Len(heap')
    <3>1. {node_, this, pNode, pNewNode} \subseteq 0..Len(heap)
      BY DEF Types
    <3>2. 0..Len(heap) \subseteq 0..(Len(heap) + 1) /\ a \in 0..(Len(heap) + 1)
      BY <1>0, <1>1 DEF Growth
    <3>3. {node_, this, pNode, pNewNode, a} \subseteq 0..Len(heap')
      BY <1>2, <3>1, <3>2
    <3>4. node_' = node_
      BY <1>0 DEF Growth
    <3> QED BY <1>0, <3>3, <3>4
  <2>3. /\ pc' \in Insertion \union {"idle"} /\ reply' = "none"
        /\ acked' = acked /\ failed' = failed /\ crashes' = crashes
    BY <1>0 DEF Types, Insertion
  <2> QED BY <1>0, <1>2, <2>1, <2>2, <2>3 DEF Types, Path, Depth
<1>8. Stands(E)'
  <2>1. CASE this = 0
    BY <1>0, <2>1 DEF Stands, Growth
  <2>2. CASE this # 0
    <3>1. this \in Nodes /\ this \in DOMAIN heap /\ D[this] = At
      BY <1>1, <2>2 DEF Stands
    <3>2. \A k \in Kids(this) : heap[k].value_ # Head(key).second /\ k \in DOMAIN heap
      <4>1. CASE pc = "blob" \/ pc = "leaf" \/ pc = "node"
        BY <1>1, <2>2, <3>1, <4>1 DEF Stands, Shape, Level
      <4> QED BY <1>0, <4>1
    <3>3. this' \in Nodes' /\ E[this'] = At'
      <4>1. this' = this
        BY <1>0
      <4>2. this \in Nodes'
        BY <1>2, <3>1
      <4>3. E[this] = D[this]
        BY <1>3, <3>1
      <4> QED BY <1>6, <3>1, <4>1, <4>2, <4>3
    <3>4. Kids(this)' = Kids(this)
      BY <1>0, <1>2, <3>1 DEF Kids
    <3>5. \A k \in Kids(this)' : heap'[k].value_ # Head(key').second
      BY <1>0, <1>2, <3>2, <3>4
    <3> QED BY <1>0, <2>2, <3>3, <3>5 DEF Stands
  <2> QED BY <2>1, <2>2
<1> QED BY <1>1, <1>2, <1>3, <1>4, <1>5, <1>6, <1>7, <1>8

(* What the constructor of a node leaves in it. *)
LEMMA NewNode ==
    ASSUME NEW k \in Key \union {Empty}, NEW v \in Key \union Value \union {Empty},
           NEW d \in Nat
    PROVE  /\ Node(k, v, d, <<>>) \in Object
           /\ Node(k, v, d, <<>>).value_ = v
BY EmptySeq DEF Node, Object

(* What the constructor of a buffer leaves in it. *)
LEMMA NewBuffer ==
    ASSUME NEW c \in Datum \union {Empty}
    PROVE  /\ Buffer(c) \in Object
           /\ Buffer(c).type = "PersistentBuffer" /\ Buffer(c).data_ = 0
           /\ Buffer(c).items_ = <<>> /\ Buffer(c).content = c
BY EmptySeq DEF Buffer, Object

(* allocateLeaf makes the buffer of the datum first. *)
LEMMA AllocateBlobCore ==
    ASSUME Core, AllocateBlob
    PROVE  Core'
<1>1. PICK D \in [Nat -> 0..Depth] : Whole(D)
  BY DEF Core
<1>2. PICK a \in Nat : a = Len(heap) + 1
  BY HeapFacts DEF Core, Types
<1>3. PICK o : o = Buffer(call.datum)
  OBVIOUS
<1>4. PICK E : E = [D EXCEPT ![a] = 0]
  OBVIOUS
<1>5. pc = "blob" /\ pc' = "leaf" /\ pNode' = a /\ pNewNode' = pNewNode /\ i' = i
  <2>1. heap' = Append(heap, Buffer(call.datum)) /\ heap \in Seq(Object)
    BY DEF AllocateBlob, Core, Types
  <2>2. Buffer(call.datum) \in Object
    BY NewBuffer DEF AllocateBlob, Core, Keys
  <2>3. Len(heap') = a
    BY <1>2, <2>1, <2>2, AppendProperties
  <2> QED BY <2>3 DEF AllocateBlob
<1>6. /\ o \in Object /\ o.type # "TreeNode" /\ o.items_ = <<>> /\ o.data_ = 0
  <2>1. call.datum \in Datum
    BY <1>5 DEF Core, Keys
  <2> QED BY <1>3, <2>1, NewBuffer
<1>7. 0 \in 0..Depth
  BY SchemaFacts
<1>8. Growth(D, E, a, o, 0) /\ Space
  BY <1>2, <1>3, <1>4, <1>6 DEF Growth, AllocateBlob
<1>9. /\ Types' /\ Keys' /\ OneParent'
      /\ E \in [Nat -> 0..Depth] /\ Shape(E)' /\ Stands(E)'
      /\ heap'[a] = o /\ a # 0
  <2>1. Allocation(D, E, a, o, 0)
    BY <1>5, <1>6, <1>7, <1>8 DEF Allocation, AllocateBlob, history, Core, Types
  <2>2. Types /\ Keys /\ OneParent /\ Shape(D) /\ Stands(D)
    BY <1>1 DEF Core, Whole
  <2>3. Types' /\ Keys' /\ OneParent'
    BY <2>1, <2>2, GrownCore
  <2>4. E \in [Nat -> 0..Depth] /\ Shape(E)' /\ Stands(E)'
    BY <2>1, <2>2, GrownCore
  <2>5. heap'[a] = o /\ a # 0
    BY <2>1, <2>2, GrownCore
  <2> QED BY <2>3, <2>4, <2>5
<1>10. Builds(E)'
  <2>1. Buffer(call.datum)' = Buffer(call.datum)
    BY DEF AllocateBlob, Buffer
  <2> QED BY <1>3, <1>5, <1>9, <2>1 DEF Builds
<1> QED BY <1>9, <1>10 DEF Core, Whole, Depth

(* The leaf is the complete branch of one node, at the last level. *)
LEMMA AllocateLeafCore ==
    ASSUME Core, AllocateLeaf
    PROVE  Core'
<1>1. PICK D \in [Nat -> 0..Depth] : Whole(D)
  BY DEF Core
<1>2. PICK a \in Nat : a = Len(heap) + 1
  BY HeapFacts DEF Core, Types
<1>3. PICK o : o = Node(Empty, LeafValue, pNode, <<>>)
  OBVIOUS
<1>4. PICK E : E = [D EXCEPT ![a] = Depth]
  OBVIOUS
<1>5. /\ pc = "leaf" /\ pNewNode' = pNewNode /\ i' = Len(Chain)
      /\ pc' = IF Chain = <<>> THEN "link" ELSE "node"
      /\ heap' = Append(heap, o) /\ heap \in Seq(Object)
  BY <1>3 DEF AllocateLeaf, Core, Types
<1>6. /\ Depth \in Nat /\ Len(Chain) \in 0..Depth
      /\ Chain = <<>> <=> Len(Chain) = 0
      /\ Top \in 0..Depth /\ Top + Len(Chain) = Depth
      /\ LeafValue = Value_(Depth) /\ LeafValue \in Value
  BY <1>5, ChainFacts DEF Core
<1>7. /\ pNode \in DOMAIN heap /\ pNode \in Nat
      /\ heap[pNode].type = "PersistentBuffer"
  <2>1. pNode # 0 /\ heap[pNode] = Buffer(call.datum) /\ call.datum \in Datum
    BY <1>1, <1>5 DEF Core, Keys, Whole, Builds
  <2>2. pNode \in 0..Len(heap) /\ DOMAIN heap = 1..Len(heap) /\ Len(heap) \in Nat
    BY <1>5, HeapFacts DEF Core, Types
  <2>3. heap[pNode].type = "PersistentBuffer"
    BY <2>1 DEF Buffer
  <2> QED BY <2>1, <2>2, <2>3
<1>8. /\ o \in Object /\ o.type = "TreeNode" /\ o.items_ = <<>> /\ o.data_ = pNode
      /\ o.value_ = Value_(Depth)
  <2>1. Empty \in Key \union {Empty} /\ LeafValue \in Key \union Value \union {Empty}
    BY <1>6
  <2>2. /\ Node(Empty, LeafValue, pNode, <<>>) \in Object
        /\ Node(Empty, LeafValue, pNode, <<>>).value_ = LeafValue
    <3>1. pNode \in Nat
      BY <1>7
    <3> QED BY <2>1, <3>1, NewNode
  <2>3. o.type = "TreeNode" /\ o.items_ = <<>> /\ o.data_ = pNode
    BY <1>3 DEF Node
  <2> QED BY <1>3, <1>6, <2>2, <2>3
<1>9. pNode' = a
  <2>1. Len(heap') = a
    BY <1>2, <1>5, <1>8, AppendProperties
  <2> QED BY <2>1 DEF AllocateLeaf
<1>10. Growth(D, E, a, o, Depth) /\ Space /\ Depth \in 0..Depth
  <2>1. ~(Depth < Depth) /\ Depth \in 0..Depth
    BY <1>6
  <2> QED BY <1>2, <1>4, <1>5, <1>7, <1>8, <2>1 DEF Growth, AllocateLeaf
<1>11. /\ Types' /\ Keys' /\ OneParent'
       /\ E \in [Nat -> 0..Depth] /\ Shape(E)' /\ Stands(E)'
       /\ heap'[a] = o /\ a # 0 /\ E[a] = Depth
       /\ Loose(a)' /\ a \in Nodes'
       /\ Chain' = Chain /\ Top' = Top /\ \A n : Value_(n)' = Value_(n)
  <2>1. Allocation(D, E, a, o, Depth)
    BY <1>5, <1>6, <1>8, <1>9, <1>10 DEF Allocation, AllocateLeaf, history
  <2>2. Types /\ Keys /\ OneParent /\ Shape(D) /\ Stands(D)
    BY <1>1 DEF Core, Whole
  <2>3. Types' /\ Keys' /\ OneParent'
    BY <2>1, <2>2, GrownCore
  <2>4. E \in [Nat -> 0..Depth] /\ Shape(E)' /\ Stands(E)'
    BY <2>1, <2>2, GrownCore
  <2>5. heap'[a] = o /\ a # 0 /\ E[a] = Depth
    BY <2>1, <2>2, GrownCore
  <2>6. Loose(a)' /\ a \in Nodes'
    <3>1. Loose(a)'
      BY <2>1, <2>2, GrownCore
    <3>2. Nodes' = IF o.type = "TreeNode" THEN Nodes \union {a} ELSE Nodes
      BY <2>1, <2>2, GrownCore
    <3> QED BY <1>8, <3>1, <3>2
  <2>7. Chain' = Chain /\ Top' = Top /\ \A n : Value_(n)' = Value_(n)
    BY <2>1, <2>2, GrownCore
  <2> QED BY <2>3, <2>4, <2>5, <2>6, <2>7
<1>12. Builds(E)'
  <2>1. i' <= Len(Chain') /\ Top' + i' = Depth /\ i' = Len(Chain)
    <3>1. Len(Chain') = Len(Chain) /\ Len(Chain) <= Len(Chain)
      BY <1>6, <1>11
    <3> QED BY <1>5, <1>6, <1>11, <3>1
  <2>2. pNode' \in Nodes' /\ Loose(pNode)' /\ E[pNode'] = Depth
        /\ heap'[pNode'].value_ = Value_(Depth)'
    <3>1. Loose(pNode)'
      BY <1>9, <1>11 DEF Loose
    <3>2. Value_(Depth)' = Value_(Depth)
      BY <1>11 DEF Depth
    <3> QED BY <1>8, <1>9, <1>11, <3>1, <3>2
  <2>3. pc' = "node" \/ pc' = "link"
    BY <1>5
  <2>4. (pc' = "node" => i' # 0) /\ (pc' = "link" => i' = 0)
    BY <1>5, <1>6
  <2> QED BY <2>1, <2>2, <2>3, <2>4 DEF Builds, Depth
<1> QED BY <1>11, <1>12 DEF Core, Whole, Depth

(* The node above the last one has the key of the pair it stands for.      *)
LEMMA AllocateNodeCore ==
    ASSUME Core, AllocateNode
    PROVE  Core'
<1>1. PICK D \in [Nat -> 0..Depth] : Whole(D)
  BY DEF Core
<1>2. PICK a \in Nat : a = Len(heap) + 1
  BY HeapFacts DEF Core, Types
<1>3. PICK o : o = Node(KeyOfNode(i), ValueOfNode(i), 0, <<>>)
  OBVIOUS
<1>4. PICK d : d = (Top + i) - 1
  OBVIOUS
<1>5. PICK E : E = [D EXCEPT ![a] = d]
  OBVIOUS
<1>6. /\ pc = "node" /\ pc' = "push" /\ i' = i /\ pNode' = pNode
      /\ heap' = Append(heap, o) /\ heap \in Seq(Object)
  BY <1>3 DEF AllocateNode, Core, Types
<1>7. /\ i \in 0..Depth /\ i <= Len(Chain) /\ i # 0
      /\ pNode \in Nodes /\ Loose(pNode)
      /\ D[pNode] = Top + i
      /\ Top + i >= 1 => heap[pNode].value_ = Value_(Top + i)
  BY <1>1, <1>6 DEF Core, Types, Whole, Builds
<1>8. /\ Depth \in Nat /\ Len(Chain) \in 0..Depth
      /\ Top \in 0..Depth /\ Top + Len(Chain) = Depth
  BY <1>6, ChainFacts DEF Core
<1>9. /\ i \in 1..Len(Chain) /\ d \in 0..Depth /\ d < Depth /\ d + 1 = Top + i
  <2>1. i \in 1..Len(Chain)
    BY <1>7, <1>8
  <2>2. Top + i \in 1..Depth
    BY <1>8, <2>1
  <2> QED BY <1>4, <1>8, <2>1, <2>2
<1>10. /\ KeyOfNode(i) = Schema[d + 1] /\ KeyOfNode(i) \in Key
       /\ ValueOfNode(i) \in Key \union Value
       /\ Top + i > 1 => ValueOfNode(i) = Value_((Top + i) - 1)
  <2>1. \A n \in 1..Len(Chain) :
            /\ KeyOfNode(n) = Schema[Top + n] /\ KeyOfNode(n) \in Key
            /\ ValueOfNode(n) \in Key \union Value
            /\ Top + n > 1 => ValueOfNode(n) = Value_((Top + n) - 1)
    BY <1>6, ChainFacts DEF Core
  <2>2. Schema[d + 1] = Schema[Top + i]
    BY <1>9
  <2> QED BY <1>9, <2>1, <2>2, Zenon
<1>11. /\ o \in Object /\ o.type = "TreeNode" /\ o.items_ = <<>> /\ o.data_ = 0
       /\ o.value_ = ValueOfNode(i) /\ o.key_ = Schema[d + 1]
  <2>1. o \in Object
    BY <1>3, <1>10, EmptySeq DEF Node, Object
  <2> QED BY <1>3, <1>10, <2>1 DEF Node
<1>12. pNewNode' = a
  <2>1. Len(heap') = a
    BY <1>2, <1>6, <1>11, AppendProperties
  <2> QED BY <2>1 DEF AllocateNode
<1>13. Allocation(D, E, a, o, d)
  <2>1. Growth(D, E, a, o, d)
    BY <1>2, <1>5, <1>6, <1>9, <1>11 DEF Growth, AllocateNode
  <2> QED BY <1>6, <1>7, <1>9, <1>11, <1>12, <2>1 DEF Allocation, AllocateNode, history
<1>14. Types /\ Keys /\ OneParent /\ Shape(D) /\ Stands(D)
  BY <1>1 DEF Core, Whole
<1>15. Types' /\ Keys' /\ OneParent'
  BY <1>13, <1>14, GrownCore
<1>16. E \in [Nat -> 0..Depth] /\ Shape(E)' /\ Stands(E)'
  BY <1>13, <1>14, GrownCore
<1>17. heap'[a] = o /\ a # 0 /\ E[a] = d /\ Loose(a)'
  BY <1>13, <1>14, GrownCore
<1>18. Nodes' = Nodes \union {a} /\ Nodes \subseteq DOMAIN heap
  <2>1. Nodes' = IF o.type = "TreeNode" THEN Nodes \union {a} ELSE Nodes
    BY <1>13, <1>14, GrownCore
  <2>2. Nodes \subseteq DOMAIN heap
    BY <1>13, <1>14, GrownCore
  <2> QED BY <1>11, <2>1, <2>2
<1>19. \A n \in DOMAIN heap : /\ E[n] = D[n] /\ heap'[n] = heap[n]
                              /\ Loose(n) => Loose(n)'
  BY <1>13, <1>14, GrownCore
<1>20. Chain' = Chain /\ Top' = Top /\ \A n : Value_(n)' = Value_(n)
  BY <1>13, <1>14, GrownCore
<1>21. Builds(E)'
  <2>1. i' <= Len(Chain') /\ Top' + i' = Top + i /\ i' # 0
    BY <1>6, <1>7, <1>20
  <2>2. /\ pNode \in DOMAIN heap /\ pNode' \in Nodes' /\ E[pNode'] = Top + i
        /\ heap'[pNode'] = heap[pNode]
    BY <1>6, <1>7, <1>18, <1>19
  <2>3. Loose(pNode)'
    BY <1>6, <1>7, <1>19, <2>2 DEF Loose
  <2>5. Top + i >= 1 => heap'[pNode'].value_ = call'.key[Top + i].second
    BY <1>7, <1>20, <2>2 DEF Value_
  <2>6. pNewNode' \in Nodes' /\ Loose(pNewNode)' /\ heap'[pNewNode'].items_ = <<>>
    BY <1>11, <1>12, <1>17, <1>18 DEF Loose
  <2>7. E[pNewNode'] = (Top + i) - 1
    BY <1>4, <1>12, <1>17
  <2>8. Top + i > 1 => heap'[pNewNode'].value_ = call'.key[(Top + i) - 1].second
    BY <1>10, <1>11, <1>12, <1>17, <1>20 DEF Value_
  <2> QED BY <1>6, <1>20, <2>1, <2>2, <2>3, <2>5, <2>6, <2>7, <2>8 DEF Builds, Value_
<1> QED BY <1>15, <1>16, <1>21 DEF Core, Whole, Depth

(* The branch grows upwards by one node: its new top is the node that took *)
(* the old one.                                                            *)
LEMMA PushIntoNewCore ==
    ASSUME Core, PushIntoNew
    PROVE  Core'
<1>1. PICK D \in [Nat -> 0..Depth] : Whole(D)
  BY DEF Core
<1>2. PICK a : a = pNewNode
  OBVIOUS
<1>3. PICK b : b = pNode
  OBVIOUS
<1>4. /\ pc = "push" /\ pNode' = a /\ pNewNode' = 0 /\ i' = i - 1
      /\ pc' = IF i = 1 THEN "link" ELSE "node"
      /\ node_' = node_ /\ call' = call /\ this' = this /\ key' = key
      /\ reply' = reply /\ acked' = acked /\ failed' = failed /\ crashes' = crashes
      /\ heap \in Seq(Object) /\ Adoption(a, b)
  BY <1>2, <1>3 DEF PushIntoNew, Core, Types, history, Adoption
<1>5. Types /\ Keys /\ OneParent /\ Shape(D) /\ Stands(D)
  BY <1>1 DEF Core, Whole
<1>6. /\ Depth \in Nat /\ Len(Chain) \in 0..Depth
      /\ Top \in 0..Depth /\ Top + Len(Chain) = Depth
  BY <1>4, <1>5, ChainFacts
<1>7. i \in 1..Len(Chain) /\ Top + i \in 1..Depth
  <2>1. i \in 0..Depth /\ i <= Len(Chain) /\ i # 0
    BY <1>1, <1>4 DEF Core, Types, Whole, Builds
  <2>2. i \in 1..Len(Chain)
    BY <1>6, <2>1
  <2> QED BY <1>6, <2>2
<1>8. b \in Nodes /\ Loose(b) /\ D[b] = Top + i
  BY <1>1, <1>3, <1>4 DEF Whole, Builds, Loose
<1>9. /\ a \in Nodes /\ Loose(a) /\ D[a] = (Top + i) - 1 /\ heap[a].items_ = <<>>
      /\ Top + i > 1 => heap[a].value_ = Value_((Top + i) - 1)
  BY <1>1, <1>2, <1>4 DEF Whole, Builds, Loose
<1>10. Nodes \subseteq DOMAIN heap /\ DOMAIN heap = 1..Len(heap) /\ Len(heap) \in Nat
  BY <1>4, HeapFacts
<1>11. Kids(a) = {}
  BY <1>9 DEF Kids
<1>12. D[b] = D[a] + 1 /\ a # b
  <2>1. \A t \in Int : t = (t - 1) + 1 /\ t # t - 1
    OBVIOUS
  <2>2. Top + i \in Int
    BY <1>7
  <2> QED BY <1>8, <1>9, <2>1, <2>2, Zenon
<1>13. /\ Shape(D)' /\ OneParent' /\ Loose(a)'
  <2>1. \A m \in Kids(a) : heap[m].value_ # heap[b].value_
    BY <1>11
  <2>2. Shape(D)' /\ OneParent' /\ \A m : Loose(m) /\ m # b => Loose(m)'
    BY <1>4, <1>5, <1>8, <1>9, <1>12, <2>1, AdoptedShape
  <2> QED BY <1>9, <1>12, <2>2
<1>14. /\ heap' \in Seq(Object) /\ Len(heap') = Len(heap) /\ Nodes' = Nodes
       /\ \A m \in DOMAIN heap :
              /\ heap'[m].value_ = heap[m].value_
              /\ Kids(m)' = IF m = a THEN Kids(m) \union {b} ELSE Kids(m)
  <2>1. a \in DOMAIN heap /\ b \in Nat
    BY <1>8, <1>9, <1>10
  <2> QED BY <1>4, <2>1, AdoptedHeap
<1>15. Keys' /\ At' = At /\ Chain' = Chain /\ Top' = Top /\ \A n : Value_(n)' = Value_(n)
  BY <1>4, <1>5, StillKeys
<1>16. Types'
  <2>1. a \in 0..Len(heap) /\ 0 \in 0..Len(heap) /\ i - 1 \in 0..Depth
    <3>1. a \in 1..Len(heap)
      BY <1>9, <1>10
    <3>2. a \in 0..Len(heap) /\ 0 \in 0..Len(heap)
      BY <1>10, <3>1
    <3>3. i - 1 \in 0..Depth
      BY <1>6, <1>7
    <3> QED BY <3>2, <3>3
  <2>2. {node_', this', pNode', pNewNode'} \subseteq 0..Len(heap')
    BY <1>4, <1>5, <1>14, <2>1 DEF Types
  <2> QED BY <1>4, <1>5, <1>14, <2>1, <2>2 DEF Types, Insertion, Path, Depth
<1>17. Stands(D)'
  <2>1. CASE this = 0
    BY <1>4, <1>5, <2>1 DEF Stands
  <2>2. CASE this # 0
    <3>1. this \in Nodes /\ this \in DOMAIN heap /\ D[this] = At
      BY <1>5, <1>10, <2>2 DEF Stands
    <3>2. this # a
      <4>1. At < Top
        BY <1>4, <1>5, <1>6, <2>2, ChainFacts, KeyFacts
      <4>2. D[a] >= Top
        BY <1>6, <1>7, <1>9
      <4>3. At \in Int /\ Top \in Int
        BY <1>4, <1>5, <1>6, KeyFacts
      <4> QED BY <1>9, <3>1, <4>1, <4>2, <4>3
    <3>3. \A k \in Kids(this) : heap[k].value_ # Head(key).second /\ k \in DOMAIN heap
      BY <1>4, <1>5, <1>10, <2>2, <3>1 DEF Stands, Shape, Level
    <3>4. \A k \in Kids(this)' : heap'[k].value_ # Head(key').second
      <4>1. Kids(this)' = Kids(this)
        BY <1>4, <1>14, <3>1, <3>2 DEF Kids
      <4> QED BY <1>4, <1>14, <3>3, <4>1
    <3> QED BY <1>4, <1>14, <1>15, <2>2, <3>1, <3>4 DEF Stands
  <2> QED BY <2>1, <2>2
<1>18. Builds(D)'
  <2>1. i' <= Len(Chain') /\ Top' + i' = (Top + i) - 1 /\ (i = 1 <=> i' = 0)
    BY <1>4, <1>6, <1>7, <1>15
  <2>2. pNode' \in Nodes' /\ D[pNode'] = (Top + i) - 1
    BY <1>4, <1>9, <1>14
  <2>3. Loose(pNode)'
    BY <1>4, <1>13 DEF Loose
  <2>4. (Top + i) - 1 >= 1 => heap'[pNode'].value_ = call'.key[(Top + i) - 1].second
    <3>1. heap'[a].value_ = heap[a].value_
      BY <1>9, <1>10, <1>14
    <3>2. (Top + i) - 1 >= 1 => Top + i > 1
      BY <1>7
    <3> QED BY <1>4, <1>9, <3>1, <3>2 DEF Value_
  <2> QED BY <1>4, <2>1, <2>2, <2>3, <2>4 DEF Builds, Value_
<1> QED BY <1>1, <1>13, <1>15, <1>16, <1>17, <1>18 DEF Core, Whole, Depth

(* The complete branch becomes part of the tree, in the place the scan     *)
(* found free.                                                             *)
LEMMA LinkCore ==
    ASSUME Core, Link
    PROVE  Core'
<1>1. PICK D \in [Nat -> 0..Depth] : Whole(D)
  BY DEF Core
<1>2. PICK a : a = this
  OBVIOUS
<1>3. PICK b : b = pNode
  OBVIOUS
<1>4. /\ pc = "link" /\ pc' = "return" /\ call' = call /\ this' = this /\ key' = key
      /\ i' = i /\ pNode' = pNode /\ pNewNode' = pNewNode
      /\ reply' = reply /\ acked' = acked /\ failed' = failed /\ crashes' = crashes
      /\ heap \in Seq(Object)
  BY DEF Link, Core, Types, history, building
<1>5. Types /\ Keys /\ OneParent /\ Shape(D) /\ Stands(D)
  BY <1>1 DEF Core, Whole
<1>6. /\ Depth \in Nat /\ Top \in 0..Depth
      /\ Top = IF this = 0 THEN 0 ELSE At + 1
      /\ this # 0 => Head(key).second = Value_(Top)
  BY <1>4, <1>5, ChainFacts
<1>7. /\ b \in Nodes /\ Loose(b) /\ D[b] = Top
      /\ Top >= 1 => heap[b].value_ = Value_(Top)
  <2>1. i = 0
    BY <1>1, <1>4 DEF Whole, Builds
  <2>2. Top + i = Top
    BY <1>6, <2>1
  <2> QED BY <1>1, <1>3, <1>4, <2>2 DEF Whole, Builds, Loose
<1>8. Nodes \subseteq DOMAIN heap /\ DOMAIN heap = 1..Len(heap) /\ Len(heap) \in Nat
  BY <1>4, HeapFacts
<1>9. Keys' /\ At' = At
  BY <1>4, <1>5, StillKeys
<1>10. Builds(D)'
  BY <1>4 DEF Builds
<1>11. CASE this = 0
  <2>1. node_' = b /\ heap' = heap
    BY <1>3, <1>11 DEF Link
  <2>2. Nodes' = Nodes /\ \A n : Kids(n)' = Kids(n)
    BY <2>1 DEF Nodes, Kids
  <2>3. Shape(D)'
    <3>1. \A n \in Nodes : Level(D, n)' /\ Distinct(n)'
      BY <1>5, <2>1, <2>2 DEF Shape, Level, Distinct, Depth
    <3>2. node_' \in Nodes' /\ D[node_'] = 0
      BY <1>6, <1>7, <1>11, <2>1, <2>2
    <3> QED BY <1>5, <2>1, <2>2, <3>1, <3>2 DEF Shape, Depth
  <2>4. OneParent'
    BY <1>5, <2>2 DEF OneParent
  <2>5. Types'
    <3>1. b \in 0..Len(heap)
      BY <1>7, <1>8
    <3> QED BY <1>4, <1>5, <2>1, <3>1 DEF Types, Insertion, Path, Depth
  <2>6. Stands(D)'
    BY <1>4, <1>11 DEF Stands
  <2> QED BY <1>1, <1>9, <1>10, <2>3, <2>4, <2>5, <2>6 DEF Core, Whole, Depth
<1>12. CASE this # 0
  <2>1. node_' = node_ /\ Adoption(a, b)
    BY <1>2, <1>3, <1>12 DEF Link, Adoption
  <2>2. a \in Nodes /\ D[a] = At /\ \A k \in Kids(a) : heap[k].value_ # Head(key).second
    BY <1>2, <1>4, <1>5, <1>12 DEF Stands
  <2>3. D[b] = D[a] + 1 /\ heap[b].value_ = Head(key).second
    <3>1. At \in 0..(Depth - 1)
      BY <1>4, <1>5, KeyFacts
    <3>2. Top >= 1 /\ Top = At + 1
      BY <1>6, <1>12, <3>1
    <3> QED BY <1>6, <1>7, <1>12, <2>2, <3>2
  <2>4. Shape(D)' /\ OneParent'
    <3>1. \A k \in Kids(a) : heap[k].value_ # heap[b].value_
      BY <2>2, <2>3
    <3> QED BY <1>4, <1>5, <1>7, <2>1, <2>2, <2>3, <3>1, AdoptedShape
  <2>5. heap' \in Seq(Object) /\ Len(heap') = Len(heap) /\ Nodes' = Nodes
    <3>1. a \in DOMAIN heap /\ b \in Nat
      BY <1>7, <1>8, <2>2
    <3> QED BY <1>4, <2>1, <3>1, AdoptedHeap
  <2>6. Types'
    BY <1>4, <1>5, <2>1, <2>5 DEF Types, Insertion, Path, Depth
  <2>7. Stands(D)'
    BY <1>2, <1>4, <1>9, <1>12, <2>2, <2>5 DEF Stands
  <2> QED BY <1>1, <1>9, <1>10, <2>4, <2>5, <2>6, <2>7 DEF Core, Whole, Depth
<1> QED BY <1>11, <1>12

(* However a call ends, the tree stands. *)
LEMMA EndCore ==
    ASSUME Core, Return \/ AllocationFails \/ Restart
    PROVE  Core'
<1>1. UNCHANGED pool
  BY DEF Return, AllocationFails, Restart
<1>2. CASE Return
  <2>1. Values(call.key) \in Path /\ call.datum \in Datum
    BY <1>2 DEF Return, Core, Keys
  <2>2. /\ acked' \subseteq Path \X Datum /\ failed' \in Nat
        /\ crashes' \in 0..MaxCrashes
    <3>1. /\ acked \subseteq Path \X Datum /\ failed \in Nat
          /\ crashes \in 0..MaxCrashes
      BY DEF Core, Types
    <3>2. /\ acked' = acked \union {<<Values(call.key), call.datum>>}
          /\ failed' = failed /\ crashes' = crashes
      BY <1>2 DEF Return
    <3>3. <<Values(call.key), call.datum>> \in Path \X Datum
      BY <2>1
    <3> QED BY <3>1, <3>2, <3>3
  <2> QED BY <1>1, <1>2, <2>2, FinishCore DEF Return
<1>3. Abandoned \in Nat
  BY DEF Abandoned
<1>4. CASE AllocationFails
  <2>1. /\ acked' \subseteq Path \X Datum /\ failed' \in Nat
        /\ crashes' \in 0..MaxCrashes
    <3>1. /\ acked \subseteq Path \X Datum /\ failed \in Nat
          /\ crashes \in 0..MaxCrashes
      BY DEF Core, Types
    <3>2. acked' = acked /\ failed' = failed + Abandoned /\ crashes' = crashes
      BY <1>4 DEF AllocationFails
    <3> QED BY <1>3, <3>1, <3>2
  <2> QED BY <1>1, <1>4, <2>1, FinishCore DEF AllocationFails
<1>5. CASE Restart
  <2>1. /\ acked' \subseteq Path \X Datum /\ failed' \in Nat
        /\ crashes' \in 0..MaxCrashes
    <3>1. /\ acked \subseteq Path \X Datum /\ failed \in Nat
          /\ crashes \in 0..MaxCrashes
      BY DEF Core, Types
    <3>2. /\ acked' = acked /\ failed' = failed + Abandoned
          /\ crashes < MaxCrashes /\ crashes' = crashes + 1
      BY <1>5 DEF Restart
    <3> QED BY <1>3, <3>1, <3>2, TreeBoundsAssumption
  <2> QED BY <1>1, <1>5, <2>1, FinishCore DEF Restart
<1> QED BY <1>2, <1>4, <1>5

(* Every step of an insertion, and every death, keeps the tree in shape. *)
LEMMA CoreNext ==
    ASSUME Core, [Next]_vars
    PROVE  Core'
<1>1. ASSUME NEW in \in Dict, NEW d \in Datum, AddNode(in, d) PROVE Core'
  BY <1>1, AddNodeCore
<1>2. CASE CheckRoot
  BY <1>2, CheckRootCore
<1>3. CASE Visit
  BY <1>3, VisitCore
<1>4. CASE AllocateBlob
  BY <1>4, AllocateBlobCore
<1>5. CASE AllocateLeaf
  BY <1>5, AllocateLeafCore
<1>6. CASE AllocateNode
  BY <1>6, AllocateNodeCore
<1>7. CASE PushIntoNew
  BY <1>7, PushIntoNewCore
<1>8. CASE Link
  BY <1>8, LinkCore
<1>9. CASE Return \/ AllocationFails \/ Restart
  BY <1>9, EndCore
<1>10. CASE UNCHANGED vars
  <2>1. PICK D \in [Nat -> 0..Depth] : Whole(D)
    BY DEF Core
  <2>2. UNCHANGED pool
    BY <1>10 DEF vars
  <2>3. Shape(D)' /\ OneParent' /\ Nodes' = Nodes /\ (\A n : (Loose(n) => Loose(n)'))
        /\ \A n : Kids(n)' = Kids(n)
    <3>1. Shape(D) /\ OneParent
      BY <2>1 DEF Core, Whole
    <3> QED BY <2>2, <3>1, StillShape, Zenon
  <2>4. /\ heap' = heap /\ node_' = node_ /\ pc' = pc /\ call' = call /\ this' = this
        /\ key' = key /\ i' = i /\ pNode' = pNode /\ pNewNode' = pNewNode
        /\ reply' = reply /\ acked' = acked /\ failed' = failed /\ crashes' = crashes
    BY <1>10 DEF vars, pool, building, history
  <2>5. Types'
    BY <2>4 DEF Core, Types, Path, Depth
  <2>6. Keys' /\ At' = At /\ Chain' = Chain /\ Top' = Top /\ \A n : Value_(n)' = Value_(n)
    <3>1. At' = At /\ Chain' = Chain /\ Top' = Top /\ \A n : Value_(n)' = Value_(n)
      BY <2>4 DEF At, Chain, Top, Value_, Depth
    <3>2. Values(call.key)' = Values(call.key) /\ Values(call'.key) = Values(call.key)
      BY <2>4 DEF Values
    <3> QED BY <2>4, <3>1, <3>2 DEF Core, Keys, Depth, Pair, Path, NoCall
  <2>7. Stands(D)'
    BY <2>1, <2>3, <2>4, <2>6 DEF Whole, Stands
  <2>8. Builds(D)'
    <3>1. Loose(pNode) => Loose(pNode)'
      BY <2>3, <2>4 DEF Loose
    <3>2. Loose(pNewNode) => Loose(pNewNode)'
      BY <2>3, <2>4 DEF Loose
    <3>3. Buffer(call.datum)' = Buffer(call.datum)
      BY <2>4 DEF Buffer
    <3> QED BY <2>1, <2>3, <2>4, <2>6, <3>1, <3>2, <3>3 DEF Whole, Builds, Value_
  <2> QED BY <2>1, <2>3, <2>5, <2>6, <2>7, <2>8 DEF Core, Whole, Depth
<1> QED BY <1>1, <1>2, <1>3, <1>4, <1>5, <1>6, <1>7, <1>8, <1>9, <1>10 DEF Next, Step

-----------------------------------------------------------------------------
(***************************************************************************)
(* What the shape of the tree shows.                                       *)
(***************************************************************************)

(* The invariant holds in every state. *)
THEOREM TreeInvariant == Spec => []Core
<1>1. Init => Core
  BY CoreInit
<1>2. Core /\ [Next]_vars => Core'
  BY CoreNext
<1> QED BY <1>1, <1>2, PTL DEF Spec

(* The invariant gives every variable its type. *)
LEMMA CoreTypes ==
    ASSUME Core
    PROVE  TypeOK
<1>1. PICK D \in [Nat -> 0..Depth] : Whole(D)
  BY DEF Core
<1>2. Types /\ Keys /\ Shape(D)
  BY <1>1 DEF Core, Whole
<1>3. /\ heap \in Seq(Object) /\ Len(heap) \in Nat /\ DOMAIN heap = 1..Len(heap)
      /\ Nodes \subseteq DOMAIN heap
      /\ \A n \in DOMAIN heap : heap[n] \in Object
  BY <1>2, HeapFacts DEF Types
<1>4. ASSUME NEW n \in DOMAIN heap
      PROVE  /\ heap[n].type \in {"PersistentBuffer", "TreeNode"}
             /\ heap[n].content \in Datum \union {Empty}
             /\ heap[n].key_ \in Key \union {Empty}
             /\ heap[n].value_ \in Key \union Value \union {Empty}
             /\ heap[n].data_ \in Address
             /\ heap[n].items_ \in Seq(Address)
  <2>1. heap[n] \in Object
    BY <1>3
  <2>2. /\ heap[n].type \in {"PersistentBuffer", "TreeNode"}
        /\ heap[n].content \in Datum \union {Empty}
        /\ heap[n].key_ \in Key \union {Empty}
        /\ heap[n].value_ \in Key \union Value \union {Empty}
        /\ heap[n].items_ \in Seq(Nat)
    BY <2>1 DEF Object
  <2>3. CASE n \notin Nodes
    <3>1. heap[n].items_ = <<>> /\ heap[n].data_ = 0
      BY <1>2, <2>3 DEF Shape
    <3>2. 0 \in Address /\ <<>> \in Seq(Address)
      BY <1>3, EmptySeq DEF Address
    <3> QED BY <2>2, <3>1, <3>2
  <2>4. CASE n \in Nodes
    <3>1. Level(D, n) /\ D[n] \in 0..Depth /\ Depth \in Nat
      BY <1>1, <1>2, <1>3, <2>4, SchemaFacts DEF Shape
    <3>2. heap[n].data_ \in Address
      <4>1. D[n] < Depth \/ D[n] >= Depth
        BY <3>1
      <4>2. 0 \in Address /\ DOMAIN heap \subseteq Address
        BY <1>3 DEF Address
      <4> QED BY <3>1, <4>1, <4>2 DEF Level
    <3>3. \A j \in DOMAIN heap[n].items_ : heap[n].items_[j] \in Address
      <4>1. \A j \in DOMAIN heap[n].items_ : heap[n].items_[j] \in Kids(n)
        BY DEF Kids
      <4>2. Kids(n) \subseteq Nodes
        BY <3>1 DEF Level
      <4>3. DOMAIN heap \subseteq Address
        BY <1>3 DEF Address
      <4> QED BY <1>3, <4>1, <4>2, <4>3
    <3>4. heap[n].items_ \in Seq(Address)
      <4> DEFINE s == heap[n].items_
      <4>1. Len(s) \in Nat /\ DOMAIN s = 1..Len(s) /\ s = [j \in 1..Len(s) |-> s[j]]
        BY <2>2, LenProperties
      <4> HIDE DEF s
      <4>2. \A j \in 1..Len(s) : s[j] \in Address
        BY <3>3, <4>1 DEF s
      <4>3. s \in [1..Len(s) -> Address]
        BY <4>1, <4>2
      <4>4. s \in Seq(Address)
        BY <4>1, <4>3, FunctionIsSeq
      <4> QED BY <4>4 DEF s
    <3> QED BY <2>2, <3>2, <3>4
  <2> QED BY <2>3, <2>4
<1>5. call \in [key : Seq(Pair), datum : Datum \union {Empty}] /\ key \in Seq(Pair)
  <2>1. CASE pc = "idle"
    <3>1. call = [key |-> <<>>, datum |-> Empty] /\ key = <<>>
      BY <1>2, <2>1 DEF Keys, NoCall
    <3>2. <<>> \in Seq(Pair)
      BY EmptySeq
    <3> QED BY <3>1, <3>2
  <2>2. CASE pc # "idle"
    <3>1. /\ call = [key |-> call.key, datum |-> call.datum] /\ call.datum \in Datum
          /\ key \in Seq(Pair)
          /\ call.key = [n \in 1..Depth |-> [first |-> Schema[n],
                                             second |-> Values(call.key)[n]]]
      BY <1>2, <2>2 DEF Keys
    <3>2. DOMAIN call.key = 1..Depth /\ Depth \in Nat
      BY <3>1, SchemaFacts
    <3>3. \A n \in 1..Depth : call.key[n] \in Pair
      BY <1>2, <2>2, KeyFacts
    <3>4. call.key = [n \in 1..Depth |-> call.key[n]]
      BY <3>1, <3>2
    <3>5. call.key \in [1..Depth -> Pair]
      BY <3>3, <3>4
    <3>6. call.key \in Seq(Pair)
      BY <3>2, <3>5, FunctionIsSeq
    <3> QED BY <3>1, <3>6
  <2> QED BY <2>1, <2>2
<1> QED BY <1>2, <1>3, <1>4, <1>5 DEF TypeOK, Types, Insertion, Address, Depth

(* The items of a node are nodes and no two of them have the same value,   *)
(* in every state: the scan of addNode and the push_back_elem that is many *)
(* allocations later, calls that die in between, and the calls after them. *)
THEOREM SiblingsAlwaysDiffer == Spec => []SiblingsDiffer
<1>1. ASSUME Core PROVE SiblingsDiffer
  <2>1. PICK D \in [Nat -> 0..Depth] : Whole(D)
    BY <1>1 DEF Core
  <2>2. Shape(D) /\ heap \in Seq(Object)
    BY <1>1, <2>1 DEF Core, Whole, Types
  <2>3. ASSUME NEW n \in DOMAIN heap, NEW j \in DOMAIN heap[n].items_,
               NEW l \in DOMAIN heap[n].items_
        PROVE  LET a == heap[heap[n].items_[j]]  b == heap[heap[n].items_[l]] IN
               a.type = "TreeNode" /\ (j # l => a.value_ # b.value_)
    <3>1. n \in Nodes
      BY <2>2, <2>3, EmptySeq DEF Shape
    <3>2. Level(D, n) /\ Distinct(n)
      BY <2>2, <3>1 DEF Shape
    <3>3. heap[n].items_[j] \in Kids(n)
      BY DEF Kids
    <3>4. heap[n].items_[j] \in Nodes
      BY <3>2, <3>3 DEF Level
    <3> QED BY <3>2, <3>4 DEF Distinct, Nodes
  <2> QED BY <1>1, <2>3, CoreTypes DEF SiblingsDiffer
<1> QED BY <1>1, TreeInvariant, PTL

(* With a key in the schema, an insertion whose key the schema accepts     *)
(* never trips an assertion of addNode, whatever was inserted, interrupted *)
(* and retried before.  (With none, TreeRoot::addNode asserts at once.)    *)
THEOREM AssertionsHold ==
    ASSUME Schema # <<>>
    PROVE  Spec => NoAssertionFails
<1>1. Depth # 0
  BY SchemaAssumption, EmptySeq DEF Depth
<1>2. Core => reply # "AssertionFailed"
  BY <1>1 DEF Core, Types
<1>3. Core' => reply' # "AssertionFailed"
  BY <1>1 DEF Core, Types, Depth
<1>4. Core /\ [Next]_vars => [reply' # "AssertionFailed"]_vars
  BY <1>3, CoreNext
<1> QED BY <1>4, TreeInvariant, PTL DEF Spec, NoAssertionFails

-----------------------------------------------------------------------------
(***************************************************************************)
(* Second part: what a program finds in the tree.                          *)
(*                                                                         *)
(* Induction along the levels of the tree.  (The set of the levels that    *)
(* are not in S would have a smallest element.)                            *)
(***************************************************************************)

Less == {ss \in Nat \X Nat : ss[1] < ss[2]}

(* The order of the numbers has no infinite descent. *)
LEMMA NatOrder == IsWellFoundedOn(Less, Nat)
BY NatLessThanWellFounded DEF OpToRel, Less

(* A set of numbers that is not empty has a smallest element. *)
LEMMA Smallest ==
    ASSUME NEW S \in SUBSET Nat, S # {}
    PROVE  \E n \in S : \A m \in S : n <= m
<1>1. PICK x \in S : \A y \in S : ~(<<y, x>> \in Less)
  BY NatOrder, WFMin
<1>2. \A y \in S : x <= y
  <2>1. \A y, z \in Nat : y < z => <<y, z>> \in Less
    BY DEF Less
  <2>2. \A y, z \in Nat : y < z \/ z <= y
    OBVIOUS
  <2>3. x \in Nat /\ \A y \in S : y \in Nat
    OBVIOUS
  <2> QED BY <1>1, <2>1, <2>2, <2>3
<1> QED BY <1>2

(* From one level to the next, from lo to hi. *)
LEMMA Climb ==
    ASSUME NEW lo \in Nat, NEW hi \in Nat, NEW S,
           lo \in S, \A n \in lo..(hi - 1) : n \in S => n + 1 \in S
    PROVE  lo..hi \subseteq S
<1> DEFINE T == {n \in lo..hi : n \notin S}
<1> SUFFICES ASSUME T # {} PROVE FALSE
  OBVIOUS
<1>1. T \in SUBSET Nat
  OBVIOUS
<1>2. PICK n \in T : \A m \in T : n <= m
  BY <1>1, Smallest
<1>3. n \in lo..hi /\ n \notin S /\ n # lo
  BY <1>2
<1>4. n - 1 \in lo..(hi - 1) /\ n - 1 \in lo..hi /\ (n - 1) + 1 = n /\ ~(n <= n - 1)
  BY <1>3
<1>5. n - 1 \in S
  BY <1>2, <1>4
<1> QED BY <1>3, <1>4, <1>5

-----------------------------------------------------------------------------
(***************************************************************************)
(* The descent.                                                            *)
(***************************************************************************)

(* The node below x that the scan for the n-th value of p finds, or 0. *)
Below(p, n, x) == IF x = 0 \/ Matches(x, p[n]) = {} THEN 0 ELSE FirstMatch(x, p[n])

(* The nodes the scans of addNode find one after the other. *)
LEMMA NodeAtDef ==
    \A p : /\ NodeAt(p)[0] = node_
           /\ \A n \in 1..Depth : NodeAt(p)[n] = Below(p, n, NodeAt(p)[n - 1])
<1> SUFFICES ASSUME NEW p
             PROVE  /\ NodeAt(p)[0] = node_
                    /\ \A n \in 1..Depth : NodeAt(p)[n] = Below(p, n, NodeAt(p)[n - 1])
  OBVIOUS
<1>1. Depth \in Nat
  BY SchemaFacts
<1> DEFINE Is(f, m) == f = [n \in 0..m |-> IF n = 0 THEN node_ ELSE Below(p, n, f[n - 1])]
           S == {m \in Nat : \E f : Is(f, m)}
<1>2. 0 \in S
  <2>1. PICK f : f = [n \in 0..0 |-> node_]
    OBVIOUS
  <2>2. f = [n \in 0..0 |-> IF n = 0 THEN node_ ELSE Below(p, n, f[n - 1])]
    BY <2>1
  <2> QED BY <2>2
<1>3. ASSUME NEW m \in Nat, m \in S PROVE m + 1 \in S
  <2>1. PICK f : f = [n \in 0..m |-> IF n = 0 THEN node_ ELSE Below(p, n, f[n - 1])]
    BY <1>3
  <2>2. PICK g : g = [n \in 0..(m + 1) |-> IF n = 0 THEN node_ ELSE Below(p, n, f[n - 1])]
    OBVIOUS
  <2>3. \A n \in 0..m : g[n] = f[n]
    BY <2>1, <2>2
  <2>4. \A n \in 0..(m + 1) : n # 0 => n - 1 \in 0..m
    OBVIOUS
  <2>5. g = [n \in 0..(m + 1) |-> IF n = 0 THEN node_ ELSE Below(p, n, g[n - 1])]
    BY <2>2, <2>3, <2>4
  <2>6. m + 1 \in Nat
    OBVIOUS
  <2> QED BY <2>5, <2>6
<1> HIDE DEF S
<1>4. 0..Depth \subseteq S
  BY <1>1, <1>2, <1>3, Climb
<1>5. \E f : Is(f, Depth)
  BY <1>1, <1>4 DEF S
<1>6. NodeAt(p) = CHOOSE f : Is(f, Depth)
  BY DEF NodeAt, Below, Depth
<1>7. Is(NodeAt(p), Depth)
  BY <1>5, <1>6
<1>8. NodeAt(p) = [n \in 0..Depth |-> IF n = 0 THEN node_
                                      ELSE Below(p, n, NodeAt(p)[n - 1])]
  BY <1>7
<1>9. 0 \in 0..Depth /\ \A n \in 1..Depth : n \in 0..Depth /\ n # 0
  BY <1>1
<1> HIDE DEF Is
<1> QED BY <1>8, <1>9

(* A descent goes from a node to the one item that has the next value, if  *)
(* there is one.                                                           *)
Descends(p, n, x, y) ==
    /\ x = 0 => y = 0
    /\ x # 0 => \/ y \in Kids(x) /\ heap[y].value_ = p[n]
                   /\ \A k \in Kids(x) : heap[k].value_ = p[n] => k = y
                \/ y = 0 /\ \A k \in Kids(x) : heap[k].value_ # p[n]

(* The node at a depth of the path: it is there or not, it is linked into  *)
(* the tree, and the next one is below it.                                 *)
DescentIsRight ==
    heap \in Seq(Object) => \A D : Shape(D) => \A p :
        /\ NodeAt(p)[0] = node_
        /\ \A n \in 0..Depth : LET x == NodeAt(p)[n] IN
               x = 0 \/ (x \in Nodes /\ D[x] = n /\ ~Loose(x))
        /\ \A n \in 1..Depth : Descends(p, n, NodeAt(p)[n - 1], NodeAt(p)[n])

(* The scans of addNode go down a path of the tree. *)
LEMMA DescentTheorem == DescentIsRight
<1> SUFFICES ASSUME heap \in Seq(Object), NEW D, Shape(D), NEW p
             PROVE  /\ NodeAt(p)[0] = node_
                    /\ \A n \in 0..Depth : LET x == NodeAt(p)[n] IN
                           x = 0 \/ (x \in Nodes /\ D[x] = n /\ ~Loose(x))
                    /\ \A n \in 1..Depth : Descends(p, n, NodeAt(p)[n - 1], NodeAt(p)[n])
  BY DEF DescentIsRight
<1> DEFINE at == NodeAt(p)
           Good(n) == at[n] = 0 \/ (at[n] \in Nodes /\ D[at[n]] = n /\ ~Loose(at[n]))
           S == {n \in 0..Depth : Good(n)}
<1>1. Depth \in Nat /\ 0 \in 0..Depth
  BY SchemaFacts
<1>2. at[0] = node_ /\ \A n \in 1..Depth : at[n] = Below(p, n, at[n - 1])
  BY NodeAtDef
<1> HIDE DEF at
<1>3. ASSUME NEW n \in 1..Depth, NEW x \in Nodes, at[n - 1] = x, x # 0
      PROVE  Descends(p, n, x, at[n])
  <2>1. /\ Matches(x, p[n]) = {} <=> \A k \in Kids(x) : heap[k].value_ # p[n]
        /\ \A k \in Kids(x) : heap[k].value_ = p[n] => FirstMatch(x, p[n]) = k
        /\ Matches(x, p[n]) # {} => /\ FirstMatch(x, p[n]) \in Kids(x)
                                    /\ heap[FirstMatch(x, p[n])].value_ = p[n]
    BY Scan
  <2>2. at[n] = IF Matches(x, p[n]) = {} THEN 0 ELSE FirstMatch(x, p[n])
    BY <1>2, <1>3 DEF Below
  <2> QED BY <1>3, <2>1, <2>2 DEF Descends
<1>4. ASSUME NEW n \in 1..Depth, Good(n - 1) PROVE Descends(p, n, at[n - 1], at[n])
  <2>1. CASE at[n - 1] = 0
    BY <1>2, <2>1 DEF Below, Descends
  <2>2. CASE at[n - 1] # 0
    BY <1>3, <1>4, <2>2
  <2> QED BY <2>1, <2>2
<1>5. 0 \in S
  BY <1>1, <1>2 DEF Shape, Loose
<1>6. ASSUME NEW n \in 0..(Depth - 1), n \in S PROVE n + 1 \in S
  <2>1. n + 1 \in 1..Depth /\ n + 1 \in 0..Depth /\ (n + 1) - 1 = n /\ Good(n)
    BY <1>1, <1>6
  <2>2. Descends(p, n + 1, at[n], at[n + 1])
    BY <1>4, <2>1
  <2>3. CASE at[n] = 0
    BY <2>1, <2>2, <2>3 DEF Descends
  <2>4. CASE at[n] # 0
    <3>1. at[n] \in Nodes /\ D[at[n]] = n
      BY <2>1, <2>4
    <3>2. Level(D, at[n])
      BY <3>1 DEF Shape
    <3>3. at[n + 1] = 0 \/ at[n + 1] \in Kids(at[n])
      BY <2>2, <2>4 DEF Descends
    <3> QED BY <2>1, <3>1, <3>2, <3>3 DEF Level, Loose
  <2> QED BY <2>3, <2>4
<1> HIDE DEF S
<1>7. 0..Depth \subseteq S
  BY <1>1, <1>5, <1>6, Climb
<1>8. \A n \in 0..Depth : Good(n)
  BY <1>7 DEF S
<1>9. \A n \in 1..Depth : n - 1 \in 0..Depth
  BY <1>1
<1>10. \A n \in 1..Depth : Descends(p, n, at[n - 1], at[n])
  BY <1>4, <1>8, <1>9
<1> QED BY <1>2, <1>8, <1>10 DEF at

(* The same, to cite. *)
LEMMA Descent ==
    ASSUME heap \in Seq(Object), NEW D, Shape(D), NEW p
    PROVE  /\ NodeAt(p)[0] = node_
           /\ \A n \in 0..Depth : LET x == NodeAt(p)[n] IN
                  x = 0 \/ (x \in Nodes /\ D[x] = n /\ ~Loose(x))
           /\ \A n \in 1..Depth : Descends(p, n, NodeAt(p)[n - 1], NodeAt(p)[n])
BY DescentTheorem DEF DescentIsRight

(* The same, in the next state. *)
LEMMA DescentNext ==
    ASSUME heap' \in Seq(Object), NEW D, Shape(D)', NEW p
    PROVE  /\ NodeAt(p)[0]' = node_'
           /\ \A n \in 0..Depth :
                  \/ NodeAt(p)[n]' = 0
                  \/ NodeAt(p)[n]' \in Nodes' /\ D[NodeAt(p)[n]'] = n
           /\ \A n \in 1..Depth : Descends(p, n, NodeAt(p)[n - 1], NodeAt(p)[n])'
<1>1. DescentIsRight'
  BY DescentTheorem, PTL
<1>2. (heap \in Seq(Object))' <=> heap' \in Seq(Object)
  BY DEF Object
<1> QED BY <1>1, <1>2 DEF DescentIsRight, Depth

(* Where the path ends, nothing is found further down. *)
LEMMA NothingBelow ==
    ASSUME heap \in Seq(Object), NEW D, Shape(D), NEW p,
           NEW n \in 0..Depth, NodeAt(p)[n] = 0
    PROVE  \A m \in n..Depth : NodeAt(p)[m] = 0
<1> DEFINE S == {m \in n..Depth : NodeAt(p)[m] = 0}
<1>1. Depth \in Nat /\ n \in Nat /\ n \in n..Depth
  BY SchemaFacts
<1>2. n \in S
  BY <1>1
<1>3. ASSUME NEW m \in n..(Depth - 1), m \in S PROVE m + 1 \in S
  <2>1. m + 1 \in 1..Depth /\ (m + 1) - 1 = m /\ m + 1 \in n..Depth
    BY <1>1
  <2>2. Descends(p, m + 1, NodeAt(p)[m], NodeAt(p)[m + 1])
    BY <2>1, Descent
  <2> QED BY <1>3, <2>1, <2>2 DEF Descends
<1> HIDE DEF S
<1>4. n..Depth \subseteq S
  BY <1>1, <1>2, <1>3, Climb
<1> QED BY <1>4 DEF S

(* Two paths that lead to the same node agree up to there. *)
LEMMA OnePathEach ==
    ASSUME heap \in Seq(Object), NEW D, Shape(D), OneParent, NEW p, NEW q
    PROVE  \A n \in 0..Depth : NodeAt(p)[n] = NodeAt(q)[n] /\ NodeAt(p)[n] # 0
                                   => \A j \in 1..n : p[j] = q[j]
<1> DEFINE Agree(n) == NodeAt(p)[n] = NodeAt(q)[n] /\ NodeAt(p)[n] # 0
                           => \A j \in 1..n : p[j] = q[j]
           S == {n \in 0..Depth : Agree(n)}
<1>1. Depth \in Nat /\ 0 \in 0..Depth
  BY SchemaFacts
<1>2. 0 \in S
  BY <1>1
<1>3. ASSUME NEW n \in 0..(Depth - 1), n \in S PROVE n + 1 \in S
  <2>1. n + 1 \in 1..Depth /\ (n + 1) - 1 = n /\ n + 1 \in 0..Depth /\ n \in 0..Depth
    BY <1>1
  <2> DEFINE x == NodeAt(p)[n]  y == NodeAt(q)[n]  z == NodeAt(p)[n + 1]
  <2>2. Descends(p, n + 1, x, z) /\ Descends(q, n + 1, y, NodeAt(q)[n + 1])
    BY <2>1, Descent
  <2>3. (x = 0 \/ x \in Nodes) /\ (y = 0 \/ y \in Nodes)
    BY <2>1, Descent
  <2>4. ASSUME z = NodeAt(q)[n + 1], z # 0 PROVE \A j \in 1..(n + 1) : p[j] = q[j]
    <3>1. /\ x # 0 /\ y # 0 /\ z \in Kids(x) /\ z \in Kids(y)
          /\ p[n + 1] = q[n + 1]
      BY <2>2, <2>4 DEF Descends
    <3>2. x = y
      BY <2>3, <3>1 DEF OneParent
    <3>3. \A j \in 1..n : p[j] = q[j]
      BY <1>3, <3>1, <3>2
    <3>4. \A j \in 1..(n + 1) : j \in 1..n \/ j = n + 1
      BY <2>1
    <3> QED BY <3>1, <3>3, <3>4
  <2> QED BY <2>1, <2>4
<1> HIDE DEF S
<1>4. 0..Depth \subseteq S
  BY <1>1, <1>2, <1>3, Climb
<1> QED BY <1>4 DEF S

(* A descent that meets no node whose items changed finds what it found.   *)
LEMMA SameDescent ==
    ASSUME heap \in Seq(Object), heap' \in Seq(Object), OneParent',
           NEW D, Shape(D), NEW E, Shape(E)', NEW p,
           NEW lo \in 0..Depth, NEW hi \in lo..Depth,
           NodeAt(p)[lo]' = NodeAt(p)[lo],
           \A n \in lo..(hi - 1), x \in Nodes : NodeAt(p)[n] = x =>
               /\ Kids(x)' = Kids(x)
               /\ \A k \in Kids(x) : heap'[k].value_ = heap[k].value_
    PROVE  \A n \in lo..hi : NodeAt(p)[n]' = NodeAt(p)[n]
<1> DEFINE S == {n \in lo..hi : NodeAt(p)[n]' = NodeAt(p)[n]}
<1>1. Depth \in Nat /\ lo \in Nat /\ hi \in Nat /\ lo \in lo..hi /\ hi <= Depth
  BY SchemaFacts
<1>2. lo \in S
  BY <1>1
<1>3. ASSUME NEW n \in lo..(hi - 1), n \in S PROVE n + 1 \in S
  <2>1. n + 1 \in 1..Depth /\ (n + 1) - 1 = n /\ n + 1 \in lo..hi /\ n \in 0..Depth
    BY <1>1
  <2>2. PICK x : x = NodeAt(p)[n]
    OBVIOUS
  <2>3. PICK y : y = NodeAt(p)[n + 1]
    OBVIOUS
  <2>4. PICK z : z = NodeAt(p)[n + 1]'
    OBVIOUS
  <2>5. Descends(p, n + 1, x, y)
    BY <2>1, <2>2, <2>3, Descent
  <2>6. x = NodeAt(p)[n]'
    BY <1>3, <2>2
  <2>7. Descends(p, n + 1, x, z)'
    <3>1. Descends(p, n + 1, NodeAt(p)[n], NodeAt(p)[n + 1])'
      BY <2>1, DescentNext
    <3> QED BY <2>4, <2>6, <3>1 DEF Descends
  <2>8. CASE x = 0
    BY <2>1, <2>3, <2>4, <2>5, <2>7, <2>8 DEF Descends
  <2>9. CASE x # 0
    <3>1. x \in Nodes
      BY <2>1, <2>2, <2>9, Descent
    <3>2. Kids(x)' = Kids(x) /\ \A k \in Kids(x) : heap'[k].value_ = heap[k].value_
      BY <2>2, <3>1
    <3>3. y = z
      BY <2>5, <2>7, <2>9, <3>2 DEF Descends
    <3> QED BY <2>1, <2>3, <2>4, <3>3
  <2> QED BY <2>8, <2>9
<1> HIDE DEF S
<1>4. lo..hi \subseteq S
  BY <1>1, <1>2, <1>3, Climb
<1> QED BY <1>4 DEF S

(* The pool grows or stays, and nothing that is linked into the tree       *)
(* changes.                                                                *)
Keeps ==
    /\ node_' = node_
    /\ \A n \in DOMAIN heap : /\ n \in DOMAIN heap'
                              /\ heap'[n].value_ = heap[n].value_
                              /\ heap'[n].data_ = heap[n].data_
                              /\ heap'[n].content = heap[n].content
    /\ \A n \in Nodes : ~Loose(n) => Kids(n)' = Kids(n)

(* The leaf of a path that is stored holds a buffer. *)
LEMMA StoredLeaf ==
    ASSUME heap \in Seq(Object), NEW D, Shape(D), NEW p
    PROVE  LeafAt(p) = 0 \/ /\ LeafAt(p) \in DOMAIN heap
                            /\ heap[LeafAt(p)].data_ \in DOMAIN heap
<1>1. Depth \in 0..Depth /\ LeafAt(p) = NodeAt(p)[Depth] /\ Depth \in Nat
  BY SchemaFacts DEF LeafAt, Depth
<1>2. LeafAt(p) = 0 \/ (LeafAt(p) \in Nodes /\ D[LeafAt(p)] = Depth)
  BY <1>1, Descent
<1>3. Nodes \subseteq DOMAIN heap
  BY HeapFacts
<1>4. D[LeafAt(p)] = Depth => D[LeafAt(p)] >= Depth
  BY <1>1
<1> QED BY <1>2, <1>3, <1>4 DEF Shape, Level

(* What is not linked into the tree can change: nobody finds it. *)
LEMMA KeptContent ==
    ASSUME Core, Core', Keeps
    PROVE  /\ \A p : \A n \in 0..Depth : NodeAt(p)[n]' = NodeAt(p)[n]
           /\ Stored' = Stored
           /\ \A p \in Stored : DatumOf(LeafAt(p))' = DatumOf(LeafAt(p))
           /\ Content' = Content
<1>1. PICK D \in [Nat -> 0..Depth] : Whole(D)
  BY DEF Core
<1>2. \E E \in [Nat -> 0..Depth] : Whole(E)'
  BY DEF Core, Depth
<1>3. PICK E \in [Nat -> 0..Depth] : Whole(E)'
  BY <1>2
<1>4. /\ heap \in Seq(Object) /\ heap' \in Seq(Object) /\ Shape(D) /\ Shape(E)'
      /\ OneParent /\ OneParent' /\ Depth \in Nat
  BY <1>1, <1>3, SchemaFacts DEF Core, Whole, Types, Object
<1>5. Nodes \subseteq DOMAIN heap
  BY <1>4, HeapFacts
<1>6. ASSUME NEW p PROVE \A n \in 0..Depth : NodeAt(p)[n]' = NodeAt(p)[n]
  <2>1. NodeAt(p)[0]' = NodeAt(p)[0]
    <3>1. NodeAt(p)[0]' = node_'
      BY <1>4, DescentNext
    <3>2. NodeAt(p)[0] = node_
      BY <1>4, Descent
    <3> QED BY <3>1, <3>2 DEF Keeps
  <2>2. ASSUME NEW n \in 0..(Depth - 1), NEW x \in Nodes, NodeAt(p)[n] = x
        PROVE  /\ Kids(x)' = Kids(x)
               /\ \A k \in Kids(x) : heap'[k].value_ = heap[k].value_
    <3>1. n \in 0..Depth
      BY <1>4
    <3>2. x # 0 /\ ~Loose(x)
      BY <1>4, <1>5, <2>2, <3>1, Descent, HeapFacts
    <3>3. Kids(x) \subseteq DOMAIN heap
      BY <1>4, <1>5 DEF Shape, Level
    <3> QED BY <3>2, <3>3 DEF Keeps
  <2>3. 0 \in 0..Depth /\ Depth \in 0..Depth
    BY <1>4
  <2> QED BY <1>4, <2>1, <2>2, <2>3, SameDescent
<1>7. \A p : LeafAt(p)' = LeafAt(p)
  <2>1. Depth \in 0..Depth
    BY <1>4
  <2> QED BY <1>6, <2>1 DEF LeafAt, Depth
<1>8. Stored' = Stored
  BY <1>7 DEF Stored, Path
<1>9. ASSUME NEW p \in Stored PROVE DatumOf(LeafAt(p))' = DatumOf(LeafAt(p))
  <2>1. PICK l : l = LeafAt(p)
    OBVIOUS
  <2>2. l \in DOMAIN heap /\ heap[l].data_ \in DOMAIN heap
    BY <1>4, <1>9, <2>1, StoredLeaf DEF Stored
  <2>3. heap'[heap'[l].data_].content = heap[heap[l].data_].content
    BY <2>2 DEF Keeps
  <2> QED BY <1>7, <2>1, <2>3 DEF DatumOf
<1>10. Content' = Content
  BY <1>8, <1>9 DEF Content
<1> QED BY <1>6, <1>8, <1>9, <1>10

-----------------------------------------------------------------------------
(***************************************************************************)
(* The invariant: Core, and what the call in progress knows of the tree.   *)
(***************************************************************************)

(* The node at which addNode stands is the one on the path of its key. *)
Reached == this # 0 /\ pc # "return" => NodeAt(Values(call.key))[At] = this

(* c is the branch being built, from its last complete node to the leaf:   *)
(* one item in each node, with the value of its level, and the datum.      *)
BranchIs(c) ==
    /\ c[Top + i] = pNode
    /\ \A n \in (Top + i + 1)..Depth : /\ Kids(c[n - 1]) = {c[n]}
                                       /\ heap[c[n]].value_ = Value_(n)
    /\ DatumOf(c[Depth]) = call.datum
Built == pc \in {"node", "push", "link"} => \E c \in [0..Depth -> Nodes] : BranchIs(c)

(* What was inserted is there, before its insertion returns and after. *)
Kept ==
    /\ \A a \in acked : a[1] \in Stored /\ DatumOf(LeafAt(a[1])) = a[2]
    /\ pc = "return" => /\ Values(call.key) \in Stored
                        /\ DatumOf(LeafAt(Values(call.key))) = call.datum

MapInv == Core /\ Reached /\ Built /\ Kept

(* A pool that stays as it is keeps everything. *)
LEMMA StillKeeps ==
    ASSUME UNCHANGED pool
    PROVE  Keeps
BY DEF Keeps, pool, Kids, Nodes

(* An allocation changes no object. *)
LEMMA GrownKeeps ==
    ASSUME heap \in Seq(Object), NEW o \in Object, heap' = Append(heap, o), node_' = node_
    PROVE  Keeps
<1>1. /\ DOMAIN heap' = DOMAIN heap \union {Len(heap) + 1}
      /\ \A n \in DOMAIN heap : heap'[n] = heap[n] /\ Kids(n)' = Kids(n)
      /\ Nodes \subseteq DOMAIN heap
  BY GrownHeap, HeapFacts
<1> QED BY <1>1 DEF Keeps

(* The blob, the leaf and the nodes of a branch are objects. *)
LEMMA AllocatedObjects ==
    ASSUME Core
    PROVE  /\ AllocateBlob => \E o \in Object : o = Buffer(call.datum)
           /\ AllocateLeaf => \E o \in Object : o = Node(Empty, LeafValue, pNode, <<>>)
           /\ AllocateNode => \E o \in Object : o = Node(KeyOfNode(i), ValueOfNode(i), 0, <<>>)
<1>1. ASSUME AllocateBlob PROVE Buffer(call.datum) \in Object
  <2>1. call.datum \in Datum
    BY <1>1 DEF AllocateBlob, Core, Keys
  <2> QED BY <2>1, EmptySeq DEF Buffer, Object
<1>2. ASSUME AllocateLeaf PROVE Node(Empty, LeafValue, pNode, <<>>) \in Object
  <2>1. LeafValue \in Value
    BY <1>2, ChainFacts DEF AllocateLeaf, Core
  <2>2. pNode \in Nat
    BY HeapFacts DEF Core, Types
  <2> QED BY <2>1, <2>2, EmptySeq DEF Node, Object
<1>3. ASSUME AllocateNode PROVE Node(KeyOfNode(i), ValueOfNode(i), 0, <<>>) \in Object
  <2>1. PICK D \in [Nat -> 0..Depth] : Whole(D)
    BY DEF Core
  <2>2. i \in 0..Depth /\ i <= Len(Chain) /\ i # 0
    BY <1>3, <2>1 DEF Core, Types, Whole, Builds, AllocateNode
  <2>3. Len(Chain) \in Nat /\ Depth \in Nat
    BY <1>3, ChainFacts DEF Core, AllocateNode
  <2>4. i \in 1..Len(Chain)
    BY <2>2, <2>3
  <2>5. KeyOfNode(i) \in Key /\ ValueOfNode(i) \in Key \union Value
    BY <1>3, <2>4, ChainFacts DEF Core, AllocateNode
  <2> QED BY <2>5, EmptySeq DEF Node, Object
<1> QED BY <1>1, <1>2, <1>3

(* Every step but Link keeps what is linked into the tree. *)
LEMMA NextKeeps ==
    ASSUME Core, [Next]_vars, ~Link
    PROVE  Keeps
<1>1. heap \in Seq(Object)
  BY DEF Core, Types
<1>2. CASE UNCHANGED pool
  BY <1>2, StillKeeps
<1>3. CASE AllocateBlob
  <2>1. PICK o \in Object : o = Buffer(call.datum)
    BY <1>3, AllocatedObjects
  <2> QED BY <1>1, <1>3, <2>1, GrownKeeps DEF AllocateBlob
<1>4. CASE AllocateLeaf
  <2>1. PICK o \in Object : o = Node(Empty, LeafValue, pNode, <<>>)
    BY <1>4, AllocatedObjects
  <2> QED BY <1>1, <1>4, <2>1, GrownKeeps DEF AllocateLeaf
<1>5. CASE AllocateNode
  <2>1. PICK o \in Object : o = Node(KeyOfNode(i), ValueOfNode(i), 0, <<>>)
    BY <1>5, AllocatedObjects
  <2> QED BY <1>1, <1>5, <2>1, GrownKeeps DEF AllocateNode
<1>6. CASE PushIntoNew
  <2>1. PICK a : a = pNewNode
    OBVIOUS
  <2>2. PICK b : b = pNode
    OBVIOUS
  <2>3. PICK D \in [Nat -> 0..Depth] : Whole(D)
    BY DEF Core
  <2>4. a \in Nodes /\ Loose(a) /\ b \in Nodes
    BY <1>6, <2>1, <2>2, <2>3 DEF PushIntoNew, Whole, Builds, Loose
  <2>5. Adoption(a, b) /\ node_' = node_
    BY <1>6, <2>1, <2>2 DEF PushIntoNew, Adoption
  <2>6. Nodes \subseteq DOMAIN heap /\ a \in DOMAIN heap /\ b \in Nat
    BY <1>1, <2>4, HeapFacts
  <2>7. /\ DOMAIN heap' = DOMAIN heap
        /\ \A m \in DOMAIN heap :
              /\ heap'[m].content = heap[m].content
              /\ heap'[m].value_ = heap[m].value_
              /\ heap'[m].data_ = heap[m].data_
              /\ Kids(m)' = IF m = a THEN Kids(m) \union {b} ELSE Kids(m)
    BY <1>1, <2>5, <2>6, AdoptedHeap
  <2> QED BY <2>4, <2>5, <2>6, <2>7 DEF Keeps
<1>7. \/ UNCHANGED pool \/ AllocateBlob \/ AllocateLeaf \/ AllocateNode \/ PushIntoNew
  BY DEF Next, Step, AddNode, CheckRoot, Visit, Return, AllocationFails, Restart, vars
<1> QED BY <1>2, <1>3, <1>4, <1>5, <1>6, <1>7

(* addNode goes down the path of its key, and what it allocates does not   *)
(* move the node it stands at.                                             *)
LEMMA ReachedNext ==
    ASSUME Core, Core', Reached, [Next]_vars
    PROVE  Reached'
<1>1. SUFFICES ASSUME this' # 0, pc' # "return"
               PROVE  NodeAt(Values(call.key))[At]' = this'
  BY DEF Reached
<1>2. ~Link /\ Keeps
  BY <1>1, NextKeeps DEF Link
<1>3. \A p : \A n \in 0..Depth : NodeAt(p)[n]' = NodeAt(p)[n]
  BY <1>2, KeptContent
<1>4. PICK q : q = Values(call.key)'
  OBVIOUS
<1>5. PICK m : m = At'
  OBVIOUS
<1>6. SUFFICES NodeAt(q)[m]' = this'
  BY <1>4, <1>5
<1>7. Depth \in Nat
  BY SchemaFacts
<1>8. heap' \in Seq(Object) /\ \E D : Shape(D)'
  BY DEF Core, Types, Whole, Object
<1>9. ASSUME NEW in \in Dict, NEW d \in Datum, AddNode(in, d) PROVE NodeAt(q)[m]' = this'
  <2>1. this' = node_ /\ node_' = node_ /\ key' = processInsertKey(in) /\ pc' # "idle"
    BY <1>1, <1>9 DEF AddNode, Finish, pool
  <2>2. m = 0
    <3>1. pc' = "root" \/ pc' = "blob"
      BY <1>1, <1>9 DEF AddNode, Finish
    <3>2. pc' = "blob" => this' = 0
      BY <1>1, <1>9 DEF AddNode, Finish
    <3>3. pc' = "root"
      BY <1>1, <3>1, <3>2
    <3> QED BY <1>5, <3>3 DEF Core, Whole, Stands
  <2> QED BY <1>8, <2>1, <2>2, DescentNext
<1>10. CASE this' = this /\ key' = key /\ call' = call /\ pc # "return" /\ pc # "idle"
  <2>1. q = Values(call.key) /\ m = At
    BY <1>4, <1>5, <1>10 DEF Values, At, Depth
  <2>2. At \in 0..Depth
    <3>1. At \in 0..(Depth - 1)
      BY <1>10, KeyFacts DEF Core
    <3> QED BY <1>7, <3>1
  <2> QED BY <1>1, <1>3, <1>10, <2>1, <2>2 DEF Reached
<1>11. CASE Visit /\ Matches(this, Head(key).second) # {}
  <2>1. /\ this' = FirstMatch(this, Head(key).second) /\ key' = Tail(key) /\ call' = call
        /\ Matches(this, Head(key).second) # {} /\ pc = "visit"
    <3>1. ~Finish("AssertionFailed") /\ ~Finish("LeafExistsError")
      BY <1>1 DEF Finish
    <3> QED BY <1>11, <3>1 DEF Visit
  <2>2. q = Values(call.key)
    BY <1>4, <2>1 DEF Values
  <2>3. /\ At \in 0..(Depth - 1) /\ Head(key).second = Value_(At + 1)
        /\ At + 1 \in 1..Depth /\ Value_(At + 1) = q[At + 1]
        /\ Len(Tail(key)) = Len(key) - 1 /\ Len(key) \in 1..Depth
    <3>0. At \in 0..(Depth - 1)
      BY <2>1, KeyFacts DEF Core
    <3>1. At \in 0..(Depth - 1) /\ At + 1 \in 1..Depth
      BY <1>7, <3>0
    <3>2. \A n \in 1..Depth : Value_(n) = Values(call.key)[n]
      BY <2>1, KeyFacts DEF Core
    <3> QED BY <2>1, <2>2, <3>1, <3>2, KeyFacts DEF Core
  <2>4. m = At + 1
    <3>1. Len(key') = Len(key) - 1
      BY <2>1, <2>3, Zenon
    <3>2. m = Depth - (Len(key) - 1) /\ At = Depth - Len(key)
      BY <1>5, <3>1 DEF At, Depth
    <3>3. \A l \in 1..Depth : Depth - (l - 1) = (Depth - l) + 1
      BY <1>7
    <3> QED BY <2>3, <3>2, <3>3
  <2>5. PICK D : Shape(D) /\ Stands(D)
    BY DEF Core, Whole
  <2>6. this # 0 /\ NodeAt(q)[At] = this
    BY <2>1, <2>2, <2>5 DEF Reached, Stands
  <2>7. NodeAt(q)[At + 1] = Below(q, At + 1, NodeAt(q)[(At + 1) - 1])
    BY <2>3, NodeAtDef
  <2>8. (At + 1) - 1 = At /\ At + 1 \in 0..Depth
    BY <1>7, <2>3
  <2>9. NodeAt(q)[At + 1] = FirstMatch(this, Head(key).second)
    BY <2>1, <2>3, <2>6, <2>7, <2>8 DEF Below
  <2> QED BY <1>3, <2>1, <2>4, <2>8, <2>9
<1>12. \/ \E in \in Dict, d \in Datum : AddNode(in, d)
       \/ this' = this /\ key' = key /\ call' = call /\ pc # "return" /\ pc # "idle"
       \/ Visit /\ Matches(this, Head(key).second) # {}
       \/ UNCHANGED vars
  <2>1. CASE CheckRoot
    BY <1>1, <2>1 DEF CheckRoot, Finish
  <2>2. CASE Visit
    <3>1. ~Finish("AssertionFailed")
      BY <1>1 DEF Finish
    <3>2. Matches(this, Head(key).second) = {} => call' = call /\ key' = key /\ this' = this
      BY <2>2, <3>1 DEF Visit
    <3> QED BY <2>2, <3>2 DEF Visit
  <2>3. CASE AllocateBlob \/ AllocateLeaf \/ AllocateNode \/ PushIntoNew
    BY <2>3 DEF AllocateBlob, AllocateLeaf, AllocateNode, PushIntoNew
  <2>4. ~Return /\ ~AllocationFails /\ ~Restart
    BY <1>1 DEF Return, AllocationFails, Restart, Finish
  <2> QED BY <1>2, <2>1, <2>2, <2>3, <2>4 DEF Next, Step
<1>13. CASE UNCHANGED vars
  <2>1. pc # "idle" /\ this' = this /\ key' = key /\ call' = call /\ pc # "return"
    BY <1>1, <1>13 DEF vars, Core, Keys
  <2> QED BY <1>10, <2>1
<1> QED BY <1>9, <1>10, <1>11, <1>12, <1>13

(* Each node of the branch is one level below the one above it, and the    *)
(* last holds a buffer.                                                    *)
LEMMA BranchFacts ==
    ASSUME Core, NEW D, Shape(D), Builds(D), pc \in {"node", "push", "link"},
           NEW c \in [0..Depth -> Nodes], BranchIs(c)
    PROVE  /\ Top + i \in 0..Depth
           /\ \A n \in (Top + i)..Depth : D[c[n]] = n
           /\ c[Depth] \in DOMAIN heap /\ heap[c[Depth]].data_ \in DOMAIN heap
<1>1. /\ Depth \in Nat /\ Top \in 0..Depth /\ Len(Chain) \in 0..Depth
      /\ Top + Len(Chain) = Depth
  BY ChainFacts DEF Core
<1>2. i \in 0..Depth /\ i <= Len(Chain)
  BY DEF Core, Types, Builds
<1>3. PICK t : t = Top + i
  OBVIOUS
<1>4. t \in 0..Depth /\ t \in Nat /\ t \in t..Depth /\ Depth \in 0..Depth /\ Depth \in t..Depth
  BY <1>1, <1>2, <1>3
<1> DEFINE S == {n \in t..Depth : D[c[n]] = n}
<1>5. t \in S
  BY <1>3, <1>4 DEF Builds, BranchIs
<1>6. ASSUME NEW n \in t..(Depth - 1), n \in S PROVE n + 1 \in S
  <2>1. /\ n + 1 \in (t + 1)..Depth /\ (n + 1) - 1 = n /\ n + 1 \in t..Depth
        /\ n \in 0..Depth
    BY <1>1, <1>4
  <2>2. Kids(c[n]) = {c[n + 1]}
    BY <1>3, <2>1 DEF BranchIs
  <2>3. c[n] \in Nodes
    BY <2>1
  <2>4. Level(D, c[n])
    BY <2>3 DEF Shape
  <2>5. D[c[n + 1]] = D[c[n]] + 1
    BY <2>2, <2>4 DEF Level
  <2> QED BY <1>6, <2>1, <2>5
<1> HIDE DEF S
<1>7. t..Depth \subseteq S
  BY <1>1, <1>4, <1>5, <1>6, Climb
<1>8. \A n \in t..Depth : D[c[n]] = n
  BY <1>7 DEF S
<1>9. c[Depth] \in Nodes /\ D[c[Depth]] >= Depth
  BY <1>1, <1>4, <1>8
<1>10. c[Depth] \in DOMAIN heap /\ heap[c[Depth]].data_ \in DOMAIN heap
  BY <1>9, HeapFacts DEF Core, Types, Shape, Level
<1> QED BY <1>3, <1>4, <1>8, <1>10

(* The leaf alone is a branch: it holds the datum of the call. *)
LEMMA LeafBuilt ==
    ASSUME Core, Core', AllocateLeaf
    PROVE  Built'
<1>1. PICK D \in [Nat -> 0..Depth] : Whole(D)
  BY DEF Core
<1>2. PICK a : a = Len(heap) + 1
  OBVIOUS
<1>3. PICK b : b = pNode
  OBVIOUS
<1>4. PICK o \in Object : o = Node(Empty, LeafValue, b, <<>>)
  BY <1>3, AllocatedObjects
<1>5. /\ pc = "leaf" /\ heap' = Append(heap, o) /\ heap \in Seq(Object) /\ call' = call
      /\ pNode' = Len(heap') /\ i' = Len(Chain) /\ this' = this /\ key' = key
      /\ pc' # "idle"
  BY <1>3, <1>4 DEF AllocateLeaf, Core, Types
<1>6. /\ Len(heap') = a /\ heap'[a] = o /\ \A n \in DOMAIN heap : heap'[n] = heap[n]
      /\ Nodes' = IF o.type = "TreeNode" THEN Nodes \union {a} ELSE Nodes
  BY <1>2, <1>5, GrownHeap
<1>7. o.type = "TreeNode" /\ o.data_ = b
  BY <1>4 DEF Node
<1>8. b \in DOMAIN heap /\ heap[b].content = call.datum
  <2>1. b # 0 /\ heap[b] = Buffer(call.datum)
    BY <1>1, <1>3, <1>5 DEF Whole, Builds
  <2>2. b \in 0..Len(heap) /\ DOMAIN heap = 1..Len(heap) /\ Len(heap) \in Nat
    BY <1>3, <1>5, HeapFacts DEF Core, Types
  <2> QED BY <2>1, <2>2 DEF Buffer
<1>9. /\ Depth \in Nat /\ Top \in Nat /\ Len(Chain) \in Nat /\ Top + Len(Chain) = Depth
      /\ Top' = Top
  BY <1>5, ChainFacts, StillKeys DEF Core
<1>10. PICK c : c = [n \in 0..Depth |-> a]
  OBVIOUS
<1>11. c \in [0..Depth -> Nodes'] /\ c[Depth] = a
  BY <1>6, <1>7, <1>9, <1>10
<1>12. BranchIs(c)'
  <2>1. Top' + i' = Depth /\ (Top' + i' + 1)..Depth = {}
    BY <1>5, <1>9
  <2>2. heap'[heap'[a].data_].content = call'.datum
    BY <1>5, <1>6, <1>7, <1>8
  <2> QED BY <1>5, <1>6, <1>11, <2>1, <2>2 DEF BranchIs, DatumOf, Depth
<1> QED BY <1>11, <1>12 DEF Built, Depth

(* An empty node above the branch leaves the branch as it is. *)
LEMMA NodeBuilt ==
    ASSUME Core, Core', Built, AllocateNode
    PROVE  Built'
<1>1. PICK D \in [Nat -> 0..Depth] : Whole(D)
  BY DEF Core
<1>2. /\ pc = "node" /\ call' = call /\ pNode' = pNode /\ i' = i /\ this' = this
      /\ key' = key /\ pc' = "push" /\ heap \in Seq(Object)
  BY DEF AllocateNode, Core, Types
<1>3. PICK c \in [0..Depth -> Nodes] : BranchIs(c)
  BY <1>2 DEF Built
<1>4. PICK o \in Object : o = Node(KeyOfNode(i), ValueOfNode(i), 0, <<>>)
  BY AllocatedObjects
<1>5. /\ \A n \in DOMAIN heap : heap'[n] = heap[n] /\ Kids(n)' = Kids(n)
      /\ Nodes \subseteq Nodes' /\ Nodes \subseteq DOMAIN heap
  <2>1. heap' = Append(heap, o)
    BY <1>4 DEF AllocateNode
  <2>2. /\ \A n \in DOMAIN heap : heap'[n] = heap[n] /\ Kids(n)' = Kids(n)
        /\ Nodes' = IF o.type = "TreeNode" THEN Nodes \union {Len(heap) + 1} ELSE Nodes
    BY <1>2, <2>1, GrownHeap
  <2> QED BY <1>2, <2>2, HeapFacts
<1>6. Top' = Top /\ \A n : Value_(n)' = Value_(n)
  BY <1>2, StillKeys DEF Core
<1>7. /\ Top + i \in 0..Depth /\ Depth \in Nat
      /\ c[Depth] \in DOMAIN heap /\ heap[c[Depth]].data_ \in DOMAIN heap
  BY <1>1, <1>2, <1>3, BranchFacts, SchemaFacts DEF Whole
<1>8. \A n \in (Top + i + 1)..Depth : n \in 0..Depth /\ n - 1 \in 0..Depth
  BY <1>7
<1>9. \A n \in (Top + i + 1)..Depth : /\ Kids(c[n - 1])' = {c[n]}
                                      /\ heap'[c[n]].value_ = Value_(n)
  BY <1>3, <1>5, <1>8 DEF BranchIs
<1>10. heap'[heap'[c[Depth]].data_].content = call'.datum
  BY <1>2, <1>3, <1>5, <1>7 DEF BranchIs, DatumOf
<1>11. BranchIs(c)'
  BY <1>2, <1>3, <1>6, <1>9, <1>10 DEF BranchIs, DatumOf, Depth, Value_
<1> QED BY <1>3, <1>5, <1>11 DEF Built, Depth

(* The node that took the branch is its new top. *)
LEMMA PushBuilt ==
    ASSUME Core, Core', Built, PushIntoNew
    PROVE  Built'
<1>1. PICK D \in [Nat -> 0..Depth] : Whole(D)
  BY DEF Core
<1>2. PICK a : a = pNewNode
  OBVIOUS
<1>3. PICK b : b = pNode
  OBVIOUS
<1>4. PICK t : t = Top + i
  OBVIOUS
<1>5. /\ pc = "push" /\ pc' # "idle" /\ call' = call /\ pNode' = a /\ i' = i - 1
      /\ this' = this /\ key' = key /\ heap \in Seq(Object) /\ Adoption(a, b)
  BY <1>2, <1>3 DEF PushIntoNew, Adoption, Core, Types
<1>6. PICK c \in [0..Depth -> Nodes] : BranchIs(c)
  BY <1>5 DEF Built
<1>7. /\ a \in Nodes /\ Loose(a) /\ D[a] = t - 1 /\ heap[a].items_ = <<>>
      /\ t > 1 => heap[a].value_ = Value_(t - 1)
  BY <1>1, <1>2, <1>4, <1>5 DEF Whole, Builds, Loose
<1>8. /\ b \in Nodes /\ Loose(b) /\ D[b] = t /\ c[t] = b
      /\ t >= 1 => heap[b].value_ = Value_(t)
  BY <1>1, <1>3, <1>4, <1>5, <1>6 DEF Whole, Builds, Loose, BranchIs
<1>9. /\ Depth \in Nat /\ Top \in Nat /\ i \in 1..Depth /\ t \in 1..Depth
      /\ Top' + i' = t - 1
  <2>1. /\ Depth \in Nat /\ Top \in 0..Depth /\ Len(Chain) \in 0..Depth
        /\ Top + Len(Chain) = Depth
    BY <1>5, ChainFacts DEF Core
  <2>2. i \in 1..Depth /\ i <= Len(Chain)
    BY <1>1, <1>5 DEF Core, Types, Whole, Builds
  <2>3. Top' = Top
    BY <1>5, StillKeys DEF Core
  <2> QED BY <1>4, <1>5, <2>1, <2>2, <2>3
<1>10. /\ \A n \in t..Depth : D[c[n]] = n
       /\ c[Depth] \in DOMAIN heap /\ heap[c[Depth]].data_ \in DOMAIN heap
  BY <1>1, <1>4, <1>5, <1>6, BranchFacts DEF Whole
<1>11. Nodes \subseteq DOMAIN heap /\ a \in DOMAIN heap /\ b \in Nat
  BY <1>5, <1>7, <1>8, HeapFacts
<1>12. /\ Nodes' = Nodes
       /\ \A m \in DOMAIN heap :
              /\ heap'[m].content = heap[m].content
              /\ heap'[m].value_ = heap[m].value_
              /\ heap'[m].data_ = heap[m].data_
              /\ Kids(m)' = IF m = a THEN Kids(m) \union {b} ELSE Kids(m)
  BY <1>5, <1>11, AdoptedHeap
<1>13. PICK e : e = [c EXCEPT ![t - 1] = a]
  OBVIOUS
<1>14. t - 1 \in 0..Depth /\ \A n \in t..Depth : n \in 0..Depth /\ n # t - 1
  BY <1>9
<1>15. /\ e \in [0..Depth -> Nodes'] /\ e[t - 1] = a
       /\ \A n \in t..Depth : e[n] = c[n]
  BY <1>7, <1>12, <1>13, <1>14
<1>16. ASSUME NEW n \in t..Depth
       PROVE  Kids(e[n - 1])' = {e[n]} /\ heap'[e[n]].value_ = Value_(n)
  <2>1. e[n] = c[n] /\ c[n] \in Nodes /\ n \in 0..Depth
    BY <1>14, <1>15, <1>16
  <2>2. CASE n = t
    <3>1. e[n - 1] = a /\ c[n] = b /\ Kids(a) = {}
      BY <1>7, <1>8, <1>15, <2>2 DEF Kids
    <3>2. Kids(a)' = {b}
      BY <1>11, <1>12, <3>1
    <3>3. t >= 1
      BY <1>9
    <3> QED BY <1>8, <1>11, <1>12, <2>1, <2>2, <3>1, <3>2, <3>3
  <2>3. CASE n # t
    <3>1. n \in (t + 1)..Depth /\ n - 1 \in t..Depth /\ n - 1 # t - 1
      BY <1>9, <2>3
    <3>2. Kids(c[n - 1]) = {c[n]} /\ heap[c[n]].value_ = Value_(n)
      BY <1>4, <1>6, <3>1 DEF BranchIs
    <3>3. e[n - 1] = c[n - 1] /\ c[n - 1] \in Nodes /\ D[c[n - 1]] = n - 1
      BY <1>10, <1>14, <1>15, <3>1
    <3>4. c[n - 1] # a
      BY <1>7, <3>1, <3>3
    <3> QED BY <1>11, <1>12, <2>1, <3>2, <3>3, <3>4
  <2> QED BY <2>2, <2>3
<1>17. e[Depth] = c[Depth] /\ heap'[heap'[e[Depth]].data_].content = call'.datum
  <2>1. e[Depth] = c[Depth]
    <3>1. Depth \in t..Depth
      BY <1>9
    <3> QED BY <1>15, <3>1
  <2>2. heap[heap[c[Depth]].data_].content = call.datum /\ call' = call
    BY <1>5, <1>6 DEF BranchIs, DatumOf
  <2> QED BY <1>10, <1>12, <2>1, <2>2
<1>18. BranchIs(e)'
  <2>1. (Top' + i' + 1)..Depth = t..Depth
    BY <1>9
  <2>2. \A n \in (Top' + i' + 1)..Depth : /\ Kids(e[n - 1])' = {e[n]}
                                          /\ heap'[e[n]].value_ = call'.key[n].second
    BY <1>5, <1>16, <2>1 DEF Value_
  <2>3. e[Top' + i'] = pNode'
    BY <1>5, <1>9, <1>15
  <2> QED BY <1>17, <2>2, <2>3 DEF BranchIs, DatumOf, Depth, Value_
<1> QED BY <1>15, <1>18 DEF Built, Depth

(* Until it is linked, the branch is complete below its last node.         *)
LEMMA BuiltNext ==
    ASSUME Core, Core', Built, [Next]_vars
    PROVE  Built'
<1>1. CASE AllocateLeaf \/ AllocateNode \/ PushIntoNew
  BY <1>1, LeafBuilt, NodeBuilt, PushBuilt
<1>2. CASE UNCHANGED vars
  <2>1. /\ heap' = heap /\ pc' = pc /\ call' = call /\ this' = this /\ key' = key
        /\ i' = i /\ pNode' = pNode
    BY <1>2 DEF vars, pool, building
  <2>2. \A c : BranchIs(c) => BranchIs(c)'
    <3>1. SUFFICES ASSUME NEW c, BranchIs(c) PROVE BranchIs(c)'
      OBVIOUS
    <3>2. Top' = Top /\ \A n : Kids(n)' = Kids(n)
      BY <2>1 DEF Top, Chain, Kids, Depth
    <3>3. c[Top' + i'] = pNode'
      BY <2>1, <3>1, <3>2 DEF BranchIs
    <3>4. \A n \in (Top' + i' + 1)..Depth : /\ Kids(c[n - 1])' = {c[n]}
                                            /\ heap'[c[n]].value_ = call'.key[n].second
      BY <2>1, <3>1, <3>2 DEF BranchIs, Value_
    <3>5. heap'[heap'[c[Depth]].data_].content = call'.datum
      BY <2>1, <3>1 DEF BranchIs, DatumOf
    <3> QED BY <3>3, <3>4, <3>5 DEF BranchIs, DatumOf, Depth, Value_
  <2> QED BY <2>1, <2>2 DEF Built, Nodes, Depth
<1>3. ASSUME ~(AllocateLeaf \/ AllocateNode \/ PushIntoNew), ~UNCHANGED vars
      PROVE  pc' \notin {"node", "push", "link"}
  <2>1. ASSUME NEW in \in Dict, NEW d \in Datum, AddNode(in, d)
        PROVE  pc' \notin {"node", "push", "link"}
    BY <2>1 DEF AddNode, Finish
  <2>2. CASE CheckRoot \/ Visit
    BY <2>2 DEF CheckRoot, Visit, Finish
  <2>3. CASE AllocateBlob \/ Link
    BY <2>3 DEF AllocateBlob, Link
  <2>4. CASE Return \/ AllocationFails \/ Restart
    BY <2>4 DEF Return, AllocationFails, Restart, Finish
  <2> QED BY <1>3, <2>1, <2>2, <2>3, <2>4 DEF Next, Step
<1> QED BY <1>1, <1>2, <1>3 DEF Built

-----------------------------------------------------------------------------
(***************************************************************************)
(* Link: the one step at which the tree changes for its readers.           *)
(***************************************************************************)

(* The branch c is linked below the node a, or as the root when a is 0: it *)
(* begins at level t, and has the values of the path q.                    *)
Attached(D, a, t, c, q) ==
    /\ t \in 0..Depth
    /\ c \in [0..Depth -> Nodes]
    /\ \A n \in t..Depth : D[c[n]] = n
    /\ \A n \in (t + 1)..Depth : Kids(c[n - 1]) = {c[n]} /\ heap[c[n]].value_ = q[n]
    /\ a = 0 => t = 0 /\ node_ = 0 /\ node_' = c[t]
    /\ a # 0 => /\ t # 0 /\ node_' = node_
                /\ a \in Nodes /\ D[a] = t - 1 /\ NodeAt(q)[t - 1] = a
                /\ \A k \in Kids(a) : heap[k].value_ # q[t]
                /\ heap[c[t]].value_ = q[t]
    /\ \A n \in DOMAIN heap : /\ heap'[n].value_ = heap[n].value_
                              /\ heap'[n].data_ = heap[n].data_
                              /\ heap'[n].content = heap[n].content
    /\ \A n \in Nodes : Kids(n)' = IF n = a THEN Kids(n) \union {c[t]} ELSE Kids(n)

(* What allocateNested built is linked where the scans found the value     *)
(* free: nothing was inserted there since.                                 *)
LEMMA LinkAttaches ==
    ASSUME Core, Reached, Built, Link
    PROVE  \E D, a, t, c : /\ Shape(D)
                           /\ Attached(D, a, t, c, Values(call.key))
                           /\ c[Depth] \in DOMAIN heap
                           /\ heap[c[Depth]].data_ \in DOMAIN heap
                           /\ DatumOf(c[Depth]) = call.datum
<1>1. PICK D \in [Nat -> 0..Depth] : Whole(D)
  BY DEF Core
<1>2. PICK a : a = this
  OBVIOUS
<1>3. PICK b : b = pNode
  OBVIOUS
<1>4. PICK t : t = Top
  OBVIOUS
<1>5. PICK q : q = Values(call.key)
  OBVIOUS
<1>6. pc = "link" /\ i = 0 /\ heap \in Seq(Object) /\ Shape(D) /\ Stands(D) /\ Builds(D)
  BY <1>1 DEF Link, Core, Types, Whole, Builds
<1>7. PICK c \in [0..Depth -> Nodes] : BranchIs(c)
  BY <1>6 DEF Built
<1>8. /\ Depth \in Nat /\ t \in 0..Depth /\ At \in 0..(Depth - 1)
      /\ t = IF a = 0 THEN 0 ELSE At + 1
      /\ a # 0 => Head(key).second = Value_(t)
      /\ \A n \in 1..Depth : Value_(n) = q[n]
  <2>1. /\ Depth \in Nat /\ Top \in 0..Depth
        /\ Top = IF this = 0 THEN 0 ELSE At + 1
        /\ this # 0 => Head(key).second = Value_(Top)
    BY <1>6, ChainFacts DEF Core
  <2>2. At \in 0..(Depth - 1) /\ \A n \in 1..Depth : Value_(n) = Values(call.key)[n]
    BY <1>6, KeyFacts DEF Core
  <2> QED BY <1>2, <1>4, <1>5, <2>1, <2>2
<1>9. Top + i = t
  BY <1>4, <1>6, <1>8
<1>10. /\ b \in Nodes /\ c[t] = b
       /\ t >= 1 => heap[b].value_ = Value_(t)
  BY <1>3, <1>6, <1>7, <1>9 DEF Builds, BranchIs
<1>11. /\ \A n \in t..Depth : D[c[n]] = n
       /\ c[Depth] \in DOMAIN heap /\ heap[c[Depth]].data_ \in DOMAIN heap
  BY <1>6, <1>7, <1>9, BranchFacts
<1>12. \A n \in (t + 1)..Depth : Kids(c[n - 1]) = {c[n]} /\ heap[c[n]].value_ = q[n]
  <2>1. \A n \in (t + 1)..Depth : n \in 1..Depth
    BY <1>8
  <2>2. (Top + i + 1)..Depth = (t + 1)..Depth
    BY <1>9
  <2> QED BY <1>7, <1>8, <2>1, <2>2 DEF BranchIs
<1>13. Nodes \subseteq DOMAIN heap /\ 0 \notin Nodes /\ b \in Nat
  BY <1>6, <1>10, HeapFacts
<1>14. CASE a = 0
  <2>1. node_ = 0 /\ node_' = b /\ heap' = heap /\ t = 0
    BY <1>2, <1>3, <1>6, <1>8, <1>14 DEF Link, Stands
  <2>2. \A n \in Nodes : n # a /\ Kids(n)' = Kids(n)
    BY <1>13, <1>14, <2>1 DEF Kids
  <2>3. Attached(D, a, t, c, q)
    BY <1>7, <1>8, <1>10, <1>11, <1>12, <1>14, <2>1, <2>2 DEF Attached
  <2> QED BY <1>5, <1>6, <1>7, <1>11, <2>3 DEF BranchIs
<1>15. CASE a # 0
  <2>1. node_' = node_ /\ Adoption(a, b)
    BY <1>2, <1>3, <1>15 DEF Link, Adoption
  <2>2. /\ a \in Nodes /\ D[a] = At
        /\ \A k \in Kids(a) : heap[k].value_ # Head(key).second
    BY <1>2, <1>6, <1>15 DEF Stands
  <2>3. t - 1 = At /\ t # 0 /\ t >= 1 /\ t \in 1..Depth
    BY <1>8, <1>15
  <2>4. Head(key).second = q[t] /\ heap[b].value_ = q[t]
    BY <1>8, <1>10, <1>15, <2>3
  <2>5. NodeAt(q)[t - 1] = a
    BY <1>2, <1>5, <1>6, <1>15, <2>3 DEF Reached
  <2>6. /\ \A n \in DOMAIN heap : /\ heap'[n].value_ = heap[n].value_
                                  /\ heap'[n].data_ = heap[n].data_
                                  /\ heap'[n].content = heap[n].content
                                  /\ Kids(n)' = IF n = a THEN Kids(n) \union {b} ELSE Kids(n)
    <3>1. a \in DOMAIN heap
      BY <1>13, <2>2
    <3> QED BY <1>6, <1>13, <2>1, <3>1, AdoptedHeap
  <2>7. Attached(D, a, t, c, q)
    BY <1>7, <1>8, <1>10, <1>11, <1>12, <1>13, <1>15, <2>1, <2>2, <2>3, <2>4, <2>5, <2>6
       DEF Attached
  <2> QED BY <1>5, <1>6, <1>7, <1>11, <2>7 DEF BranchIs
<1> QED BY <1>14, <1>15

(* A reader that comes to the top of the new branch finds in it what its   *)
(* path has in common with that of the insertion.                          *)
LEMMA NewBranch ==
    ASSUME heap \in Seq(Object), heap' \in Seq(Object), NEW E, Shape(E)',
           NEW D, NEW a, NEW t, NEW c, NEW q, Attached(D, a, t, c, q),
           NEW p, NodeAt(p)[t]' = c[t]
    PROVE  \A n \in t..Depth :
               NodeAt(p)[n]' = IF \A j \in (t + 1)..n : p[j] = q[j] THEN c[n] ELSE 0
<1> DEFINE Found(n) == IF \A j \in (t + 1)..n : p[j] = q[j] THEN c[n] ELSE 0
           S == {n \in t..Depth : NodeAt(p)[n]' = Found(n)}
<1>1. /\ Depth \in Nat /\ t \in 0..Depth /\ t \in Nat /\ t \in t..Depth
      /\ (t + 1)..t = {}
  BY SchemaFacts DEF Attached
<1>2. t \in S
  BY <1>1
<1>3. ASSUME NEW n \in t..(Depth - 1), n \in S PROVE n + 1 \in S
  <2>1. /\ n + 1 \in 1..Depth /\ n + 1 \in (t + 1)..Depth /\ (n + 1) - 1 = n
        /\ n + 1 \in t..Depth /\ n \in t..Depth /\ n \in 0..Depth /\ n + 1 \in 0..Depth
        /\ \A j \in (t + 1)..(n + 1) : j \in (t + 1)..n \/ j = n + 1
        /\ \A j \in (t + 1)..n : j \in (t + 1)..(n + 1)
        /\ n + 1 \in (t + 1)..(n + 1)
    BY <1>1
  <2>2. PICK y : y = NodeAt(p)[n]'
    OBVIOUS
  <2>3. PICK z : z = NodeAt(p)[n + 1]'
    OBVIOUS
  <2>4. Descends(p, n + 1, y, z)'
    <3>1. Descends(p, n + 1, NodeAt(p)[n], NodeAt(p)[n + 1])'
      BY <2>1, DescentNext
    <3> QED BY <2>2, <2>3, <3>1 DEF Descends
  <2>5. y = Found(n)
    BY <1>3, <2>2
  <2>6. CASE ~\A j \in (t + 1)..n : p[j] = q[j]
    <3>1. y = 0 /\ Found(n + 1) = 0
      BY <2>1, <2>5, <2>6
    <3>2. z = 0
      BY <2>4, <3>1 DEF Descends
    <3> QED BY <2>1, <2>3, <3>1, <3>2
  <2>7. CASE \A j \in (t + 1)..n : p[j] = q[j]
    <3>1. y = c[n] /\ y \in Nodes /\ c[n + 1] \in Nodes
      BY <2>1, <2>5, <2>7 DEF Attached
    <3>2. Kids(y) = {c[n + 1]} /\ heap[c[n + 1]].value_ = q[n + 1]
      BY <2>1, <3>1 DEF Attached
    <3>3. y # a
      <4>1. D[y] = n
        BY <2>1, <3>1 DEF Attached
      <4>2. a # 0 => D[a] # n
        BY <1>1, <1>3 DEF Attached
      <4> QED BY <3>1, <4>1, <4>2, HeapFacts
    <3>4. y # 0 /\ Kids(y)' = {c[n + 1]} /\ heap'[c[n + 1]].value_ = q[n + 1]
      BY <3>1, <3>2, <3>3, HeapFacts DEF Attached
    <3>5. z = IF p[n + 1] = q[n + 1] THEN c[n + 1] ELSE 0
      BY <2>4, <3>4 DEF Descends
    <3>6. Found(n + 1) = IF p[n + 1] = q[n + 1] THEN c[n + 1] ELSE 0
      BY <2>1, <2>7
    <3> QED BY <2>1, <2>3, <3>5, <3>6
  <2> QED BY <2>6, <2>7
<1> HIDE DEF S
<1>4. t..Depth \subseteq S
  BY <1>1, <1>2, <1>3, Climb
<1> QED BY <1>4 DEF S

(* The path p goes through the place at which the new branch is linked. *)
Through(p, a, t, q) == a = 0 \/ (NodeAt(p)[t - 1] = a /\ p[t] = q[t])

(* Before, a path through the place ends there: the scans found nothing.   *)
(* After, it goes on into the new branch.                                  *)
LEMMA PlaceTaken ==
    ASSUME heap \in Seq(Object), heap' \in Seq(Object), OneParent', NEW E, Shape(E)',
           OneParent, NEW D, Shape(D),
           NEW a, NEW t, NEW c, NEW q, Attached(D, a, t, c, q),
           NEW p, Through(p, a, t, q)
    PROVE  /\ NodeAt(p)[Depth] = 0
           /\ NodeAt(p)[t]' = c[t]
           /\ \A j \in 1..t : p[j] = q[j]
<1>1. Depth \in Nat /\ t \in 0..Depth /\ t \in Nat /\ Depth \in t..Depth /\ 0 \in 0..Depth
  BY SchemaFacts DEF Attached
<1>2. NodeAt(p)[0] = node_ /\ NodeAt(p)[0]' = node_'
  BY Descent, DescentNext
<1>3. CASE a = 0
  <2>1. t = 0 /\ node_ = 0 /\ node_' = c[t]
    BY <1>3 DEF Attached
  <2>2. NodeAt(p)[Depth] = 0
    BY <1>1, <1>2, <2>1, NothingBelow
  <2> QED BY <1>2, <2>1, <2>2
<1>4. CASE a # 0
  <2>1. /\ t # 0 /\ node_' = node_
        /\ a \in Nodes /\ D[a] = t - 1 /\ NodeAt(q)[t - 1] = a
        /\ \A k \in Kids(a) : heap[k].value_ # q[t]
        /\ heap[c[t]].value_ = q[t]
    BY <1>4 DEF Attached
  <2>2. NodeAt(p)[t - 1] = a /\ p[t] = q[t]
    BY <1>4 DEF Through
  <2>3. /\ t \in 1..Depth /\ t - 1 \in 0..Depth /\ t - 1 \in Nat
        /\ \A j \in 1..t : j \in 1..(t - 1) \/ j = t
    BY <1>1, <2>1
  <2>4. \A j \in 1..t : p[j] = q[j]
    <3>1. \A j \in 1..(t - 1) : p[j] = q[j]
      <4>1. \A n \in 0..Depth : NodeAt(p)[n] = NodeAt(q)[n] /\ NodeAt(p)[n] # 0
                                     => \A j \in 1..n : p[j] = q[j]
        BY ONLY heap \in Seq(Object), Shape(D), OneParent, OnePathEach
      <4>2. NodeAt(p)[t - 1] = NodeAt(q)[t - 1] /\ NodeAt(p)[t - 1] # 0
        BY <1>4, <2>1, <2>2
      <4> QED BY <2>3, <4>1, <4>2
    <3> QED BY <2>2, <2>3, <3>1
  <2>5. NodeAt(p)[t] = 0
    <3>1. Descends(p, t, NodeAt(p)[t - 1], NodeAt(p)[t])
      BY <2>3, Descent
    <3> QED BY <1>4, <2>1, <2>2, <3>1 DEF Descends
  <2>6. NodeAt(p)[Depth] = 0
    BY <1>1, <2>5, NothingBelow
  <2>7. NodeAt(p)[t - 1]' = a
    <3>1. \A n \in 0..(t - 1) : NodeAt(p)[n]' = NodeAt(p)[n]
      <4>1. ASSUME NEW n \in 0..((t - 1) - 1), NEW x \in Nodes, NodeAt(p)[n] = x
            PROVE  /\ Kids(x)' = Kids(x)
                   /\ \A k \in Kids(x) : heap'[k].value_ = heap[k].value_
        <5>1. n \in 0..Depth /\ n # t - 1
          BY <1>1, <2>3
        <5>2. D[x] = n
          BY <4>1, <5>1, Descent, HeapFacts
        <5>3. x # a
          BY <2>1, <5>1, <5>2
        <5>4. Kids(x) \subseteq DOMAIN heap
          BY HeapFacts DEF Shape, Level
        <5> QED BY <5>3, <5>4 DEF Attached
      <4>2. t - 1 \in 0..Depth /\ NodeAt(p)[0]' = NodeAt(p)[0]
        BY <1>2, <2>1, <2>3
      <4> QED BY <1>1, <4>1, <4>2, SameDescent
    <3>2. t - 1 \in 0..(t - 1)
      BY <2>3
    <3> QED BY <2>2, <3>1, <3>2
  <2>8. PICK z : z = NodeAt(p)[t]'
    OBVIOUS
  <2>9. Descends(p, t, a, z)'
    <3>1. Descends(p, t, NodeAt(p)[t - 1], NodeAt(p)[t])'
      BY <2>3, DescentNext
    <3> QED BY <2>7, <2>8, <3>1 DEF Descends
  <2>10. c[t] \in Kids(a)' /\ heap'[c[t]].value_ = p[t]
    <3>1. c[t] \in Nodes
      BY <1>1 DEF Attached
    <3> QED BY <2>1, <2>2, <3>1, HeapFacts DEF Attached
  <2>11. z = c[t]
    BY <1>4, <2>9, <2>10 DEF Descends
  <2> QED BY <2>4, <2>6, <2>8, <2>11
<1> QED BY <1>3, <1>4

(* Every other path leads where it led. *)
LEMMA OtherPaths ==
    ASSUME heap \in Seq(Object), heap' \in Seq(Object), OneParent', NEW E, Shape(E)',
           NEW D, Shape(D),
           NEW a, NEW t, NEW c, NEW q, Attached(D, a, t, c, q),
           NEW p, ~Through(p, a, t, q)
    PROVE  NodeAt(p)[Depth]' = NodeAt(p)[Depth]
<1>1. /\ a # 0 /\ t # 0 /\ node_' = node_
      /\ a \in Nodes /\ D[a] = t - 1
      /\ heap[c[t]].value_ = q[t]
  BY DEF Through, Attached
<1>2. /\ Depth \in Nat /\ t \in 1..Depth /\ t - 1 \in 0..Depth /\ t \in 0..Depth
      /\ 0 \in 0..Depth /\ Depth \in t..Depth /\ t \in t..Depth /\ t - 1 \in 0..(t - 1)
  BY <1>1, SchemaFacts DEF Attached
<1>3. NodeAt(p)[0]' = NodeAt(p)[0]
  BY <1>1, Descent, DescentNext
<1>4. ASSUME NEW n \in 0..Depth, n # t - 1, NEW x \in Nodes, NodeAt(p)[n] = x
      PROVE  /\ Kids(x)' = Kids(x)
             /\ \A k \in Kids(x) : heap'[k].value_ = heap[k].value_
  <2>1. D[x] = n
    BY <1>4, Descent, HeapFacts
  <2>2. x # a
    BY <1>1, <1>4, <2>1
  <2>3. Kids(x) \subseteq DOMAIN heap
    BY HeapFacts DEF Shape, Level
  <2> QED BY <2>2, <2>3 DEF Attached
<1>5. NodeAt(p)[t - 1]' = NodeAt(p)[t - 1]
  <2>1. \A n \in 0..((t - 1) - 1) : n \in 0..Depth /\ n # t - 1
    BY <1>2
  <2>2. \A n \in 0..((t - 1) - 1), x \in Nodes : NodeAt(p)[n] = x =>
            /\ Kids(x)' = Kids(x)
            /\ \A k \in Kids(x) : heap'[k].value_ = heap[k].value_
    BY <1>4, <2>1
  <2>3. \A n \in 0..(t - 1) : NodeAt(p)[n]' = NodeAt(p)[n]
    BY <1>2, <1>3, <2>2, SameDescent
  <2> QED BY <1>2, <2>3
<1>6. NodeAt(p)[t]' = NodeAt(p)[t]
  <2>1. PICK x : x = NodeAt(p)[t - 1]
    OBVIOUS
  <2>2. PICK y : y = NodeAt(p)[t]
    OBVIOUS
  <2>3. PICK z : z = NodeAt(p)[t]'
    OBVIOUS
  <2>4. Descends(p, t, x, y)
    BY <1>2, <2>1, <2>2, Descent
  <2>5. Descends(p, t, x, z)'
    <3>1. Descends(p, t, NodeAt(p)[t - 1], NodeAt(p)[t])'
      BY <1>2, DescentNext
    <3> QED BY <1>5, <2>1, <2>3, <3>1 DEF Descends
  <2>6. CASE x = 0
    BY <2>2, <2>3, <2>4, <2>5, <2>6 DEF Descends
  <2>7. CASE x # 0
    <3>1. x \in Nodes /\ Kids(x) \subseteq DOMAIN heap
      <4>1. x \in Nodes
        BY <1>2, <2>1, <2>7, Descent
      <4> QED BY <4>1, HeapFacts DEF Shape, Level
    <3>2. \A k \in Kids(x) : k \in Kids(x)' /\ heap'[k].value_ = heap[k].value_
      BY <3>1 DEF Attached
    <3>3. \A k \in Kids(x)' : k \in Kids(x) \/ heap'[k].value_ # p[t]
      <4>1. CASE x = a
        <5>1. Kids(x)' = Kids(x) \union {c[t]}
          BY <3>1, <4>1 DEF Attached
        <5>2. c[t] \in DOMAIN heap
          BY <1>2, HeapFacts DEF Attached
        <5>3. p[t] # q[t]
          BY <2>1, <4>1 DEF Through
        <5> QED BY <1>1, <5>1, <5>2, <5>3 DEF Attached
      <4>2. CASE x # a
        BY <3>1, <4>2 DEF Attached
      <4> QED BY <4>1, <4>2
    <3>4. y = z
      BY <2>4, <2>5, <2>7, <3>2, <3>3 DEF Descends
    <3> QED BY <2>2, <2>3, <3>4
  <2> QED BY <2>6, <2>7
<1>7. NodeAt(p)[Depth]' = NodeAt(p)[Depth]
  <2>1. \A n \in t..(Depth - 1) : n \in 0..Depth /\ n # t - 1
    BY <1>2
  <2>2. \A n \in t..(Depth - 1), x \in Nodes : NodeAt(p)[n] = x =>
            /\ Kids(x)' = Kids(x)
            /\ \A k \in Kids(x) : heap'[k].value_ = heap[k].value_
    BY <1>4, <2>1
  <2>3. \A n \in t..Depth : NodeAt(p)[n]' = NodeAt(p)[n]
    BY <1>2, <1>6, <2>2, SameDescent
  <2> QED BY <1>2, <2>3
<1> QED BY <1>7

(* The stored datum of the call appears under its key, which was free, and *)
(* nothing else changes for a reader.                                      *)
LEMMA LinkContent ==
    ASSUME Core, Core', Reached, Built, Link
    PROVE  \E q, d : /\ q = Values(call.key) /\ q \in Path /\ d = call.datum
                     /\ q \notin Stored
                     /\ Stored' = Stored \union {q}
                     /\ DatumOf(LeafAt(q))' = d
                     /\ \A p \in Stored : DatumOf(LeafAt(p))' = DatumOf(LeafAt(p))
<1>1. PICK q : q = Values(call.key)
  OBVIOUS
<1>2. PICK D, a, t, c : /\ Shape(D) /\ Attached(D, a, t, c, q)
                        /\ c[Depth] \in DOMAIN heap
                        /\ heap[c[Depth]].data_ \in DOMAIN heap
                        /\ DatumOf(c[Depth]) = call.datum
  BY <1>1, LinkAttaches
<1>3. \E E : Shape(E)'
  BY DEF Core, Whole
<1>4. PICK E : Shape(E)'
  BY <1>3
<1>5. heap \in Seq(Object) /\ heap' \in Seq(Object) /\ OneParent /\ OneParent'
  BY DEF Core, Types, Object
<1>6. pc = "link" /\ call' = call
  BY DEF Link
<1>7. /\ q \in Path /\ q \in [1..Depth -> Value]
  BY <1>1, <1>6 DEF Core, Keys, Path, Depth
<1>8. /\ Depth \in Nat /\ t \in 0..Depth /\ Depth \in t..Depth
      /\ \A j \in 1..Depth : j \in 1..t \/ j \in (t + 1)..Depth
      /\ \A j \in (t + 1)..Depth : j \in 1..Depth
  BY <1>2, SchemaFacts DEF Attached
<1>9. c[Depth] \in Nodes /\ c[Depth] # 0
  BY <1>2, <1>5, <1>8, HeapFacts DEF Attached
<1>10. \A p : LeafAt(p) = NodeAt(p)[Depth] /\ LeafAt(p)' = NodeAt(p)[Depth]'
  BY DEF LeafAt, Depth
<1>11. Through(q, a, t, q)
  BY <1>2 DEF Attached, Through
<1>12. ASSUME NEW p, Through(p, a, t, q)
       PROVE  /\ LeafAt(p) = 0
              /\ LeafAt(p)' = IF \A j \in 1..Depth : p[j] = q[j] THEN c[Depth] ELSE 0
  <2>1. NodeAt(p)[Depth] = 0 /\ NodeAt(p)[t]' = c[t] /\ \A j \in 1..t : p[j] = q[j]
    BY <1>2, <1>4, <1>5, <1>12, PlaceTaken
  <2>2. NodeAt(p)[Depth]' = IF \A j \in (t + 1)..Depth : p[j] = q[j] THEN c[Depth] ELSE 0
    <3>1. \A n \in t..Depth :
              NodeAt(p)[n]' = IF \A j \in (t + 1)..n : p[j] = q[j] THEN c[n] ELSE 0
      BY <1>2, <1>4, <1>5, <2>1, NewBranch
    <3> QED BY <1>8, <3>1
  <2>3. (\A j \in (t + 1)..Depth : p[j] = q[j]) <=> \A j \in 1..Depth : p[j] = q[j]
    BY <1>8, <2>1
  <2> QED BY <1>10, <2>1, <2>2, <2>3
<1>13. ASSUME NEW p, ~Through(p, a, t, q) PROVE LeafAt(p)' = LeafAt(p)
  BY <1>2, <1>4, <1>5, <1>10, <1>13, OtherPaths
<1>14. LeafAt(q) = 0 /\ LeafAt(q)' = c[Depth]
  BY <1>11, <1>12
<1>15. ASSUME NEW p \in Path, p # q PROVE LeafAt(p)' = LeafAt(p)
  <2>1. CASE Through(p, a, t, q)
    <3>1. p \in [1..Depth -> Value]
      BY <1>15 DEF Path, Depth
    <3>2. p = [j \in 1..Depth |-> p[j]] /\ q = [j \in 1..Depth |-> q[j]]
      BY <1>7, <3>1
    <3>3. ~\A j \in 1..Depth : p[j] = q[j]
      BY <1>15, <3>2
    <3> QED BY <1>12, <2>1, <3>3
  <2>2. CASE ~Through(p, a, t, q)
    BY <1>13, <2>2
  <2> QED BY <2>1, <2>2
<1>16. q \notin Stored /\ Stored' = Stored \union {q}
  <2>1. Stored' = {p \in Path : LeafAt(p)' # 0}
    BY DEF Stored, Path
  <2>2. Stored = {p \in Path : LeafAt(p) # 0}
    BY DEF Stored
  <2> QED BY <1>7, <1>9, <1>14, <1>15, <2>1, <2>2
<1>17. \A n \in DOMAIN heap : heap'[n].data_ = heap[n].data_
                              /\ heap'[n].content = heap[n].content
  BY <1>2 DEF Attached
<1>18. DatumOf(LeafAt(q))' = call.datum
  <2>1. heap'[heap'[c[Depth]].data_].content = heap[heap[c[Depth]].data_].content
    BY <1>2, <1>17
  <2> QED BY <1>2, <1>14, <2>1 DEF DatumOf
<1>19. ASSUME NEW p \in Stored PROVE DatumOf(LeafAt(p))' = DatumOf(LeafAt(p))
  <2>1. PICK l : l = LeafAt(p)
    OBVIOUS
  <2>2. l \in DOMAIN heap /\ heap[l].data_ \in DOMAIN heap
    BY <1>2, <1>5, <1>19, <2>1, StoredLeaf DEF Stored
  <2>3. l = LeafAt(p)'
    BY <1>15, <1>16, <1>19, <2>1 DEF Stored
  <2>4. heap'[heap'[l].data_].content = heap[heap[l].data_].content
    BY <1>17, <2>2
  <2> QED BY <2>1, <2>3, <2>4 DEF DatumOf
<1> QED BY <1>1, <1>7, <1>16, <1>18, <1>19

(* What was inserted stays where it was, whatever is inserted next to it.  *)
LEMMA KeptNext ==
    ASSUME MapInv, Core', [Next]_vars
    PROVE  Kept'
<1>1. Core /\ Reached /\ Built /\ Kept
  BY DEF MapInv
<1>2. CASE Link
  <2>1. PICK q, d : /\ q = Values(call.key) /\ d = call.datum
                    /\ Stored' = Stored \union {q}
                    /\ DatumOf(LeafAt(q))' = d
                    /\ \A p \in Stored : DatumOf(LeafAt(p))' = DatumOf(LeafAt(p))
    BY <1>1, <1>2, LinkContent
  <2>2. call' = call /\ acked' = acked
    BY <1>2 DEF Link, history
  <2>3. q = Values(call.key)' /\ d = call'.datum
    BY <2>1, <2>2 DEF Values
  <2>4. \A e \in acked' : e[1] \in Stored' /\ DatumOf(LeafAt(e[1]))' = e[2]
    BY <1>1, <2>1, <2>2 DEF Kept
  <2>5. Values(call.key)' \in Stored' /\ DatumOf(LeafAt(Values(call.key)))' = call'.datum
    <3>1. DatumOf(LeafAt(q))' = DatumOf(LeafAt(Values(call.key)))'
      BY <2>3 DEF DatumOf, LeafAt, NodeAt
    <3> QED BY <2>1, <2>3, <3>1
  <2> QED BY <2>4, <2>5 DEF Kept
<1>3. CASE ~Link
  <2>1. Keeps
    BY <1>1, <1>3, NextKeeps
  <2>2. /\ Stored' = Stored
        /\ \A p \in Stored : DatumOf(LeafAt(p))' = DatumOf(LeafAt(p))
    BY <1>1, <2>1, KeptContent
  <2>3. \A e \in acked : e[1] \in Stored' /\ DatumOf(LeafAt(e[1]))' = e[2]
    BY <1>1, <2>2 DEF Kept
  <2>4. CASE Return
    <3>1. PICK q, d : q = Values(call.key) /\ d = call.datum
      OBVIOUS
    <3>2. q \in Stored' /\ DatumOf(LeafAt(q))' = d
      BY <1>1, <2>2, <2>4, <3>1 DEF Kept, Return
    <3>3. acked' = acked \union {<<q, d>>} /\ pc' = "idle"
      BY <2>4, <3>1 DEF Return, Finish
    <3>4. \A e \in acked' : e[1] \in Stored' /\ DatumOf(LeafAt(e[1]))' = e[2]
      BY <2>3, <3>2, <3>3
    <3> QED BY <3>3, <3>4 DEF Kept
  <2>5. CASE UNCHANGED vars
    <3>1. pc' = pc /\ call' = call /\ acked' = acked
      BY <2>5 DEF vars, history
    <3>2. PICK q : q = Values(call.key)
      OBVIOUS
    <3>3. q = Values(call.key)'
      BY <3>1, <3>2 DEF Values
    <3>4. DatumOf(LeafAt(q))' = DatumOf(LeafAt(Values(call.key)))'
      BY <3>3 DEF DatumOf, LeafAt, NodeAt
    <3> QED BY <1>1, <2>2, <2>3, <3>1, <3>2, <3>3, <3>4 DEF Kept
  <2>6. CASE ~Return /\ ~UNCHANGED vars
    <3>1. acked' = acked /\ pc' # "return"
      <4>1. ASSUME NEW in \in Dict, NEW d \in Datum, AddNode(in, d)
            PROVE  acked' = acked /\ pc' # "return"
        BY <4>1 DEF AddNode, Finish, history
      <4>2. CASE CheckRoot \/ Visit
        BY <4>2 DEF CheckRoot, Visit, Finish, history
      <4>3. CASE AllocateBlob \/ AllocateLeaf \/ AllocateNode \/ PushIntoNew
        BY <4>3 DEF AllocateBlob, AllocateLeaf, AllocateNode, PushIntoNew, history
      <4>4. CASE AllocationFails \/ Restart
        BY <4>4 DEF AllocationFails, Restart, Finish
      <4> QED BY <1>3, <2>6, <4>1, <4>2, <4>3, <4>4 DEF Next, Step
    <3> QED BY <2>3, <3>1 DEF Kept
  <2> QED BY <2>4, <2>5, <2>6
<1> QED BY <1>2, <1>3

-----------------------------------------------------------------------------
(***************************************************************************)
(* The invariant holds in every state, and a datum that was inserted is    *)
(* there ever after.                                                       *)
(***************************************************************************)

(* An empty pool has no branch. *)
LEMMA NothingAtFirst ==
    ASSUME Init
    PROVE  MapInv /\ Stored = {}
<1>1. Core
  BY CoreInit
<1>2. this = 0 /\ pc = "idle" /\ acked = {} /\ node_ = 0
  BY DEF Init
<1>3. Reached /\ Built /\ Kept
  BY <1>2 DEF Reached, Built, Kept
<1>4. PICK D \in [Nat -> 0..Depth] : Whole(D)
  BY <1>1 DEF Core
<1>5. heap \in Seq(Object) /\ Shape(D) /\ 0 \in 0..Depth /\ Depth \in 0..Depth
  BY <1>1, <1>4, SchemaFacts DEF Core, Types, Whole
<1>6. ASSUME NEW p PROVE LeafAt(p) = 0
  <2>1. NodeAt(p)[0] = 0
    BY <1>2, <1>5, Descent
  <2>2. NodeAt(p)[Depth] = 0
    BY <1>5, <2>1, NothingBelow
  <2> QED BY <2>2 DEF LeafAt, Depth
<1>7. Stored = {}
  BY <1>6 DEF Stored
<1> QED BY <1>1, <1>3, <1>7 DEF MapInv

(* What a call knows of the tree stays true while it runs. *)
LEMMA MapNext ==
    ASSUME MapInv, [Next]_vars
    PROVE  MapInv'
<1>1. Core'
  BY CoreNext DEF MapInv
<1> QED BY <1>1, ReachedNext, BuiltNext, KeptNext DEF MapInv

(* In every state the node an addNode stands at is the one on the path of  *)
(* its key, the branch it builds is complete below its last node, and what *)
(* was inserted is where its key leads.                                    *)
THEOREM TreeMapInvariant == Spec => []MapInv
<1>1. Init => MapInv
  BY NothingAtFirst
<1>2. MapInv /\ [Next]_vars => MapInv'
  BY MapNext
<1> QED BY <1>1, <1>2, PTL DEF Spec

(* A datum whose insertion returned is found under its key, unchanged,     *)
(* ever after: insertions beside it, refused ones, allocations that fail   *)
(* and deaths in the middle of a branch do not touch it.                   *)
THEOREM AckedAreKept == Spec => []AckedDataKept
<1>1. ASSUME MapInv PROVE AckedDataKept
  <2>1. \A p \in Stored : Content[p] = DatumOf(LeafAt(p))
    BY DEF Content
  <2> QED BY <1>1, <2>1 DEF MapInv, Kept, AckedDataKept
<1> QED BY <1>1, TreeMapInvariant, PTL

-----------------------------------------------------------------------------
(***************************************************************************)
(* The tree is an insert-only map.                                         *)
(***************************************************************************)

(* A step that the map does not show: the call goes on. *)
LEMMA CallGoesOn ==
    ASSUME Content' = Content, call' = call, reply' = reply,
           pc \notin {"idle", "return"}, pc' \notin {"idle", "return"}
    PROVE  UNCHANGED Abstract!vars
<1>1. AbstractStatus' = AbstractStatus
  BY DEF AbstractStatus
<1>2. AbstractArg' = AbstractArg
  BY DEF AbstractArg, Values
<1>3. AbstractReply' = AbstractReply
  BY DEF AbstractReply
<1> QED BY <1>1, <1>2, <1>3 DEF Abstract!vars

(* Where a call ends, the map sees its answer. *)
LEMMA CallEnds ==
    ASSUME NEW r, Finish(r)
    PROVE  /\ AbstractStatus' = "idle" /\ AbstractArg' = Empty
           /\ r = "none" => AbstractReply' = "none"
           /\ r = "ok" => AbstractReply' = "ok"
           /\ r = "UserError" => AbstractReply' = "refused"
           /\ r = "LeafExistsError" => AbstractReply' = "exists"
           /\ r = "AllocationError" => AbstractReply' = "thrown"
BY DEF Finish, AbstractStatus, AbstractArg, AbstractReply

(* The scan tells that a leaf exists only for a key that is stored.        *)
LEMMA ExistsIsTrue ==
    ASSUME MapInv, Visit, Matches(this, Head(key).second) # {},
           leaf(FirstMatch(this, Head(key).second))
    PROVE  Values(call.key) \in Stored
<1>1. PICK D \in [Nat -> 0..Depth] : Whole(D)
  BY DEF MapInv, Core
<1>2. PICK q : q = Values(call.key)
  OBVIOUS
<1>3. PICK k : k = FirstMatch(this, Head(key).second)
  OBVIOUS
<1>4. PICK m : m = At + 1
  OBVIOUS
<1>5. pc = "visit" /\ Core /\ heap \in Seq(Object) /\ Shape(D) /\ Stands(D)
  BY <1>1 DEF Visit, MapInv, Core, Types, Whole
<1>6. this \in Nodes /\ D[this] = At /\ this # 0 /\ NodeAt(q)[At] = this
  BY <1>2, <1>5 DEF MapInv, Reached, Stands
<1>7. /\ Depth \in Nat /\ m \in 1..Depth /\ m - 1 = At
      /\ Head(key).second = q[m] /\ q \in Path
  <2>1. At \in 0..(Depth - 1) /\ Depth \in Nat /\ Head(key).second = Value_(At + 1)
        /\ \A n \in 1..Depth : Value_(n) = Values(call.key)[n]
    BY <1>5, KeyFacts DEF Core
  <2>2. q \in Path
    BY <1>2, <1>5 DEF Core, Keys
  <2> QED BY <1>2, <1>4, <2>1, <2>2
<1>8. k \in Kids(this) /\ heap[k].data_ # 0
  BY <1>3, <1>5, <1>6, Scan DEF leaf
<1>9. k \in Nodes /\ D[k] = m
  BY <1>4, <1>5, <1>6, <1>8 DEF Shape, Level
<1>10. m = Depth
  <2>1. ~(D[k] < Depth)
    BY <1>5, <1>8, <1>9 DEF Shape, Level
  <2> QED BY <1>7, <1>9, <2>1
<1>11. NodeAt(q)[m] = k
  <2>1. NodeAt(q)[m] = Below(q, m, NodeAt(q)[m - 1])
    BY <1>7, NodeAtDef
  <2> QED BY <1>3, <1>6, <1>7, <2>1 DEF Below
<1>12. LeafAt(q) = k /\ k # 0
  BY <1>5, <1>9, <1>10, <1>11, HeapFacts DEF LeafAt, Depth
<1> QED BY <1>2, <1>7, <1>12 DEF Stored

(* An insertion begins, or is refused at once. *)
LEMMA AddNodeRefines ==
    ASSUME MapInv, MapInv', Depth # 0, Content' = Content,
           NEW in \in Dict, NEW d \in Datum, AddNode(in, d)
    PROVE  Abstract!Next
<1>1. pc = "idle" /\ AbstractStatus = "idle"
  BY DEF AddNode, AbstractStatus
<1>2. CASE ~IsInsertKey(in)
  <2>1. Finish("UserError")
    BY <1>2 DEF AddNode
  <2>2. Abstract!Refuse
    BY <1>1, <2>1, CallEnds DEF Abstract!Refuse, Abstract!End
  <2> QED BY <2>2 DEF Abstract!Next
<1>3. CASE IsInsertKey(in)
  <2>1. Schema # <<>>
    BY DEF Depth
  <2>2. /\ call' = [key |-> processInsertKey(in), datum |-> d] /\ reply' = "none"
        /\ pc' = IF node_ = 0 THEN "blob" ELSE "root"
    BY <1>3, <2>1 DEF AddNode
  <2>3. pc' = "blob" \/ pc' = "root"
    BY <2>2
  <2>4. PICK k : k = Values(call.key)'
    OBVIOUS
  <2>5. k \in Path
    BY <2>3, <2>4 DEF MapInv, Core, Keys, Path, Depth
  <2>6. AbstractStatus' = "pending" /\ AbstractArg' = <<k, d>> /\ AbstractReply' = "none"
    BY <2>2, <2>3, <2>4 DEF AbstractStatus, AbstractArg, AbstractReply
  <2>7. Abstract!Call(k, d)
    BY <1>1, <2>6 DEF Abstract!Call
  <2> QED BY <2>5, <2>7 DEF Abstract!Next
<1> QED BY <1>2, <1>3

(* The descent: it goes on, or it finds the leaf. *)
LEMMA VisitRefines ==
    ASSUME MapInv, Content' = Content, Visit, reply' # "AssertionFailed"
    PROVE  [Abstract!Next]_(Abstract!vars)
<1>1. pc = "visit" /\ AbstractStatus = "pending"
  BY DEF Visit, AbstractStatus
<1>2. ~Finish("AssertionFailed")
  BY DEF Finish
<1>3. CASE Matches(this, Head(key).second) # {} /\ leaf(FirstMatch(this, Head(key).second))
  <2>1. Finish("LeafExistsError")
    BY <1>2, <1>3 DEF Visit
  <2>2. Values(call.key) \in Stored
    BY <1>3, ExistsIsTrue
  <2>3. DOMAIN Content = Stored /\ AbstractArg = <<Values(call.key), call.datum>>
    BY <1>1 DEF Content, AbstractArg
  <2>4. AbstractArg[1] \in DOMAIN Content
    BY <2>2, <2>3
  <2>5. Abstract!Exists
    BY <1>1, <2>1, <2>4, CallEnds DEF Abstract!Exists, Abstract!End
  <2> QED BY <2>5 DEF Abstract!Next
<1>4. CASE ~(Matches(this, Head(key).second) # {}
             /\ leaf(FirstMatch(this, Head(key).second)))
  <2>1. call' = call /\ reply' = reply /\ pc' \in {"visit", "blob"}
    BY <1>1, <1>2, <1>4 DEF Visit
  <2> QED BY <1>1, <2>1, CallGoesOn
<1> QED BY <1>3, <1>4

(* The datum is in the map from the step that links its branch on. *)
LEMMA LinkRefines ==
    ASSUME MapInv, MapInv', Link
    PROVE  Abstract!Next
<1>1. PICK q, d : /\ q = Values(call.key) /\ q \in Path /\ d = call.datum
                  /\ q \notin Stored
                  /\ Stored' = Stored \union {q}
                  /\ DatumOf(LeafAt(q))' = d
                  /\ \A p \in Stored : DatumOf(LeafAt(p))' = DatumOf(LeafAt(p))
  BY LinkContent DEF MapInv
<1>2. pc = "link" /\ pc' = "return" /\ call' = call /\ reply' = reply
  BY DEF Link
<1>3. AbstractArg = <<q, d>> /\ AbstractArg' = <<q, d>>
  BY <1>1, <1>2 DEF AbstractArg, Values
<1>4. /\ AbstractStatus = "pending" /\ AbstractStatus' = "stored"
      /\ AbstractReply' = AbstractReply
  BY <1>2 DEF AbstractStatus, AbstractReply
<1>5. DOMAIN Content = Stored /\ \A p \in Stored : Content[p] = DatumOf(LeafAt(p))
  BY DEF Content
<1>6. Content' = [p \in Stored \union {q} |-> IF p = q THEN d ELSE Content[p]]
  <2>1. Content' = [p \in Stored' |-> DatumOf(LeafAt(p))']
    BY DEF Content
  <2> QED BY <1>1, <1>5, <2>1
<1>7. AbstractArg[1] = q /\ AbstractArg[2] = d
  BY <1>3
<1>8. Abstract!Store
  BY <1>1, <1>3, <1>4, <1>5, <1>6, <1>7 DEF Abstract!Store
<1> QED BY <1>8 DEF Abstract!Next

(* However a call ends, the map sees it end so. *)
LEMMA EndRefines ==
    ASSUME Content' = Content, Return \/ AllocationFails \/ Restart
    PROVE  Abstract!Next
<1>1. CASE Return
  <2>1. AbstractStatus = "stored" /\ Finish("ok")
    BY <1>1 DEF Return, AbstractStatus
  <2>2. Abstract!Return
    BY <2>1, CallEnds DEF Abstract!Return, Abstract!End
  <2> QED BY <2>2 DEF Abstract!Next
<1>2. CASE AllocationFails
  <2>1. AbstractStatus = "pending" /\ Finish("AllocationError")
    BY <1>2 DEF AllocationFails, AbstractStatus
  <2>2. Abstract!Throw
    BY <2>1, CallEnds DEF Abstract!Throw, Abstract!End
  <2> QED BY <2>2 DEF Abstract!Next
<1>3. CASE Restart
  <2>1. Abstract!Restart
    BY <1>3, CallEnds DEF Restart, Abstract!Restart, Abstract!End
  <2> QED BY <2>1 DEF Abstract!Next
<1> QED BY <1>1, <1>2, <1>3

(* Every step of an insertion is a step of the map, or none. *)
LEMMA TreeStepRefines ==
    ASSUME MapInv, [Next]_vars, Depth # 0
    PROVE  [Abstract!Next]_(Abstract!vars)
<1>1. MapInv'
  BY MapNext
<1>2. Core /\ Core'
  BY <1>1 DEF MapInv
<1>3. CASE Link
  BY <1>1, <1>3, LinkRefines
<1>4. CASE ~Link
  <2>1. Content' = Content
    BY <1>2, <1>4, NextKeeps, KeptContent
  <2>2. reply' # "AssertionFailed"
    BY <1>2 DEF Core, Types, Depth
  <2>3. ASSUME NEW in \in Dict, NEW d \in Datum, AddNode(in, d)
        PROVE  Abstract!Next
    BY <1>1, <2>1, <2>3, AddNodeRefines
  <2>4. CASE CheckRoot
    <3>1. ~Finish("AssertionFailed")
      BY <2>2 DEF Finish
    <3> QED BY <2>1, <2>4, <3>1, CallGoesOn DEF CheckRoot
  <2>5. CASE Visit
    BY <2>1, <2>2, <2>5, VisitRefines
  <2>6. CASE AllocateBlob \/ AllocateLeaf \/ AllocateNode \/ PushIntoNew
    <3>1. /\ call' = call /\ reply' = reply
          /\ pc \in {"blob", "leaf", "node", "push"} /\ pc' \in {"leaf", "node", "push", "link"}
      BY <2>6 DEF AllocateBlob, AllocateLeaf, AllocateNode, PushIntoNew
    <3> QED BY <2>1, <3>1, CallGoesOn
  <2>7. CASE Return \/ AllocationFails \/ Restart
    BY <2>1, <2>7, EndRefines
  <2>8. CASE UNCHANGED vars
    <3>1. pc' = pc /\ call' = call /\ reply' = reply
      BY <2>8 DEF vars
    <3>2. /\ AbstractStatus' = AbstractStatus
          /\ AbstractArg' = AbstractArg
          /\ AbstractReply' = AbstractReply
      BY <3>1 DEF AbstractStatus, AbstractArg, AbstractReply, Values
    <3> QED BY <2>1, <3>2 DEF Abstract!vars
  <2> QED BY <1>4, <2>3, <2>4, <2>5, <2>6, <2>7, <2>8 DEF Next, Step
<1> QED BY <1>3, <1>4

(* With a key in the schema, every run of the tree is a run of the         *)
(* insert-only map: a branch of many allocations appears at one step or    *)
(* not at all, an insertion that throws has stored nothing, one that is    *)
(* told that the leaf exists is told the truth, and a death changes        *)
(* nothing that is stored.                                                 *)
THEOREM TreeRefinement ==
    ASSUME Schema # <<>>
    PROVE  Spec => ImplementsInsertOnlyMap
<1>1. Depth # 0
  BY SchemaAssumption, EmptySeq DEF Depth
<1>2. Init => Abstract!Init
  <2>1. SUFFICES ASSUME Init PROVE Abstract!Init
    OBVIOUS
  <2>2. Stored = {}
    BY <2>1, NothingAtFirst
  <2>3. Content = <<>>
    BY <2>2 DEF Content
  <2>4. AbstractStatus = "idle" /\ AbstractArg = Empty /\ AbstractReply = "none"
    BY <2>1 DEF Init, AbstractStatus, AbstractArg, AbstractReply
  <2> QED BY <2>3, <2>4 DEF Abstract!Init
<1>3. MapInv /\ [Next]_vars => [Abstract!Next]_(Abstract!vars)
  BY <1>1, TreeStepRefines
<1> QED BY <1>2, <1>3, TreeMapInvariant, PTL
        DEF Spec, Abstract!Spec, ImplementsInsertOnlyMap

-----------------------------------------------------------------------------
(***************************************************************************)
(* What can be reached from the root, level by level.                      *)
(***************************************************************************)

SuccessorsIn(h, n) == {h[n].items_[j] : j \in DOMAIN h[n].items_}
                          \union (IF h[n].data_ # 0 THEN {h[n].data_} ELSE {})
LevelsOf(h, r) ==
    CHOOSE f : f = [n \in 0..(Depth + 1) |->
                        IF n = 0 THEN {r} \ {0} ELSE UNION {SuccessorsIn(h, o) : o \in f[n - 1]}]

(* Reachable is made of them, before and after a step. *)
LEMMA ReachableIs ==
    /\ Reachable = UNION {LevelsOf(heap, node_)[n] : n \in 0..(Depth + 1)}
    /\ Reachable' = UNION {LevelsOf(heap', node_')[n] : n \in 0..(Depth + 1)}
BY DEF Reachable, LevelsOf, SuccessorsIn, Successors, leaf, Depth

(* The levels are what their recursive definition says. *)
LEMMA LevelsAre ==
    ASSUME NEW h, NEW r
    PROVE  /\ LevelsOf(h, r)[0] = {r} \ {0}
           /\ \A n \in 1..(Depth + 1) :
                 LevelsOf(h, r)[n] = UNION {SuccessorsIn(h, o) : o \in LevelsOf(h, r)[n - 1]}
<1>1. Depth \in Nat /\ Depth + 1 \in Nat
  BY SchemaFacts
<1> DEFINE Root == {r} \ {0}
           Under(T) == UNION {SuccessorsIn(h, o) : o \in T}
           Is(f, m) == f = [n \in 0..m |-> IF n = 0 THEN Root ELSE Under(f[n - 1])]
           S == {m \in Nat : \E f : Is(f, m)}
<1> HIDE DEF Root, Under
<1>2. 0 \in S
  <2>1. PICK f : f = [n \in 0..0 |-> Root]
    OBVIOUS
  <2>2. f = [n \in 0..0 |-> IF n = 0 THEN Root ELSE Under(f[n - 1])]
    BY <2>1
  <2> QED BY <2>2
<1>3. ASSUME NEW m \in Nat, m \in S PROVE m + 1 \in S
  <2>1. PICK f : f = [n \in 0..m |-> IF n = 0 THEN Root ELSE Under(f[n - 1])]
    BY <1>3
  <2>2. PICK g : g = [n \in 0..(m + 1) |-> IF n = 0 THEN Root ELSE Under(f[n - 1])]
    OBVIOUS
  <2>3. \A n \in 0..m : g[n] = f[n]
    BY <2>1, <2>2
  <2>4. \A n \in 0..(m + 1) : n # 0 => n - 1 \in 0..m
    OBVIOUS
  <2>5. g = [n \in 0..(m + 1) |-> IF n = 0 THEN Root ELSE Under(g[n - 1])]
    BY <2>2, <2>3, <2>4
  <2>6. m + 1 \in Nat
    OBVIOUS
  <2> QED BY <2>5, <2>6
<1> HIDE DEF S
<1>4. 0..(Depth + 1) \subseteq S
  BY <1>1, <1>2, <1>3, Climb
<1>5. \E f : Is(f, Depth + 1)
  <2>1. Depth + 1 \in S
    BY <1>1, <1>4
  <2> QED BY <2>1 DEF S
<1>6. LevelsOf(h, r) = CHOOSE f : Is(f, Depth + 1)
  BY DEF LevelsOf, Root, Under
<1>7. Is(LevelsOf(h, r), Depth + 1)
  BY <1>5, <1>6
<1>8. LevelsOf(h, r) = [n \in 0..(Depth + 1) |-> IF n = 0 THEN Root
                                                 ELSE Under(LevelsOf(h, r)[n - 1])]
  BY <1>7
<1>9. 0 \in 0..(Depth + 1) /\ \A n \in 1..(Depth + 1) : n \in 0..(Depth + 1) /\ n # 0
  BY <1>1
<1> HIDE DEF Is
<1>10. \A n \in 1..(Depth + 1) : LevelsOf(h, r)[n] = Under(LevelsOf(h, r)[n - 1])
  BY <1>8, <1>9
<1> QED BY <1>8, <1>9, <1>10 DEF Root, Under

(* What an object leads to is one level below it. *)
LEMMA OneLevelDown ==
    ASSUME NEW h, NEW r, NEW n \in 0..Depth, NEW o \in LevelsOf(h, r)[n]
    PROVE  SuccessorsIn(h, o) \subseteq LevelsOf(h, r)[n + 1]
<1>1. n + 1 \in 1..(Depth + 1) /\ (n + 1) - 1 = n
  BY SchemaFacts
<1>2. LevelsOf(h, r)[n + 1] = UNION {SuccessorsIn(h, x) : x \in LevelsOf(h, r)[n]}
  BY <1>1, LevelsAre
<1> QED BY <1>2

(* The root and the objects of S lead into S, and go on leading to the     *)
(* same when h and r become h2 and r2.                                     *)
LeadsOn(h, r, h2, r2, S) ==
    /\ r # 0 => r \in S /\ r2 = r
    /\ \A o \in S : /\ SuccessorsIn(h, o) \subseteq S
                    /\ SuccessorsIn(h, o) \subseteq SuccessorsIn(h2, o)

(* Then the levels go on having what they had. *)
LEMMA LevelsKept ==
    ASSUME NEW h, NEW r, NEW h2, NEW r2, NEW S, LeadsOn(h, r, h2, r2, S)
    PROVE  \A n \in 0..(Depth + 1) :
              LevelsOf(h, r)[n] \subseteq S /\ LevelsOf(h, r)[n] \subseteq LevelsOf(h2, r2)[n]
<1> DEFINE L == LevelsOf(h, r)
           M == LevelsOf(h2, r2)
           T == {n \in 0..(Depth + 1) : L[n] \subseteq S /\ L[n] \subseteq M[n]}
<1>1. Depth \in Nat /\ Depth + 1 \in Nat /\ 0 \in 0..(Depth + 1)
  BY SchemaFacts
<1>2. /\ L[0] = {r} \ {0} /\ M[0] = {r2} \ {0}
      /\ \A n \in 1..(Depth + 1) : /\ L[n] = UNION {SuccessorsIn(h, o) : o \in L[n - 1]}
                                   /\ M[n] = UNION {SuccessorsIn(h2, o) : o \in M[n - 1]}
  BY LevelsAre
<1>0. /\ r # 0 => r \in S /\ r2 = r
      /\ \A o \in S : /\ SuccessorsIn(h, o) \subseteq S
                      /\ SuccessorsIn(h, o) \subseteq SuccessorsIn(h2, o)
  BY DEF LeadsOn
<1> HIDE DEF L, M
<1>3. 0 \in T
  BY <1>0, <1>1, <1>2
<1>4. ASSUME NEW n \in 0..((Depth + 1) - 1), n \in T PROVE n + 1 \in T
  <2>1. n + 1 \in 1..(Depth + 1) /\ (n + 1) - 1 = n /\ n + 1 \in 0..(Depth + 1)
    BY <1>1
  <2>2. L[n] \subseteq S /\ L[n] \subseteq M[n]
    BY <1>4
  <2>3. /\ L[n + 1] = UNION {SuccessorsIn(h, o) : o \in L[n]}
        /\ M[n + 1] = UNION {SuccessorsIn(h2, o) : o \in M[n]}
    BY <1>2, <2>1
  <2>4. L[n + 1] \subseteq S /\ L[n + 1] \subseteq M[n + 1]
    BY <1>0, <2>2, <2>3
  <2> QED BY <2>1, <2>4
<1> HIDE DEF T
<1>5. 0..(Depth + 1) \subseteq T
  BY <1>1, <1>3, <1>4, Climb
<1>6. \A n \in 0..(Depth + 1) : L[n] \subseteq S /\ L[n] \subseteq M[n]
  BY <1>5 DEF T
<1> QED BY <1>6 DEF L, M

(* What an object of the pool leads to is in the pool. *)
LEMMA PoolIsClosed ==
    ASSUME Core
    PROVE  /\ node_ # 0 => node_ \in DOMAIN heap
           /\ \A o \in DOMAIN heap : SuccessorsIn(heap, o) \subseteq DOMAIN heap
<1>1. PICK D : Shape(D)
  BY DEF Core, Whole
<1>2. heap \in Seq(Object)
  BY DEF Core, Types
<1>3. Nodes \subseteq DOMAIN heap
  BY <1>2, HeapFacts
<1>4. ASSUME NEW o \in DOMAIN heap PROVE SuccessorsIn(heap, o) \subseteq DOMAIN heap
  <2>1. SuccessorsIn(heap, o) = Kids(o) \union (IF heap[o].data_ # 0 THEN {heap[o].data_} ELSE {})
    BY DEF SuccessorsIn, Kids
  <2>2. CASE o \in Nodes
    <3>1. Level(D, o)
      BY <1>1, <2>2 DEF Shape
    <3>2. Kids(o) \subseteq DOMAIN heap
      BY <1>3, <3>1 DEF Level
    <3>3. heap[o].data_ # 0 => heap[o].data_ \in DOMAIN heap
      <4>1. D[o] \in 0..Depth \/ o \notin Nat
        BY <1>1 DEF Shape
      <4>2. o \in Nat
        BY <1>2, HeapFacts
      <4>3. D[o] < Depth \/ D[o] >= Depth
        BY <4>1, <4>2, SchemaFacts
      <4> QED BY <3>1, <4>3 DEF Level
    <3> QED BY <2>1, <3>2, <3>3
  <2>3. CASE o \notin Nodes
    <3>1. heap[o].items_ = <<>> /\ heap[o].data_ = 0
      BY <1>1, <2>3 DEF Shape
    <3> QED BY <2>1, <3>1 DEF Kids
  <2> QED BY <2>2, <2>3
<1> QED BY <1>1, <1>3, <1>4 DEF Shape

(* The node on a path is on its level. *)
LEMMA PathIsReached ==
    ASSUME heap \in Seq(Object), NEW D, Shape(D), NEW p, NEW n \in 0..Depth, NodeAt(p)[n] # 0
    PROVE  NodeAt(p)[n] \in LevelsOf(heap, node_)[n]
<1> DEFINE S == {m \in 0..Depth : NodeAt(p)[m] # 0 => NodeAt(p)[m] \in LevelsOf(heap, node_)[m]}
<1>1. Depth \in Nat /\ 0 \in 0..Depth
  BY SchemaFacts
<1>2. 0 \in S
  BY <1>1, Descent, LevelsAre
<1>3. ASSUME NEW m \in 0..(Depth - 1), m \in S PROVE m + 1 \in S
  <2>1. m + 1 \in 1..Depth /\ (m + 1) - 1 = m /\ m + 1 \in 0..Depth /\ m \in 0..Depth
    BY <1>1
  <2>2. PICK x : x = NodeAt(p)[m]
    OBVIOUS
  <2>3. PICK y : y = NodeAt(p)[m + 1]
    OBVIOUS
  <2>4. Descends(p, m + 1, x, y)
    BY <2>1, <2>2, <2>3, Descent
  <2>5. SUFFICES ASSUME y # 0 PROVE y \in LevelsOf(heap, node_)[m + 1]
    BY <2>1, <2>3
  <2>6. x # 0 /\ y \in Kids(x)
    BY <2>4, <2>5 DEF Descends
  <2>7. x \in LevelsOf(heap, node_)[m]
    BY <1>3, <2>2, <2>6
  <2>8. y \in SuccessorsIn(heap, x)
    BY <2>6 DEF Kids, SuccessorsIn
  <2> QED BY <2>1, <2>7, <2>8, OneLevelDown
<1> HIDE DEF S
<1>4. 0..Depth \subseteq S
  BY <1>1, <1>2, <1>3, Climb
<1> QED BY <1>4 DEF S

(* No step takes away what an object leads to, nor the root.               *)
LEMMA SuccessorsKept ==
    ASSUME Core, [Next]_vars
    PROVE  /\ node_ # 0 => node_' = node_
           /\ \A o \in DOMAIN heap : SuccessorsIn(heap, o) \subseteq SuccessorsIn(heap', o)
           /\ Len(heap) \in Nat /\ Len(heap') \in Nat /\ Len(heap) <= Len(heap')
<1>1. heap \in Seq(Object) /\ Len(heap) \in Nat
  BY HeapFacts DEF Core, Types
<1>2. PICK D : Shape(D) /\ Stands(D) /\ Builds(D)
  BY DEF Core, Whole
<1>3. CASE UNCHANGED pool
  BY <1>1, <1>3 DEF pool
<1>4. ASSUME NEW o \in Object, heap' = Append(heap, o), node_' = node_
      PROVE  /\ \A n \in DOMAIN heap : SuccessorsIn(heap, n) \subseteq SuccessorsIn(heap', n)
             /\ Len(heap') \in Nat /\ Len(heap) <= Len(heap')
  <2>1. Len(heap') = Len(heap) + 1 /\ \A n \in DOMAIN heap : heap'[n] = heap[n]
    BY <1>1, <1>4, GrownHeap
  <2>2. \A n \in DOMAIN heap : SuccessorsIn(heap, n) \subseteq SuccessorsIn(heap', n)
    BY <2>1 DEF SuccessorsIn
  <2> QED BY <1>1, <2>1, <2>2
<1>5. CASE AllocateBlob \/ AllocateLeaf \/ AllocateNode
  <2>1. PICK o \in Object : heap' = Append(heap, o)
    BY <1>5, AllocatedObjects DEF AllocateBlob, AllocateLeaf, AllocateNode
  <2>2. node_' = node_
    BY <1>5 DEF AllocateBlob, AllocateLeaf, AllocateNode
  <2> QED BY <1>1, <1>4, <2>1, <2>2
<1>6. ASSUME NEW a \in Nodes, NEW b \in Nodes, Adoption(a, b)
      PROVE  /\ \A n \in DOMAIN heap : SuccessorsIn(heap, n) \subseteq SuccessorsIn(heap', n)
             /\ Len(heap') \in Nat /\ Len(heap) <= Len(heap')
  <2>1. a \in DOMAIN heap /\ b \in Nat
    BY <1>1, HeapFacts
  <2>2. /\ Len(heap') = Len(heap)
        /\ \A m \in DOMAIN heap : /\ heap'[m].data_ = heap[m].data_
                                  /\ Kids(m)' = IF m = a THEN Kids(m) \union {b} ELSE Kids(m)
    BY <1>1, <1>6, <2>1, AdoptedHeap
  <2>3. ASSUME NEW m \in DOMAIN heap
        PROVE  SuccessorsIn(heap, m) \subseteq SuccessorsIn(heap', m)
    <3>1. SuccessorsIn(heap, m)
              = Kids(m) \union (IF heap[m].data_ # 0 THEN {heap[m].data_} ELSE {})
      BY DEF SuccessorsIn, Kids
    <3>2. SuccessorsIn(heap', m)
              = Kids(m)' \union (IF heap'[m].data_ # 0 THEN {heap'[m].data_} ELSE {})
      BY DEF SuccessorsIn, Kids
    <3> QED BY <2>2, <3>1, <3>2
  <2> QED BY <1>1, <2>2, <2>3
<1>7. CASE PushIntoNew
  <2>1. PICK a : a = pNewNode
    OBVIOUS
  <2>2. PICK b : b = pNode
    OBVIOUS
  <2>3. a \in Nodes /\ b \in Nodes
    BY <1>2, <1>7, <2>1, <2>2 DEF PushIntoNew, Builds
  <2>4. Adoption(a, b) /\ node_' = node_
    BY <1>7, <2>1, <2>2 DEF PushIntoNew, Adoption
  <2> QED BY <1>1, <1>6, <2>3, <2>4
<1>8. CASE Link /\ this # 0
  <2>1. PICK a : a = this
    OBVIOUS
  <2>2. PICK b : b = pNode
    OBVIOUS
  <2>3. a \in Nodes /\ b \in Nodes
    BY <1>2, <1>8, <2>1, <2>2 DEF Link, Builds, Stands
  <2>4. Adoption(a, b) /\ node_' = node_
    BY <1>8, <2>1, <2>2 DEF Link, Adoption
  <2> QED BY <1>1, <1>6, <2>3, <2>4
<1>9. CASE Link /\ this = 0
  <2>1. node_ = 0 /\ heap' = heap
    BY <1>2, <1>9 DEF Link, Stands
  <2> QED BY <1>1, <2>1
<1>10. \/ UNCHANGED pool \/ AllocateBlob \/ AllocateLeaf \/ AllocateNode \/ PushIntoNew \/ Link
  BY DEF Next, Step, AddNode, CheckRoot, Visit, Return, AllocationFails, Restart, vars
<1> QED BY <1>1, <1>3, <1>5, <1>7, <1>8, <1>9, <1>10

(* So what was reachable stays reachable, at its level. *)
LEMMA StaysReachable ==
    ASSUME Core, [Next]_vars
    PROVE  /\ \A n \in 0..(Depth + 1) :
                 LevelsOf(heap, node_)[n] \subseteq LevelsOf(heap', node_')[n]
           /\ Reachable \subseteq Reachable'
<1>1. \A n \in 0..(Depth + 1) : LevelsOf(heap, node_)[n] \subseteq LevelsOf(heap', node_')[n]
  <2>1. PICK S : S = DOMAIN heap
    OBVIOUS
  <2>2. PICK h : h = heap
    OBVIOUS
  <2>3. PICK r : r = node_
    OBVIOUS
  <2>4. PICK h2 : h2 = heap'
    OBVIOUS
  <2>5. PICK r2 : r2 = node_'
    OBVIOUS
  <2>6. LeadsOn(h, r, h2, r2, S)
    BY <2>1, <2>2, <2>3, <2>4, <2>5, PoolIsClosed, SuccessorsKept DEF LeadsOn
  <2>7. \A n \in 0..(Depth + 1) : LevelsOf(h, r)[n] \subseteq LevelsOf(h2, r2)[n]
    BY <2>6, LevelsKept
  <2> QED BY <2>2, <2>3, <2>4, <2>5, <2>7
<1> QED BY <1>1, ReachableIs

-----------------------------------------------------------------------------
(***************************************************************************)
(* What allocateNested leaves behind.                                      *)
(***************************************************************************)

(* The objects that the call being executed has allocated are the last of  *)
(* the heap: the buffer, the leaf, and a node above the other.             *)
Made == IF pc = "leaf" THEN 1
        ELSE IF pc \in {"node", "link"} THEN 2 + (Len(Chain) - i)
        ELSE IF pc = "push" THEN 3 + (Len(Chain) - i)
        ELSE 0
Before == Len(heap) - Made

LaidOut ==
    /\ Made <= Len(heap)
    /\ pc \notin {"leaf", "node", "push", "link", "return"} => pNode = 0
    /\ pc = "leaf" => pNode = Before + 1
    /\ pc \in {"node", "push", "link"} =>
          /\ pNode = Before + 2 + (Len(Chain) - i)
          /\ heap[Before + 2].data_ = Before + 1
          /\ \A n \in 1..(Len(Chain) - i) : heap[Before + 2 + n].items_ = <<Before + 1 + n>>
    /\ pc = "push" => pNewNode = Len(heap)

(* What earlier calls left. *)
Left == Unreachable \intersect 1..Before
FewLeft == Cardinality(Left) <= (Depth + 2) * failed

(* A call makes at most two objects more than the schema has keys.         *)
LEMMA MadeFacts ==
    ASSUME Core
    PROVE  /\ Depth \in Nat /\ Len(heap) \in Nat
           /\ Made \in 0..(Depth + 2)
           /\ pc \in {"node", "push", "link"} => Len(Chain) \in 0..Depth /\ i \in 0..Len(Chain)
           /\ pc \in {"node", "push"} => i \in 1..Len(Chain)
           /\ pc = "link" => i = 0
<1>1. Depth \in Nat /\ Len(heap) \in Nat
  BY SchemaFacts, HeapFacts DEF Core, Types
<1>2. PICK D : Builds(D)
  BY DEF Core, Whole
<1>3. pc \in {"node", "push", "link"} => Len(Chain) \in 0..Depth
  BY ChainFacts DEF Core
<1>4. i \in 0..Depth
  BY DEF Core, Types
<1>5. pc \in {"node", "push", "link"} => i <= Len(Chain)
  BY <1>2 DEF Builds
<1>6. (pc \in {"node", "push"} => i # 0) /\ (pc = "link" => i = 0)
  BY <1>2 DEF Builds
<1>7. pc \in {"node", "push", "link"} => Len(Chain) \in 0..Depth /\ i \in 0..Len(Chain)
  BY <1>1, <1>3, <1>4, <1>5
<1>8. pc \in {"node", "push"} => i \in 1..Len(Chain)
  BY <1>6, <1>7
<1>9. Made \in 0..(Depth + 2)
  BY <1>1, <1>7, <1>8 DEF Made
<1> QED BY <1>1, <1>6, <1>7, <1>8, <1>9

(* The buffer is the last object of the heap. *)
LEMMA BlobLaidOut ==
    ASSUME Core, LaidOut, AllocateBlob
    PROVE  LaidOut' /\ Before' = Before
<1>1. PICK o \in Object : heap' = Append(heap, o)
  BY AllocatedObjects DEF AllocateBlob
<1>2. pc = "blob" /\ pc' = "leaf" /\ pNode' = Len(heap')
  BY DEF AllocateBlob
<1>3. Len(heap') = Len(heap) + 1 /\ Len(heap) \in Nat
  BY <1>1, GrownHeap, MadeFacts DEF Core, Types
<1>4. Made = 0 /\ Made' = 1
  BY <1>2 DEF Made
<1>5. Before = Len(heap) /\ Before' = Len(heap)
  BY <1>3, <1>4 DEF Before
<1> QED BY <1>2, <1>3, <1>4, <1>5 DEF LaidOut

(* The leaf follows its buffer. *)
LEMMA LeafLaidOut ==
    ASSUME Core, LaidOut, AllocateLeaf
    PROVE  LaidOut' /\ Before' = Before
<1>1. PICK o \in Object : o = Node(Empty, LeafValue, pNode, <<>>)
  BY AllocatedObjects
<1>2. /\ pc = "leaf" /\ pc' \in {"node", "link"} /\ pNode' = Len(heap')
      /\ i' = Len(Chain) /\ heap' = Append(heap, o)
  BY <1>1 DEF AllocateLeaf
<1>3. Len(heap') = Len(heap) + 1 /\ heap'[Len(heap) + 1] = o /\ Len(heap) \in Nat
  BY <1>2, GrownHeap, MadeFacts DEF Core, Types
<1>4. Chain' = Chain /\ Len(Chain) \in Nat
  <2>1. Chain' = Chain
    BY <1>2, StillKeys DEF AllocateLeaf, Core
  <2>2. Len(Chain) \in 0..Depth /\ Depth \in Nat
    BY <1>2, ChainFacts DEF Core
  <2> QED BY <2>1, <2>2
<1>5. Len(Chain') - i' = 0
  BY <1>2, <1>4
<1>6. Made = 1 /\ Made' = 2
  BY <1>2, <1>4, <1>5 DEF Made
<1>7. Before = Len(heap) - 1 /\ Before' = Before /\ Before + 2 = Len(heap) + 1
  BY <1>3, <1>6 DEF Before
<1>8. pNode = Before + 1 /\ o.data_ = pNode
  BY <1>1, <1>2 DEF LaidOut, Node
<1>9. Made' <= Len(heap')
  <2>1. 1 <= Len(heap)
    BY <1>6 DEF LaidOut
  <2> QED BY <1>3, <1>6, <2>1
<1>10. pNode' = Before' + 2 + (Len(Chain') - i')
  BY <1>2, <1>3, <1>5, <1>7
<1>11. heap'[Before' + 2].data_ = Before' + 1
  BY <1>3, <1>7, <1>8
<1>12. \A n \in 1..(Len(Chain') - i') : heap'[Before' + 2 + n].items_ = <<Before' + 1 + n>>
  BY <1>5
<1>13. LaidOut'
  BY <1>2, <1>9, <1>10, <1>11, <1>12 DEF LaidOut
<1> QED BY <1>7, <1>13

(* The next node follows the last one. *)
LEMMA NodeLaidOut ==
    ASSUME Core, LaidOut, AllocateNode
    PROVE  LaidOut' /\ Before' = Before
<1>1. PICK o \in Object : heap' = Append(heap, o)
  BY AllocatedObjects DEF AllocateNode
<1>2. /\ pc = "node" /\ pc' = "push" /\ pNode' = pNode /\ pNewNode' = Len(heap') /\ i' = i
  BY DEF AllocateNode
<1>3. /\ Len(heap') = Len(heap) + 1 /\ Len(heap) \in Nat
      /\ \A n \in 1..Len(heap) : heap'[n] = heap[n]
  BY <1>1, GrownHeap, HeapFacts, MadeFacts DEF Core, Types
<1>4. Chain' = Chain
  BY <1>2, StillKeys DEF AllocateNode, Core
<1>5. PICK c : c = Len(Chain) - i
  OBVIOUS
<1>6. c \in Nat /\ Len(Chain') - i' = c
  BY <1>2, <1>4, <1>5, MadeFacts
<1>7. Made = 2 + c /\ Made' = 3 + c
  BY <1>2, <1>5, <1>6 DEF Made
<1>8. Before = Len(heap) - (2 + c) /\ Before' = Before /\ 2 + c <= Len(heap)
  BY <1>3, <1>6, <1>7 DEF Before, LaidOut
<1>9. /\ pNode = Before + 2 + c /\ heap[Before + 2].data_ = Before + 1
      /\ \A n \in 1..c : heap[Before + 2 + n].items_ = <<Before + 1 + n>>
  BY <1>2, <1>5 DEF LaidOut
<1>10. Before + 2 \in 1..Len(heap) /\ \A n \in 1..c : Before + 2 + n \in 1..Len(heap)
  BY <1>3, <1>6, <1>8
<1>11. Made' <= Len(heap')
  BY <1>3, <1>6, <1>7, <1>8
<1>12. /\ heap'[Before' + 2].data_ = Before' + 1
       /\ \A n \in 1..c : heap'[Before' + 2 + n].items_ = <<Before' + 1 + n>>
  BY <1>3, <1>8, <1>9, <1>10
<1>13. pNode' = Before' + 2 + c
  BY <1>2, <1>8, <1>9
<1>14. LaidOut'
  BY <1>2, <1>6, <1>11, <1>12, <1>13 DEF LaidOut
<1> QED BY <1>8, <1>14

(* push_back_elem puts the node below it into the new one. *)
LEMMA PushLaidOut ==
    ASSUME Core, LaidOut, PushIntoNew
    PROVE  LaidOut' /\ Before' = Before
<1>1. PICK D : Builds(D)
  BY DEF Core, Whole
<1>2. PICK a : a = pNewNode
  OBVIOUS
<1>3. PICK b : b = pNode
  OBVIOUS
<1>4. /\ pc = "push" /\ pc' \in {"node", "link"} /\ pNode' = a /\ i' = i - 1
      /\ Adoption(a, b)
  BY <1>2, <1>3 DEF PushIntoNew, Adoption
<1>5. heap \in Seq(Object) /\ Len(heap) \in Nat /\ DOMAIN heap = 1..Len(heap)
  BY HeapFacts DEF Core, Types
<1>6. a \in DOMAIN heap /\ b \in Nat /\ heap[a].items_ = <<>>
  BY <1>1, <1>2, <1>3, <1>4, <1>5, HeapFacts DEF Builds
<1>7. /\ Len(heap') = Len(heap)
      /\ \A m \in DOMAIN heap : /\ m # a => heap'[m] = heap[m]
                                /\ heap'[m].data_ = heap[m].data_
      /\ heap'[a].items_ = <<b>>
  <2>1. heap'[a].items_ = Append(<<>>, b)
    BY <1>4, <1>5, <1>6, AdoptedHeap
  <2>2. Append(<<>>, b) = <<b>>
    OBVIOUS
  <2> QED BY <1>4, <1>5, <1>6, <2>1, <2>2, AdoptedHeap
<1>8. Chain' = Chain
  BY <1>4, StillKeys DEF PushIntoNew, Core
<1>9. PICK c : c = Len(Chain) - i
  OBVIOUS
<1>10. c \in Nat /\ Len(Chain') - i' = c + 1
  <2>1. i \in 1..Len(Chain) /\ Len(Chain) \in Nat
    BY <1>4, MadeFacts
  <2>2. Len(Chain) - (i - 1) = (Len(Chain) - i) + 1
    BY <2>1
  <2> QED BY <1>4, <1>8, <1>9, <2>1, <2>2
<1>11. Made = 3 + c /\ Made' = 2 + (c + 1)
  BY <1>4, <1>9, <1>10 DEF Made
<1>12. Before = Len(heap) - (3 + c) /\ Before' = Before /\ 3 + c <= Len(heap)
  BY <1>5, <1>7, <1>10, <1>11 DEF Before, LaidOut
<1>13. /\ b = Before + 2 + c /\ a = Len(heap) /\ heap[Before + 2].data_ = Before + 1
       /\ \A n \in 1..c : heap[Before + 2 + n].items_ = <<Before + 1 + n>>
  BY <1>2, <1>3, <1>4, <1>9 DEF LaidOut
<1>14. /\ Before + 2 \in 1..Len(heap) /\ a = Before + 2 + (c + 1) /\ b = Before + 1 + (c + 1)
       /\ \A n \in 1..c : Before + 2 + n \in 1..Len(heap) /\ Before + 2 + n # a
       /\ \A n \in 1..(c + 1) : n \in 1..c \/ n = c + 1
  <2>1. PICK l : l = Len(heap)
    OBVIOUS
  <2>2. PICK z : z = Before
    OBVIOUS
  <2>3. l \in Nat /\ z = l - (3 + c) /\ 3 + c <= l /\ b = z + 2 + c /\ a = l
    BY <1>5, <1>12, <1>13, <2>1, <2>2
  <2>4. z + 2 \in 1..l /\ a = z + 2 + (c + 1) /\ b = z + 1 + (c + 1)
    BY <1>10, <2>3
  <2>5. \A n \in 1..c : z + 2 + n \in 1..l /\ z + 2 + n # a
    BY <1>10, <2>3
  <2>6. \A n \in 1..(c + 1) : n \in 1..c \/ n = c + 1
    BY <1>10
  <2> QED BY <2>1, <2>2, <2>4, <2>5, <2>6
<1>15. Made' <= Len(heap')
  BY <1>7, <1>10, <1>11, <1>12
<1>16. heap'[Before' + 2].data_ = Before' + 1
  BY <1>5, <1>7, <1>12, <1>13, <1>14
<1>17. \A n \in 1..(c + 1) : heap'[Before' + 2 + n].items_ = <<Before' + 1 + n>>
  <2>1. \A n \in 1..c : heap'[Before + 2 + n].items_ = <<Before + 1 + n>>
    BY <1>5, <1>7, <1>13, <1>14
  <2>2. heap'[Before + 2 + (c + 1)].items_ = <<Before + 1 + (c + 1)>>
    BY <1>7, <1>14
  <2> QED BY <1>12, <1>14, <2>1, <2>2
<1>18. pNode' = Before' + 2 + (c + 1)
  BY <1>4, <1>12, <1>14
<1>19. LaidOut'
  BY <1>4, <1>10, <1>15, <1>16, <1>17, <1>18 DEF LaidOut
<1> QED BY <1>12, <1>19

(* Every step keeps the objects of the call in place.                      *)
LEMMA LaidOutNext ==
    ASSUME Core, LaidOut, [Next]_vars
    PROVE  LaidOut'
<1>1. CASE AllocateBlob \/ AllocateLeaf \/ AllocateNode \/ PushIntoNew
  BY <1>1, BlobLaidOut, LeafLaidOut, NodeLaidOut, PushLaidOut
<1>2. Len(heap') \in Nat
  BY SuccessorsKept
<1>3. ASSUME pc' \notin {"leaf", "node", "push", "link"}, pNode' = 0 \/ pc' = "return"
      PROVE  LaidOut'
  <2>1. Made' = 0
    BY <1>3 DEF Made
  <2> QED BY <1>2, <1>3, <2>1 DEF LaidOut
<1>4. ASSUME NEW in \in Dict, NEW d \in Datum, AddNode(in, d) PROVE LaidOut'
  <2>1. pc = "idle" /\ pNode = 0
    BY <1>4 DEF AddNode, LaidOut
  <2>2. pc' \in {"idle", "blob", "root"} /\ pNode' = 0
    BY <1>4, <2>1 DEF AddNode, Finish, building
  <2> QED BY <1>3, <2>2
<1>5. CASE CheckRoot \/ Visit
  <2>1. pc \in {"root", "visit"} /\ pNode = 0
    BY <1>5 DEF CheckRoot, Visit, LaidOut
  <2>2. pc' \in {"idle", "visit", "blob"} /\ pNode' = 0
    BY <1>5, <2>1 DEF CheckRoot, Visit, Finish, building
  <2> QED BY <1>3, <2>2
<1>6. CASE Link
  BY <1>3, <1>6 DEF Link
<1>7. CASE Return \/ AllocationFails \/ Restart
  BY <1>3, <1>7 DEF Return, AllocationFails, Restart, Finish
<1>8. CASE UNCHANGED vars
  <2>1. Made' = Made /\ Chain' = Chain /\ i' = i /\ pc' = pc /\ heap' = heap
    BY <1>8 DEF vars, building, pool, Made, Chain
  <2>2. Before' = Before /\ Len(heap') = Len(heap) /\ Len(Chain') = Len(Chain)
    BY <2>1 DEF Before
  <2>3. pNode' = pNode /\ pNewNode' = pNewNode
    BY <1>8 DEF vars, building
  <2> QED BY <2>1, <2>2, <2>3 DEF LaidOut
<1> QED BY <1>1, <1>4, <1>5, <1>6, <1>7, <1>8 DEF Next, Step

(* The complete branch, once it is linked, can be reached down to the      *)
(* buffer.                                                                 *)
LEMMA LinkedIsReached ==
    ASSUME MapInv, LaidOut, Link
    PROVE  (Before + 1)..Len(heap) \subseteq Reachable'
<1>1. PICK D : Shape(D) /\ Stands(D) /\ Builds(D)
  BY DEF MapInv, Core, Whole
<1>2. heap \in Seq(Object) /\ DOMAIN heap = 1..Len(heap) /\ Core
  BY HeapFacts DEF MapInv, Core, Types
<1>3. pc = "link" /\ i = 0
  BY <1>1 DEF Link, Builds
<1>4. /\ Depth \in Nat /\ Len(Chain) \in 0..Depth /\ Top \in 0..Depth /\ Top + Len(Chain) = Depth
      /\ Top = IF this = 0 THEN 0 ELSE At + 1
  BY <1>3, ChainFacts DEF MapInv, Core
<1>5. PICK z : z = Before
  OBVIOUS
<1>6. /\ z \in Nat /\ Len(heap) = z + 2 + Len(Chain) /\ pNode = z + 2 + Len(Chain)
      /\ heap[z + 2].data_ = z + 1
      /\ \A n \in 1..Len(Chain) : heap[z + 2 + n].items_ = <<z + 1 + n>>
  <2>1. Len(Chain) - i = Len(Chain) /\ Len(heap) \in Nat
    BY <1>2, <1>3, <1>4, MadeFacts
  <2>2. Made = 2 + Len(Chain) /\ Made <= Len(heap)
    BY <1>3, <2>1 DEF Made, LaidOut
  <2>3. z \in Nat /\ Len(heap) = z + 2 + Len(Chain)
    BY <1>4, <1>5, <2>1, <2>2 DEF Before
  <2> QED BY <1>3, <1>5, <2>1, <2>3 DEF LaidOut
<1>7. PICK L : L = LevelsOf(heap', node_')
  OBVIOUS
<1>8. \A o \in DOMAIN heap : SuccessorsIn(heap, o) \subseteq SuccessorsIn(heap', o)
  BY <1>2, SuccessorsKept DEF Next, Step
<1>9. \A n \in 0..Depth : \A o \in L[n] : SuccessorsIn(heap', o) \subseteq L[n + 1]
  BY <1>7, OneLevelDown
<1>10. pNode \in L[Top]
  <2>1. CASE this = 0
    <3>1. node_' = pNode /\ pNode # 0
      BY <1>4, <1>6, <2>1 DEF Link
    <3> QED BY <1>4, <1>7, <2>1, <3>1, LevelsAre
  <2>2. CASE this # 0
    <3>1. PICK a : a = this
      OBVIOUS
    <3>2. PICK b : b = pNode
      OBVIOUS
    <3>3. a \in Nodes /\ b \in Nodes /\ a \in DOMAIN heap /\ b \in Nat
      BY <1>1, <1>2, <1>3, <2>2, <3>1, <3>2, HeapFacts DEF Stands, Builds
    <3>4. Adoption(a, b)
      BY <2>2, <3>1, <3>2 DEF Link, Adoption
    <3>5. b \in Kids(a)'
      BY <1>2, <3>3, <3>4, AdoptedHeap
    <3>6. b \in SuccessorsIn(heap', a)
      BY <3>5 DEF Kids, SuccessorsIn
    <3>7. At \in 0..(Depth - 1)
      BY <1>3, KeyFacts DEF MapInv, Core
    <3>8. At \in 0..Depth /\ At \in 0..(Depth + 1)
      BY <1>4, <3>7
    <3>9. NodeAt(Values(call.key))[At] = a /\ a # 0
      BY <1>3, <2>2, <3>1 DEF MapInv, Reached
    <3>10. a \in LevelsOf(heap, node_)[At]
      BY <1>1, <1>2, <3>8, <3>9, PathIsReached
    <3>11. a \in L[At]
      BY <1>2, <1>7, <3>8, <3>10, StaysReachable DEF Next, Step
    <3> QED BY <1>4, <1>9, <2>2, <3>2, <3>6, <3>8, <3>11
  <2> QED BY <2>1, <2>2
<1>11. PICK t : t = Top
  OBVIOUS
<1>12. t \in Nat /\ Depth \in Nat /\ t \in 0..Depth /\ t + Len(Chain) = Depth
  BY <1>4, <1>11
<1> DEFINE Place(n) == z + 2 + (Depth - n)
           S == {n \in t..Depth : Place(n) \in L[n]}
<1>13. t \in S
  <2>1. Depth - t = Len(Chain) /\ t \in t..Depth
    BY <1>12, <1>4
  <2>2. Place(t) = pNode
    BY <1>6, <2>1
  <2> QED BY <1>11, <1>12, <1>10, <2>1, <2>2
<1>14. ASSUME NEW n \in t..(Depth - 1), n \in S PROVE n + 1 \in S
  <2>1. PICK m : m = Depth - n
    OBVIOUS
  <2>2. /\ m \in 1..Len(Chain) /\ Place(n) = z + 2 + m /\ Place(n + 1) = z + 1 + m
        /\ n \in 0..Depth /\ n + 1 \in t..Depth /\ z + 2 + m \in 1..Len(heap)
    BY <1>12, <1>6, <2>1
  <2>3. heap[z + 2 + m].items_ = <<z + 1 + m>>
    BY <1>6, <2>2
  <2>4. z + 1 + m \in SuccessorsIn(heap, z + 2 + m)
    <3>1. DOMAIN <<z + 1 + m>> = {1} /\ <<z + 1 + m>>[1] = z + 1 + m
      OBVIOUS
    <3> QED BY <2>3, <3>1 DEF SuccessorsIn
  <2>5. z + 1 + m \in SuccessorsIn(heap', z + 2 + m)
    BY <1>2, <1>8, <2>2, <2>4
  <2>6. z + 2 + m \in L[n]
    BY <1>14, <2>2
  <2>7. z + 1 + m \in L[n + 1]
    BY <1>9, <2>2, <2>5, <2>6
  <2> QED BY <2>2, <2>7
<1> HIDE DEF S
<1>15. t..Depth \subseteq S
  BY <1>12, <1>13, <1>14, Climb
<1>16. \A n \in t..Depth : Place(n) \in L[n]
  BY <1>15 DEF S
<1>17. z + 1 \in L[Depth + 1]
  <2>1. Depth \in t..Depth /\ Depth \in 0..Depth /\ Place(Depth) = z + 2
    BY <1>12, <1>6
  <2>2. z + 2 \in L[Depth]
    BY <1>16, <2>1
  <2>3. z + 1 \in SuccessorsIn(heap, z + 2) /\ z + 2 \in DOMAIN heap
    <3>1. z + 1 # 0 /\ z + 2 \in DOMAIN heap
      BY <1>2, <1>4, <1>6
    <3> QED BY <1>6, <3>1 DEF SuccessorsIn
  <2> QED BY <1>8, <1>9, <2>1, <2>2, <2>3
<1>18. ASSUME NEW o \in (Before + 1)..Len(heap) PROVE o \in Reachable'
  <2>1. o = z + 1 \/ \E n \in t..Depth : o = Place(n)
    <3>1. o \in (z + 1)..(z + 2 + Len(Chain))
      BY <1>5, <1>6
    <3>2. o # z + 1 => Depth - (o - (z + 2)) \in t..Depth
                       /\ o = Place(Depth - (o - (z + 2)))
      BY <1>12, <1>6, <3>1
    <3> QED BY <3>2
  <2>2. \E n \in 0..(Depth + 1) : o \in L[n]
    <3>1. Depth + 1 \in 0..(Depth + 1) /\ \A n \in t..Depth : n \in 0..(Depth + 1)
      BY <1>12
    <3> HIDE DEF Place
    <3> QED BY <1>16, <1>17, <2>1, <3>1
  <2> QED BY <1>7, <2>2, ReachableIs
<1> QED BY <1>18

(* A step leaves nothing behind, or it is a failure or a death in the      *)
(* middle of allocateNested, and leaves what that call has made.           *)
LEMMA StepLeaves ==
    ASSUME MapInv, LaidOut, [Next]_vars
    PROVE  \/ Left' \subseteq Left /\ failed' = failed
           \/ Left' \subseteq Left \union (Before + 1)..Len(heap) /\ failed' = failed + 1
<1>1. Core /\ Len(heap) \in Nat /\ Made \in Nat /\ Made <= Len(heap) /\ Before \in Nat
  BY MadeFacts DEF MapInv, LaidOut, Before
<1>2. heap \in Seq(Object) /\ DOMAIN heap = 1..Len(heap) /\ failed \in Nat
  BY <1>1, HeapFacts DEF Core, Types
<1>3. Reachable \subseteq Reachable'
  BY <1>1, StaysReachable
<1>4. Left = (1..Before \ Reachable) /\ 1..Before \subseteq 1..Len(heap)
  BY <1>1, <1>2 DEF Left, Unreachable, Before
<1>5. Left' \subseteq 1..(Before') \ Reachable'
  BY DEF Left, Unreachable
<1>6. CASE Before' = Before /\ failed' = failed
  BY <1>3, <1>4, <1>5, <1>6
<1>7. CASE AllocateBlob \/ AllocateLeaf \/ AllocateNode \/ PushIntoNew
  <2>1. Before' = Before
    BY <1>1, <1>7, BlobLaidOut, LeafLaidOut, NodeLaidOut, PushLaidOut
  <2>2. failed' = failed
    BY <1>7 DEF AllocateBlob, AllocateLeaf, AllocateNode, PushIntoNew, history
  <2> QED BY <1>6, <2>1, <2>2
<1>8. ASSUME heap' = heap, Made = 0, Made' = 0 PROVE Before' = Before
  BY <1>8 DEF Before
<1>9. ASSUME NEW in \in Dict, NEW d \in Datum, AddNode(in, d)
      PROVE  Before' = Before /\ failed' = failed
  <2>1. pc = "idle" /\ pc' \in {"idle", "blob", "root"} /\ heap' = heap /\ failed' = failed
    BY <1>9 DEF AddNode, Finish, pool, history
  <2> QED BY <1>8, <2>1 DEF Made
<1>10. CASE CheckRoot \/ Visit
  <2>1. /\ pc \in {"root", "visit"} /\ pc' \in {"idle", "visit", "blob"}
        /\ heap' = heap /\ failed' = failed
    BY <1>10 DEF CheckRoot, Visit, Finish, pool, history
  <2>2. Before' = Before
    BY <1>8, <2>1 DEF Made
  <2> QED BY <1>6, <2>1, <2>2
<1>11. CASE Return
  <2>1. pc = "return" /\ pc' = "idle" /\ heap' = heap /\ failed' = failed
    BY <1>11 DEF Return, Finish, pool
  <2>2. Before' = Before
    BY <1>8, <2>1 DEF Made
  <2> QED BY <1>6, <2>1, <2>2
<1>12. CASE Link
  <2>1. (Before + 1)..Len(heap) \subseteq Reachable'
    BY <1>12, LinkedIsReached
  <2>2. pc' = "return" /\ failed' = failed
    BY <1>12 DEF Link, history
  <2>3. Before' = Len(heap')
    <3>1. Made' = 0 /\ Len(heap') \in Nat
      BY <1>1, <2>2, SuccessorsKept DEF Made
    <3> QED BY <3>1 DEF Before
  <2>4. Len(heap') = Len(heap)
    <3>1. CASE this = 0
      BY <1>12, <3>1 DEF Link
    <3>2. CASE this # 0
      BY <1>1, <1>2, <1>12, <3>2 DEF Link
    <3> QED BY <3>1, <3>2
  <2>5. \A o \in 1..Len(heap) : o \in 1..Before \/ o \in (Before + 1)..Len(heap)
    BY <1>1
  <2>6. Left' \subseteq Left
    BY <1>3, <1>4, <1>5, <2>1, <2>3, <2>4, <2>5
  <2> QED BY <2>2, <2>6
<1>13. CASE AllocationFails \/ Restart
  <2>1. heap' = heap /\ pc' = "idle" /\ failed' = failed + Abandoned
    BY <1>13 DEF AllocationFails, Restart, Finish, pool
  <2>2. Before' = Len(heap)
    <3>1. Made' = 0
      BY <2>1 DEF Made
    <3> QED BY <1>1, <2>1, <3>1 DEF Before
  <2>3. \A o \in 1..Len(heap) : o \in 1..Before \/ o \in (Before + 1)..Len(heap)
    BY <1>1
  <2>4. Left' \subseteq Left \union (Before + 1)..Len(heap)
    BY <1>3, <1>4, <1>5, <2>2, <2>3
  <2>5. CASE pc \in {"leaf", "node", "push", "link"}
    <3>1. pNode # 0
      <4>1. pc = "leaf" => pNode = Before + 1
        BY DEF LaidOut
      <4>2. pc \in {"node", "push", "link"} => pNode = Before + 2 + (Len(Chain) - i)
        BY DEF LaidOut
      <4>3. pc \in {"node", "push", "link"} => Len(Chain) - i \in Nat
        BY <1>1, MadeFacts
      <4> QED BY <1>1, <2>5, <4>1, <4>2, <4>3
    <3> QED BY <2>1, <2>4, <2>5, <3>1 DEF Abandoned
  <2>6. CASE pc \notin {"leaf", "node", "push", "link"}
    <3>1. Abandoned = 0
      BY <2>6 DEF Abandoned, LaidOut
    <3>2. Before' = Before
      BY <1>8, <2>1, <2>6 DEF Made
    <3> QED BY <1>2, <1>6, <2>1, <3>1, <3>2
  <2> QED BY <2>5, <2>6
<1>14. CASE UNCHANGED vars
  <2>1. Made' = Made /\ heap' = heap /\ failed' = failed
    BY <1>14 DEF vars, building, pool, history, Made, Chain
  <2> QED BY <1>6, <2>1 DEF Before
<1> QED BY <1>6, <1>7, <1>9, <1>10, <1>11, <1>12, <1>13, <1>14 DEF Next, Step

(* The objects of a range of the heap are counted. *)
LEMMA CountRange ==
    ASSUME NEW lo \in Nat, NEW n \in Nat, lo <= n
    PROVE  IsFiniteSet((lo + 1)..n) /\ Cardinality((lo + 1)..n) = n - lo
<1>1. lo + 1 \in Int /\ n \in Int
  OBVIOUS
<1>2. /\ IsFiniteSet((lo + 1)..n)
      /\ Cardinality((lo + 1)..n) = IF lo + 1 > n THEN 0 ELSE n - (lo + 1) + 1
  BY <1>1, FS_Interval
<1> QED BY <1>2

(* What earlier calls left, and what the call being executed may leave,    *)
(* are finite sets.                                                        *)
LEMMA LeftIsFinite ==
    ASSUME Core, LaidOut
    PROVE  /\ IsFiniteSet(Left) /\ Cardinality(Left) \in Nat
           /\ IsFiniteSet((Before + 1)..Len(heap))
           /\ Cardinality((Before + 1)..Len(heap)) = Made
           /\ Before \in Nat
<1>1. Before \in Nat /\ Len(heap) \in Nat /\ Made \in Nat /\ Before <= Len(heap)
      /\ Len(heap) - Before = Made
  BY MadeFacts DEF LaidOut, Before
<1>2. IsFiniteSet(1..Before)
  BY <1>1, FS_Interval
<1>3. Left \in SUBSET (1..Before)
  BY DEF Left
<1>4. IsFiniteSet(Left)
  BY <1>2, <1>3, FS_Subset
<1>5. /\ IsFiniteSet((Before + 1)..Len(heap))
      /\ Cardinality((Before + 1)..Len(heap)) = Len(heap) - Before
  BY <1>1, CountRange
<1> QED BY <1>1, <1>4, <1>5, FS_CardinalityType

(* Only failures and deaths add to what is left.                           *)
LEMMA FewLeftNext ==
    ASSUME MapInv, LaidOut, FewLeft, [Next]_vars
    PROVE  FewLeft'
<1>1. Core /\ LaidOut /\ failed \in Nat /\ Depth \in Nat /\ Made \in 0..(Depth + 2)
  BY MadeFacts DEF MapInv, Core, Types
<1>2. /\ IsFiniteSet(Left) /\ Cardinality(Left) \in Nat
      /\ IsFiniteSet((Before + 1)..Len(heap))
      /\ Cardinality((Before + 1)..Len(heap)) = Made
  BY <1>1, LeftIsFinite
<1>3. CASE Left' \subseteq Left /\ failed' = failed
  <2>1. Cardinality(Left') <= Cardinality(Left)
    BY <1>2, <1>3, FS_Subset
  <2>2. Cardinality(Left') \in Nat
    BY <1>2, <1>3, FS_Subset, FS_CardinalityType
  <2>3. (Depth + 2) * failed \in Nat
    BY <1>1
  <2>4. Cardinality(Left') <= (Depth + 2) * failed
    BY <1>2, <2>1, <2>2, <2>3 DEF FewLeft
  <2> QED BY <1>3, <2>4 DEF FewLeft, Depth
<1>4. CASE Left' \subseteq Left \union (Before + 1)..Len(heap) /\ failed' = failed + 1
  <2>1. PICK B : B = Left \union (Before + 1)..Len(heap)
    OBVIOUS
  <2>2. IsFiniteSet(B) /\ Cardinality(B) <= Cardinality(Left) + Made /\ Cardinality(B) \in Nat
    <3>1. /\ IsFiniteSet(B)
          /\ Cardinality(B) = Cardinality(Left) + Cardinality((Before + 1)..Len(heap))
                                  - Cardinality(Left \intersect (Before + 1)..Len(heap))
      BY <1>2, <2>1, FS_Union
    <3>2. Cardinality(Left \intersect (Before + 1)..Len(heap)) \in Nat
      BY <1>2, FS_Intersection, FS_CardinalityType
    <3>3. Cardinality(B) \in Nat
      BY <3>1, FS_CardinalityType
    <3> QED BY <1>1, <1>2, <3>1, <3>2, <3>3
  <2>3. Cardinality(Left') <= Cardinality(B) /\ Cardinality(Left') \in Nat
    BY <1>4, <2>1, <2>2, FS_Subset, FS_CardinalityType
  <2>4. PICK k \in Nat : k = (Depth + 2) * failed
    BY <1>1
  <2>5. (Depth + 2) * (failed + 1) = k + (Depth + 2)
    BY <1>1, <2>4
  <2>6. Cardinality(Left) <= k
    BY <2>4 DEF FewLeft
  <2>7. Cardinality(Left') <= k + (Depth + 2)
    BY <1>1, <1>2, <2>2, <2>3, <2>4, <2>6
  <2> QED BY <1>4, <2>5, <2>7 DEF FewLeft, Depth
<1> QED BY <1>3, <1>4, StepLeaves

(* In every run, at every instant, for every schema: the nodes and buffers *)
(* that nobody can reach are at most what calls that threw or died in the  *)
(* middle of allocateNested had made, two more than the schema has keys    *)
(* for each.  An insertion that returns, is refused or finds its leaf      *)
(* leaves nothing.                                                         *)
THEOREM GarbageIsCounted == Spec => []GarbageOnlyByFailure
<1>1. Init => LaidOut /\ FewLeft
  <2>1. SUFFICES ASSUME Init PROVE LaidOut /\ FewLeft
    OBVIOUS
  <2>2. heap = <<>> /\ pc = "idle" /\ pNode = 0 /\ failed = 0
    BY <2>1 DEF Init
  <2>3. Len(heap) = 0 /\ Made = 0 /\ DOMAIN heap = {}
    BY <2>2 DEF Made
  <2>4. Left = {}
    BY <2>3 DEF Left, Unreachable
  <2>5. Cardinality(Left) = 0
    BY <2>4, FS_EmptySet
  <2>6. (Depth + 2) * 0 = 0
    BY SchemaFacts
  <2> QED BY <2>2, <2>3, <2>5, <2>6 DEF LaidOut, FewLeft
<1>2. MapInv /\ LaidOut /\ FewLeft /\ [Next]_vars => LaidOut' /\ FewLeft'
  BY LaidOutNext, FewLeftNext DEF MapInv
<1>3. ASSUME MapInv, LaidOut, FewLeft PROVE GarbageOnlyByFailure
  <2>1. /\ Core /\ failed \in Nat /\ Depth \in Nat /\ Made \in 0..(Depth + 2)
        /\ Len(heap) \in Nat /\ heap \in Seq(Object)
    BY <1>3, MadeFacts DEF MapInv, Core, Types
  <2>2. /\ IsFiniteSet(Left) /\ Cardinality(Left) \in Nat
        /\ IsFiniteSet((Before + 1)..Len(heap))
        /\ Cardinality((Before + 1)..Len(heap)) = Made
        /\ Before \in Nat
    BY <1>3, <2>1, LeftIsFinite
  <2>3. PICK B : B = Left \union (Before + 1)..Len(heap)
    OBVIOUS
  <2>4. Unreachable \subseteq B
    <3>1. DOMAIN heap = 1..Len(heap)
      BY <2>1, HeapFacts
    <3>2. \A o \in 1..Len(heap) : o \in 1..Before \/ o \in (Before + 1)..Len(heap)
      BY <2>1, <2>2
    <3> QED BY <2>3, <3>1, <3>2 DEF Unreachable, Left
  <2>5. IsFiniteSet(B) /\ Cardinality(B) <= Cardinality(Left) + Made /\ Cardinality(B) \in Nat
    <3>1. /\ IsFiniteSet(B)
          /\ Cardinality(B) = Cardinality(Left) + Cardinality((Before + 1)..Len(heap))
                                  - Cardinality(Left \intersect (Before + 1)..Len(heap))
      BY <2>2, <2>3, FS_Union
    <3>2. Cardinality(Left \intersect (Before + 1)..Len(heap)) \in Nat
      BY <2>2, FS_Intersection, FS_CardinalityType
    <3>3. Cardinality(B) \in Nat
      BY <3>1, FS_CardinalityType
    <3> QED BY <2>1, <2>2, <3>1, <3>2, <3>3
  <2>6. Cardinality(Unreachable) <= Cardinality(B) /\ Cardinality(Unreachable) \in Nat
    BY <2>4, <2>5, FS_Subset, FS_CardinalityType
  <2>7. PICK k \in Nat : k = (Depth + 2) * failed
    BY <2>1
  <2>8. Cardinality(Left) <= k
    BY <1>3, <2>7 DEF FewLeft
  <2>9. CASE pc \in {"leaf", "node", "push", "link"}
    <3>1. pNode # 0
      <4>1. pc = "leaf" => pNode = Before + 1
        BY <1>3 DEF LaidOut
      <4>2. pc \in {"node", "push", "link"} => pNode = Before + 2 + (Len(Chain) - i)
        BY <1>3 DEF LaidOut
      <4>3. pc \in {"node", "push", "link"} => Len(Chain) - i \in Nat
        BY <2>1, MadeFacts
      <4> QED BY <2>2, <2>9, <4>1, <4>2, <4>3
    <3>2. (Depth + 2) * (failed + 1) = k + (Depth + 2)
      BY <2>1, <2>7
    <3>3. Cardinality(Unreachable) <= k + (Depth + 2)
      BY <2>1, <2>2, <2>5, <2>6, <2>7, <2>8
    <3> QED BY <2>9, <3>1, <3>2, <3>3 DEF GarbageOnlyByFailure, Depth
  <2>10. CASE pc \notin {"leaf", "node", "push", "link"}
    <3>1. Made = 0 /\ (IF pNode # 0 /\ pc # "return" THEN 1 ELSE 0) = 0
      BY <1>3, <2>10 DEF Made, LaidOut
    <3>2. Cardinality(Unreachable) <= k
      BY <2>2, <2>5, <2>6, <2>7, <2>8, <3>1
    <3>3. failed + 0 = failed
      BY <2>1
    <3> QED BY <2>7, <3>1, <3>2, <3>3 DEF GarbageOnlyByFailure, Depth
  <2> QED BY <2>9, <2>10
<1> QED BY <1>1, <1>2, <1>3, TreeMapInvariant, PTL DEF Spec
=============================================================================
