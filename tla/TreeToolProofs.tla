--------------------------- MODULE TreeToolProofs ---------------------------
(***************************************************************************)
(* Proofs about TreeLookup and TreeTool: a lookup finds what was inserted  *)
(* and nothing else, a run of the tool that ends with "ok" has stored what *)
(* it was told to, and only a pool whose creation went wrong kills a run.  *)
(***************************************************************************)
EXTENDS TreeTool, TreeProofs

-----------------------------------------------------------------------------
(***************************************************************************)
(* The loop over the items of a node.                                      *)
(***************************************************************************)

(* What an item that is selected adds to the result. *)
Part(c, found) == IF leaf(c) THEN <<c>> ELSE found[c]
Turn(n, request, found, j, before) ==
    IF Selects(n, Items(n)[j], request) THEN before \o Part(Items(n)[j], found) ELSE before

(* The results of the loop, turn by turn. *)
LEMMA GatheredDef ==
    ASSUME NEW n, Len(Items(n)) \in Nat, NEW request, NEW found
    PROVE  \E g : /\ g[0] = <<>>
                  /\ \A j \in 1..Len(Items(n)) : g[j] = Turn(n, request, found, j, g[j - 1])
                  /\ Gathered(n, request, found) = g[Len(Items(n))]
<1> DEFINE Is(g, m) == g = [j \in 0..m |-> IF j = 0 THEN <<>>
                                           ELSE Turn(n, request, found, j, g[j - 1])]
           S == {m \in Nat : \E g : Is(g, m)}
<1>1. PICK len \in Nat : len = Len(Items(n))
  OBVIOUS
<1>2. 0 \in S
  <2>1. PICK g : g = [j \in 0..0 |-> <<>>]
    OBVIOUS
  <2>2. g = [j \in 0..0 |-> IF j = 0 THEN <<>> ELSE Turn(n, request, found, j, g[j - 1])]
    BY <2>1
  <2> QED BY <2>2
<1>3. ASSUME NEW m \in Nat, m \in S PROVE m + 1 \in S
  <2>1. PICK f : f = [j \in 0..m |-> IF j = 0 THEN <<>>
                                     ELSE Turn(n, request, found, j, f[j - 1])]
    BY <1>3
  <2>2. PICK g : g = [j \in 0..(m + 1) |-> IF j = 0 THEN <<>>
                                           ELSE Turn(n, request, found, j, f[j - 1])]
    OBVIOUS
  <2>3. \A j \in 0..m : g[j] = f[j]
    BY <2>1, <2>2
  <2>4. \A j \in 0..(m + 1) : j # 0 => j - 1 \in 0..m
    OBVIOUS
  <2>5. g = [j \in 0..(m + 1) |-> IF j = 0 THEN <<>>
                                  ELSE Turn(n, request, found, j, g[j - 1])]
    BY <2>2, <2>3, <2>4
  <2>6. m + 1 \in Nat
    OBVIOUS
  <2> QED BY <2>5, <2>6
<1> HIDE DEF S
<1>4. 0..len \subseteq S
  BY <1>2, <1>3, Climb
<1>5. \E g : Is(g, len)
  <2>1. len \in S
    BY <1>4
  <2> QED BY ONLY <2>1 DEF S
<1> DEFINE G == CHOOSE g : Is(g, len)
<1>6. Gathered(n, request, found) = G[len]
  BY <1>1 DEF Gathered, Turn, Part
<1>7. Is(G, len)
  BY <1>5
<1>8. G = [j \in 0..len |-> IF j = 0 THEN <<>> ELSE Turn(n, request, found, j, G[j - 1])]
  BY <1>7
<1> HIDE DEF G
<1>9. 0 \in 0..len /\ \A j \in 1..len : j \in 0..len /\ j # 0
  OBVIOUS
<1>10. /\ G[0] = <<>>
       /\ \A j \in 1..len : G[j] = Turn(n, request, found, j, G[j - 1])
  BY <1>8, <1>9
<1> QED BY <1>1, <1>6, <1>10

(* The loop uses of found only what it says of the items.                  *)
LEMMA GatheredSame ==
    ASSUME NEW n, Len(Items(n)) \in Nat, NEW request, NEW found, NEW found2,
           \A j \in 1..Len(Items(n)) : found[Items(n)[j]] = found2[Items(n)[j]]
    PROVE  Gathered(n, request, found) = Gathered(n, request, found2)
<1>1. PICK len \in Nat : len = Len(Items(n))
  OBVIOUS
<1>2. PICK g : /\ g[0] = <<>>
               /\ \A j \in 1..len : g[j] = Turn(n, request, found, j, g[j - 1])
               /\ Gathered(n, request, found) = g[len]
  BY <1>1, GatheredDef
<1>3. PICK h : /\ h[0] = <<>>
               /\ \A j \in 1..len : h[j] = Turn(n, request, found2, j, h[j - 1])
               /\ Gathered(n, request, found2) = h[len]
  BY <1>1, GatheredDef
<1>4. ASSUME NEW j \in 1..len, NEW x
      PROVE  Turn(n, request, found, j, x) = Turn(n, request, found2, j, x)
  BY <1>1 DEF Turn, Part
<1> DEFINE S == {j \in 0..len : g[j] = h[j]}
<1>5. 0 \in S
  BY <1>2, <1>3
<1>6. ASSUME NEW j \in 0..(len - 1), j \in S PROVE j + 1 \in S
  <2>1. j + 1 \in 1..len /\ j + 1 \in 0..len /\ (j + 1) - 1 = j
    OBVIOUS
  <2> QED BY <1>2, <1>3, <1>4, <1>6, <2>1
<1> HIDE DEF S
<1>7. 0..len \subseteq S
  BY <1>5, <1>6, Climb
<1>8. len \in S
  BY <1>7
<1> QED BY <1>2, <1>3, <1>8 DEF S

(* The concatenation of two lists that share nothing. *)
LEMMA TwoLists ==
    ASSUME NEW s \in Seq(Nat), NEW t \in Seq(Nat), IsInjective(s), IsInjective(t),
           Range(s) \cap Range(t) = {}
    PROVE  /\ s \o t \in Seq(Nat)
           /\ IsInjective(s \o t)
           /\ Range(s \o t) = Range(s) \union Range(t)
<1>1. /\ s \o t \in Seq(Nat)
      /\ Len(s) \in Nat /\ Len(t) \in Nat
      /\ DOMAIN s = 1..Len(s) /\ DOMAIN t = 1..Len(t)
      /\ DOMAIN (s \o t) = 1..(Len(s) + Len(t))
  OBVIOUS
<1>2. \A n \in 1..(Len(s) + Len(t)) :
          (s \o t)[n] = IF n <= Len(s) THEN s[n] ELSE t[n - Len(s)]
  OBVIOUS
<1>3. \A n \in 1..(Len(s) + Len(t)) : IF n <= Len(s) THEN n \in DOMAIN s
                                                     ELSE n - Len(s) \in DOMAIN t
  BY <1>1
<1>4. PICK r : r = s \o t
  OBVIOUS
<1>5. ASSUME NEW x \in DOMAIN r PROVE r[x] \in Range(s) \union Range(t)
  BY <1>1, <1>2, <1>3, <1>4 DEF Range
<1>6. ASSUME NEW x \in DOMAIN s PROVE s[x] \in Range(r)
  <2>1. x \in DOMAIN r /\ r[x] = s[x]
    BY <1>1, <1>2, <1>4
  <2> QED BY <2>1 DEF Range
<1>7. ASSUME NEW x \in DOMAIN t PROVE t[x] \in Range(r)
  <2>1. x + Len(s) \in DOMAIN r /\ ~(x + Len(s) <= Len(s)) /\ (x + Len(s)) - Len(s) = x
    BY <1>1, <1>4
  <2>2. r[x + Len(s)] = t[x]
    BY <1>1, <1>2, <1>4, <2>1
  <2> QED BY <2>1, <2>2 DEF Range
<1>8. Range(r) = Range(s) \union Range(t)
  BY <1>5, <1>6, <1>7 DEF Range
<1>9. ASSUME NEW x \in DOMAIN r, NEW y \in DOMAIN r, r[x] = r[y] PROVE x = y
  <2>1. x \in 1..(Len(s) + Len(t)) /\ y \in 1..(Len(s) + Len(t))
    BY <1>1, <1>4
  <2>2. CASE x <= Len(s) /\ y <= Len(s)
    <3>1. x \in DOMAIN s /\ y \in DOMAIN s /\ s[x] = s[y]
      BY <1>2, <1>3, <1>4, <1>9, <2>1, <2>2
    <3> QED BY <3>1 DEF IsInjective
  <2>3. CASE ~(x <= Len(s)) /\ ~(y <= Len(s))
    <3>1. /\ x - Len(s) \in DOMAIN t /\ y - Len(s) \in DOMAIN t
          /\ t[x - Len(s)] = t[y - Len(s)]
      BY <1>2, <1>3, <1>4, <1>9, <2>1, <2>3
    <3>2. x - Len(s) = y - Len(s)
      BY <3>1 DEF IsInjective
    <3> QED BY <1>1, <2>1, <3>2
  <2>4. ASSUME NEW a \in DOMAIN r, NEW b \in DOMAIN r, a <= Len(s), ~(b <= Len(s))
        PROVE  r[a] # r[b]
    <3>1. a \in 1..(Len(s) + Len(t)) /\ b \in 1..(Len(s) + Len(t))
      BY <1>1, <1>4
    <3>2. a \in DOMAIN s /\ r[a] = s[a] /\ b - Len(s) \in DOMAIN t /\ r[b] = t[b - Len(s)]
      BY <1>2, <1>3, <1>4, <2>4, <3>1
    <3>3. r[a] \in Range(s) /\ r[b] \in Range(t)
      BY <3>2 DEF Range
    <3> QED BY <3>3
  <2> QED BY <1>9, <2>2, <2>3, <2>4
<1>10. IsInjective(r)
  BY <1>9 DEF IsInjective
<1> QED BY <1>1, <1>4, <1>8, <1>10

(* A list of nodes without repetitions, and which they are. *)
ListOf(s, S) == s \in Seq(Nat) /\ IsInjective(s) /\ Range(s) = S

(* The loop lists what the items that are selected have below them, if no  *)
(* two items are one and no two have something in common.                  *)
LEMMA GatheredLists ==
    ASSUME NEW n, Items(n) \in Seq(Nat), NEW request, NEW found, NEW Has,
           \A c \in Range(Items(n)) : ListOf(Part(c, found), Has[c]),
           \A c, e \in Range(Items(n)) : c # e => Has[c] \cap Has[e] = {},
           IsInjective(Items(n))
    PROVE  ListOf(Gathered(n, request, found),
                  UNION {Has[c] : c \in {e \in Range(Items(n)) : Selects(n, e, request)}})
<1>1. PICK len \in Nat : len = Len(Items(n))
  OBVIOUS
<1>2. DOMAIN Items(n) = 1..len
  BY <1>1
<1>3. PICK g : /\ g[0] = <<>>
               /\ \A j \in 1..len : g[j] = Turn(n, request, found, j, g[j - 1])
               /\ Gathered(n, request, found) = g[len]
  BY <1>1, GatheredDef
<1> DEFINE Sel(j) == Selects(n, Items(n)[j], request)
           Seen(j) == UNION {Has[Items(n)[l]] : l \in {m \in 1..j : Sel(m)}}
           S == {j \in 0..len : ListOf(g[j], Seen(j))}
<1>4. 0 \in S
  <2>1. Seen(0) = {}
    OBVIOUS
  <2>2. <<>> \in Seq(Nat) /\ DOMAIN <<>> = {}
    OBVIOUS
  <2>3. ListOf(<<>>, {})
    BY <2>2 DEF ListOf, IsInjective, Range
  <2>4. ListOf(g[0], Seen(0))
    BY <1>3, <2>1, <2>3
  <2>5. 0 \in 0..len
    OBVIOUS
  <2> QED BY ONLY <2>4, <2>5
<1>5. ASSUME NEW j \in 0..(len - 1), j \in S PROVE j + 1 \in S
  <2>1. j + 1 \in 1..len /\ j + 1 \in 0..len /\ (j + 1) - 1 = j
    OBVIOUS
  <2>2. PICK c : c = Items(n)[j + 1]
    OBVIOUS
  <2>3. g[j + 1] = IF Selects(n, c, request) THEN g[j] \o Part(c, found) ELSE g[j]
    BY <1>3, <2>1, <2>2 DEF Turn
  <2>4. c \in Range(Items(n)) /\ ListOf(Part(c, found), Has[c])
    BY <1>2, <2>1, <2>2 DEF Range
  <2>5. ListOf(g[j], Seen(j))
    BY <1>5
  <2>6. \A l \in 1..(j + 1) : l \in 1..j \/ l = j + 1
    OBVIOUS
  <2>7. \A l \in 1..j : l \in 1..(j + 1) /\ l \in 1..len /\ l # j + 1
    OBVIOUS
  <2>8. CASE ~Selects(n, c, request)
    <3>1. {m \in 1..(j + 1) : Sel(m)} = {m \in 1..j : Sel(m)}
      BY <2>2, <2>6, <2>7, <2>8
    <3> QED BY <2>1, <2>3, <2>5, <2>8, <3>1
  <2>9. CASE Selects(n, c, request)
    <3>1. {m \in 1..(j + 1) : Sel(m)} = {m \in 1..j : Sel(m)} \union {j + 1}
      BY <2>1, <2>2, <2>6, <2>7, <2>9
    <3>2. Seen(j + 1) = Seen(j) \union Has[c]
      BY <2>2, <3>1
    <3>3. ASSUME NEW l \in 1..j PROVE Has[Items(n)[l]] \cap Has[c] = {}
      <4>1. l \in DOMAIN Items(n) /\ j + 1 \in DOMAIN Items(n) /\ l # j + 1
        BY <1>2, <2>1, <2>7
      <4>2. Items(n)[l] # c /\ Items(n)[l] \in Range(Items(n))
        BY <2>2, <4>1 DEF IsInjective, Range
      <4> QED BY <2>4, <4>2
    <3>4. Seen(j) \cap Has[c] = {}
      BY <3>3
    <3> HIDE DEF Seen
    <3>5. ListOf(g[j] \o Part(c, found), Seen(j) \union Has[c])
      BY <2>4, <2>5, <3>4, TwoLists DEF ListOf
    <3> QED BY <2>1, <2>3, <2>9, <3>2, <3>5
  <2> QED BY <2>8, <2>9
<1> HIDE DEF S
<1>6. 0..len \subseteq S
  BY <1>4, <1>5, Climb
<1>7. ListOf(g[len], Seen(len))
  <2>1. len \in S
    BY <1>6
  <2> QED BY <2>1 DEF S
<1>8. Seen(len) = UNION {Has[c] : c \in {e \in Range(Items(n)) : Selects(n, e, request)}}
  BY <1>2 DEF Range
<1> QED BY <1>3, <1>7, <1>8

-----------------------------------------------------------------------------
(***************************************************************************)
(* The recursion down the tree.                                            *)
(***************************************************************************)

(* The items of a node. *)
LEMMA ItemFacts ==
    ASSUME heap \in Seq(Object), NEW n \in DOMAIN heap
    PROVE  /\ Items(n) \in Seq(Nat) /\ Len(Items(n)) \in Nat
           /\ DOMAIN Items(n) = 1..Len(Items(n))
           /\ Range(Items(n)) = Kids(n)
<1>1. heap[n] \in Object
  BY HeapFacts
<1>2. Items(n) \in Seq(Nat)
  BY <1>1 DEF Items, Object
<1> QED BY <1>2 DEF Items, Range, Kids

(* The recursion has a result: it goes down the levels of the tree.        *)
LEMMA LookupDef ==
    ASSUME heap \in Seq(Object), NEW D, Shape(D), NEW request
    PROVE  \E found : /\ \A m \in DOMAIN heap : found[m] = Gathered(m, request, found)
                      /\ \A n \in DOMAIN heap : lookup(n, request) = found[n]
<1> DEFINE Far(m, h) == m \notin Nodes \/ D[m] >= Depth - h
           Right(f, h) == \A m \in DOMAIN heap : Far(m, h) => f[m] = Gathered(m, request, f)
           S == {h \in Nat : \E f : Right(f, h)}
<1>1. Depth \in Nat /\ \A m \in DOMAIN heap : D[m] \in 0..Depth /\ m # 0
  BY SchemaFacts, HeapFacts DEF Shape
<1>2. \A m \in DOMAIN heap : m \notin Nodes => Kids(m) = {}
  BY DEF Shape, Kids
<1>3. \A m \in Nodes : /\ D[m] >= Depth => Kids(m) = {}
                       /\ \A k \in Kids(m) : k \in Nodes /\ D[k] = D[m] + 1
  <2>1. ASSUME NEW m \in Nodes PROVE Level(D, m)
    BY DEF Shape
  <2>2. ASSUME NEW m \in Nodes, D[m] >= Depth PROVE Kids(m) = {}
    <3>1. heap[m].items_ = <<>>
      BY <2>1, <2>2 DEF Level
    <3> QED BY <3>1 DEF Kids
  <2>3. ASSUME NEW m \in Nodes, NEW k \in Kids(m) PROVE k \in Nodes /\ D[k] = D[m] + 1
    BY <2>1 DEF Level
  <2> QED BY <2>2, <2>3
<1>4. Nodes \subseteq DOMAIN heap
  BY HeapFacts
<1>5. ASSUME NEW m \in DOMAIN heap, NEW f, NEW g, \A k \in Kids(m) : f[k] = g[k]
      PROVE  Gathered(m, request, f) = Gathered(m, request, g)
  <2>1. Len(Items(m)) \in Nat /\ \A j \in 1..Len(Items(m)) : Items(m)[j] \in Kids(m)
    BY ItemFacts DEF Items, Kids
  <2> QED BY <1>5, <2>1, GatheredSame
<1>6. 0 \in S
  <2>1. PICK f : f = [m \in DOMAIN heap |-> Gathered(m, request, heap)]
    OBVIOUS
  <2>2. ASSUME NEW m \in DOMAIN heap, Far(m, 0) PROVE f[m] = Gathered(m, request, f)
    <3>1. m \in Nodes => D[m] >= Depth
      BY <1>1, <2>2
    <3>2. Kids(m) = {}
      BY <1>2, <1>3, <3>1
    <3>3. Gathered(m, request, heap) = Gathered(m, request, f)
      BY <1>5, <3>2
    <3> QED BY <2>1, <3>3
  <2>3. Right(f, 0)
    BY <2>2
  <2> QED BY <2>3
<1>7. ASSUME NEW h \in 0..(Depth - 1), h \in S PROVE h + 1 \in S
  <2>1. PICK f : Right(f, h)
    BY <1>7
  <2>2. PICK g : g = [m \in DOMAIN heap |-> Gathered(m, request, f)]
    OBVIOUS
  <2>3. ASSUME NEW m \in DOMAIN heap, Far(m, h + 1) PROVE g[m] = Gathered(m, request, g)
    <3>1. ASSUME NEW k \in Kids(m) PROVE f[k] = g[k]
      <4>1. m \in Nodes /\ D[m] \in 0..Depth /\ D[m] >= Depth - (h + 1)
        BY <1>1, <1>2, <2>3, <3>1
      <4>2. k \in Nodes /\ k \in DOMAIN heap /\ D[k] = D[m] + 1
        BY <1>3, <1>4, <3>1, <4>1
      <4>3. D[k] >= Depth - h
        BY <1>1, <4>1, <4>2
      <4>4. f[k] = Gathered(k, request, f)
        BY <2>1, <4>2, <4>3
      <4> QED BY <2>2, <4>2, <4>4
    <3>2. Gathered(m, request, f) = Gathered(m, request, g)
      BY <1>5, <3>1
    <3> QED BY <2>2, <3>2
  <2>4. Right(g, h + 1)
    BY <2>3
  <2> HIDE DEF Right
  <2>5. h + 1 \in Nat
    OBVIOUS
  <2> QED BY <2>4, <2>5
<1> HIDE DEF S
<1>8. 0..Depth \subseteq S
  BY <1>1, <1>6, <1>7, Climb
<1>9. PICK f : Right(f, Depth)
  <2>1. Depth \in S
    BY <1>1, <1>8
  <2> QED BY <2>1 DEF S
<1>10. \A m \in DOMAIN heap : f[m] = Gathered(m, request, f)
  <2>1. \A m \in DOMAIN heap : D[m] >= Depth - Depth
    BY <1>1
  <2> QED BY <1>9, <2>1
<1> DEFINE Is(g) == g = [m \in DOMAIN heap |-> Gathered(m, request, g)]
           found == CHOOSE g : Is(g)
<1>11. \E g : Is(g)
  <2>1. PICK g : g = [m \in DOMAIN heap |-> f[m]]
    OBVIOUS
  <2>2. ASSUME NEW m \in DOMAIN heap PROVE g[m] = Gathered(m, request, g)
    <3>1. ASSUME NEW k \in Kids(m) PROVE f[k] = g[k]
      BY <1>2, <1>3, <1>4, <2>1, <3>1
    <3> QED BY <1>5, <1>10, <2>1, <3>1
  <2>3. g = [m \in DOMAIN heap |-> Gathered(m, request, g)]
    BY <2>1, <2>2
  <2> QED BY <2>3
<1>12. Is(found)
  BY <1>11
<1>13. found = [m \in DOMAIN heap |-> Gathered(m, request, found)]
  BY <1>12
<1>14. \A n \in DOMAIN heap : lookup(n, request) = found[n]
  BY <1>1 DEF lookup
<1> HIDE DEF found
<1>15. \A m \in DOMAIN heap : found[m] = Gathered(m, request, found)
  BY <1>13
<1> QED BY <1>14, <1>15

(* The part of a path below level n agrees with the request.               *)
AgreesBelow(p, n, request) ==
    \A j \in (n + 1)..Depth : Schema[j] \in DOMAIN request => request[Schema[j]] = p[j]

(* The leaves of the paths through x, at level n, that agree from there on. *)
LeavesBelow(x, n, request) ==
    {LeafAt(p) : p \in {q \in Stored : NodeAt(q)[n] = x /\ AgreesBelow(q, n, request)}}

(* A path that turns off after level n leads to the same node there.       *)
LEMMA TurnsOff ==
    ASSUME heap \in Seq(Object), NEW D, Shape(D), NEW p \in Path, NEW n \in 0..(Depth - 1),
           NodeAt(p)[n] # 0, NEW k \in Kids(NodeAt(p)[n]), heap[k].value_ \in Value
    PROVE  \E q \in Path : NodeAt(q)[n] = NodeAt(p)[n] /\ NodeAt(q)[n + 1] = k
<1>1. Depth \in Nat /\ Depth = Len(Schema)
  BY SchemaFacts DEF Depth
<1>2. PICK q : q = [p EXCEPT ![n + 1] = heap[k].value_]
  OBVIOUS
<1>3. /\ q \in Path
      /\ q[n + 1] = heap[k].value_
      /\ \A j \in 1..n : q[j] = p[j]
  BY <1>1, <1>2 DEF Path
<1> DEFINE S == {j \in 0..n : NodeAt(q)[j] = NodeAt(p)[j]}
<1>4. 0 \in S
  BY Descent
<1>5. ASSUME NEW j \in 0..(n - 1), j \in S PROVE j + 1 \in S
  <2>1. j + 1 \in 1..Depth /\ j + 1 \in 0..n /\ j + 1 \in 1..n /\ (j + 1) - 1 = j
    BY <1>1
  <2>2. /\ NodeAt(p)[j + 1] = Below(p, j + 1, NodeAt(p)[j])
        /\ NodeAt(q)[j + 1] = Below(q, j + 1, NodeAt(q)[j])
    BY <2>1, NodeAtDef
  <2>3. p[j + 1] = q[j + 1] /\ NodeAt(q)[j] = NodeAt(p)[j]
    BY <1>3, <1>5, <2>1
  <2>4. Below(q, j + 1, NodeAt(q)[j]) = Below(p, j + 1, NodeAt(p)[j])
    BY <2>3 DEF Below
  <2> QED BY <2>1, <2>2, <2>4
<1> HIDE DEF S
<1>6. 0..n \subseteq S
  <2>1. n \in Nat /\ 0 \in Nat
    BY <1>1
  <2> QED BY <1>4, <1>5, <2>1, Climb
<1>7. n \in S
  <2>1. n \in 0..n
    BY <1>1
  <2> QED BY <1>6, <2>1
<1>8. NodeAt(q)[n] = NodeAt(p)[n]
  BY <1>7 DEF S
<1>9. n + 1 \in 1..Depth /\ (n + 1) - 1 = n
  BY <1>1
<1>10. Descends(q, n + 1, NodeAt(q)[n], NodeAt(q)[n + 1])
  BY <1>9, Descent
<1>11. NodeAt(q)[n + 1] = k
  BY <1>3, <1>8, <1>10 DEF Descends
<1> QED BY <1>3, <1>8, <1>11

(* What a subtree gives: every leaf below a node that lies on a path, once. *)
LEMMA SubtreeIsListed ==
    ASSUME heap \in Seq(Object), NEW D, Shape(D), OneParent, NEW request,
           NEW found, \A m \in DOMAIN heap : found[m] = Gathered(m, request, found),
           \A m \in Nodes : \A k \in Kids(m) : heap[k].value_ \in Value
    PROVE  \A n \in 0..Depth, q \in Path :
               NodeAt(q)[n] # 0 => ListOf(Part(NodeAt(q)[n], found),
                                          LeavesBelow(NodeAt(q)[n], n, request))
<1> DEFINE Listed(n) == \A q \in Path : NodeAt(q)[n] # 0 =>
                            ListOf(Part(NodeAt(q)[n], found),
                                   LeavesBelow(NodeAt(q)[n], n, request))
           S == {h \in 0..Depth : Listed(Depth - h)}
<1>1. Depth \in Nat /\ Depth = Len(Schema)
  BY SchemaFacts DEF Depth
<1>2. Nodes \subseteq DOMAIN heap /\ DOMAIN heap \subseteq Nat /\ 0 \notin DOMAIN heap
  BY HeapFacts
<1>3. Listed(Depth)
  <2> SUFFICES ASSUME NEW q \in Path, NodeAt(q)[Depth] # 0
               PROVE  ListOf(Part(NodeAt(q)[Depth], found),
                             LeavesBelow(NodeAt(q)[Depth], Depth, request))
    OBVIOUS
  <2>1. PICK x : x = NodeAt(q)[Depth]
    OBVIOUS
  <2>2. x \in Nodes /\ D[x] = Depth
    BY <1>1, <2>1, Descent
  <2>3. leaf(x)
    <3>1. Level(D, x) /\ D[x] >= Depth
      BY <1>1, <2>2 DEF Shape
    <3>2. heap[x].data_ \in DOMAIN heap
      BY <3>1 DEF Level
    <3> QED BY <1>2, <3>2 DEF leaf
  <2>4. Part(x, found) = <<x>>
    BY <2>3 DEF Part
  <2>5. <<x>> \in Seq(Nat) /\ IsInjective(<<x>>) /\ Range(<<x>>) = {x}
    <3>1. x \in Nat
      BY <1>2, <2>2
    <3> QED BY <3>1 DEF IsInjective, Range
  <2>6. \A p : LeafAt(p) = NodeAt(p)[Depth]
    BY <1>1 DEF LeafAt
  <2>7. q \in Stored
    BY <2>6 DEF Stored
  <2>8. AgreesBelow(q, Depth, request)
    BY <1>1 DEF AgreesBelow
  <2>9. LeavesBelow(x, Depth, request) = {x}
    BY <2>1, <2>6, <2>7, <2>8 DEF LeavesBelow
  <2> QED BY <2>1, <2>4, <2>5, <2>9 DEF ListOf
<1>4. ASSUME NEW n \in 0..(Depth - 1), Listed(n + 1) PROVE Listed(n)
  <2> SUFFICES ASSUME NEW q \in Path, NodeAt(q)[n] # 0
               PROVE  ListOf(Part(NodeAt(q)[n], found),
                             LeavesBelow(NodeAt(q)[n], n, request))
    OBVIOUS
  <2>1. PICK x : x = NodeAt(q)[n]
    OBVIOUS
  <2>2. /\ n \in 0..Depth /\ n + 1 \in 0..Depth /\ n + 1 \in 1..Depth /\ (n + 1) - 1 = n
        /\ n < Depth /\ Depth \in (n + 1)..Depth
        /\ \A j \in (n + 1)..Depth : j \in ((n + 1) + 1)..Depth \/ j = n + 1
        /\ \A j \in ((n + 1) + 1)..Depth : j \in (n + 1)..Depth
        /\ n + 1 \in (n + 1)..Depth
    BY <1>1
  <2>3. x \in Nodes /\ D[x] = n /\ x \in DOMAIN heap /\ x # 0
    BY <1>2, <2>1, <2>2, Descent
  <2>4. heap[x].data_ = 0 /\ heap[x].key_ = Schema[n + 1] /\ Distinct(x)
    BY <2>2, <2>3 DEF Shape, Level
  <2>5. Part(x, found) = Gathered(x, request, found)
    BY <2>3, <2>4 DEF Part, leaf
  <2>6. /\ Items(x) \in Seq(Nat) /\ Range(Items(x)) = Kids(x) /\ Kids(x) \subseteq Nodes
        /\ IsInjective(Items(x))
    <3>1. Items(x) \in Seq(Nat) /\ Range(Items(x)) = Kids(x)
      BY <2>3, ItemFacts
    <3>2. Kids(x) \subseteq Nodes
      BY <2>3 DEF Shape, Level
    <3>3. IsInjective(Items(x))
      BY <2>4 DEF Distinct, IsInjective, Items
    <3> QED BY <3>1, <3>2, <3>3
  <2> DEFINE Has == [k \in Kids(x) |-> LeavesBelow(k, n + 1, request)]
  <2>7. ASSUME NEW k \in Kids(x) PROVE ListOf(Part(k, found), Has[k])
    <3>1. heap[k].value_ \in Value
      BY <2>3
    <3>2. PICK p \in Path : NodeAt(p)[n + 1] = k
      BY <2>1, <2>3, <3>1, TurnsOff
    <3>3. k # 0
      BY <1>2, <2>6
    <3> QED BY <1>4, <3>2, <3>3
  <2>8. ASSUME NEW k \in Kids(x), NEW l \in Kids(x), k # l PROVE Has[k] \cap Has[l] = {}
    <3> SUFFICES ASSUME NEW p \in Stored, NEW r \in Stored, LeafAt(p) = LeafAt(r),
                        NodeAt(p)[n + 1] = k, NodeAt(r)[n + 1] = l
                 PROVE  FALSE
      BY DEF LeavesBelow
    <3>1. /\ NodeAt(p)[Depth] = NodeAt(r)[Depth] /\ NodeAt(p)[Depth] # 0
          /\ p \in Path /\ r \in Path
      BY <1>1 DEF Stored, LeafAt
    <3>2. \A j \in 1..Depth : p[j] = r[j]
      <4>1. Depth \in 0..Depth
        BY <1>1
      <4> QED BY <3>1, <4>1, OnePathEach
    <3>3. p = r
      BY <1>1, <3>1, <3>2 DEF Path
    <3> QED BY <2>8, <3>3
  <2>9. ListOf(Gathered(x, request, found),
               UNION {Has[k] : k \in {l \in Kids(x) : Selects(x, l, request)}})
    <3> HIDE DEF Has
    <3> QED BY <2>6, <2>7, <2>8, GatheredLists
  <2>10. ASSUME NEW p \in Stored, NodeAt(p)[n] = x, AgreesBelow(p, n, request)
         PROVE  \E k \in Kids(x) : Selects(x, k, request) /\ LeafAt(p) \in Has[k]
    <3>1. PICK k : k = NodeAt(p)[n + 1]
      OBVIOUS
    <3>2. k # 0
      <4>1. NodeAt(p)[Depth] # 0
        BY <1>1 DEF Stored, LeafAt
      <4> QED BY <2>2, <3>1, <4>1, NothingBelow
    <3>3. Descends(p, n + 1, x, k)
      BY <2>2, <2>10, <3>1, Descent
    <3>4. k \in Kids(x) /\ heap[k].value_ = p[n + 1]
      BY <2>3, <3>2, <3>3 DEF Descends
    <3>5. Selects(x, k, request)
      BY <2>2, <2>4, <2>10, <3>4 DEF Selects, AgreesBelow
    <3>6. AgreesBelow(p, n + 1, request)
      BY <2>2, <2>10 DEF AgreesBelow
    <3>7. LeafAt(p) \in LeavesBelow(k, n + 1, request)
      BY <3>1, <3>6 DEF LeavesBelow
    <3> QED BY <3>4, <3>5, <3>7
  <2>11. ASSUME NEW k \in Kids(x), Selects(x, k, request), NEW p \in Stored,
                NodeAt(p)[n + 1] = k, AgreesBelow(p, n + 1, request)
         PROVE  NodeAt(p)[n] = x /\ AgreesBelow(p, n, request)
    <3>1. PICK y : y = NodeAt(p)[n]
      OBVIOUS
    <3>2. k # 0
      BY <1>2, <2>6
    <3>3. Descends(p, n + 1, y, k)
      BY <2>2, <2>11, <3>1, Descent
    <3>4. y # 0 /\ k \in Kids(y) /\ heap[k].value_ = p[n + 1]
      BY <3>2, <3>3 DEF Descends
    <3>5. y \in Nodes
      BY <2>2, <3>1, <3>4, Descent
    <3>6. y = x
      BY <2>3, <3>4, <3>5 DEF OneParent
    <3>7. Schema[n + 1] \in DOMAIN request => request[Schema[n + 1]] = p[n + 1]
      BY <2>4, <2>11, <3>4 DEF Selects
    <3> QED BY <2>2, <2>11, <3>1, <3>6, <3>7 DEF AgreesBelow
  <2>12. UNION {Has[k] : k \in {l \in Kids(x) : Selects(x, l, request)}}
            = LeavesBelow(x, n, request)
    <3>1. ASSUME NEW k \in Kids(x), Selects(x, k, request), NEW b \in Has[k]
          PROVE  b \in LeavesBelow(x, n, request)
      <4>1. PICK p \in Stored : /\ NodeAt(p)[n + 1] = k /\ AgreesBelow(p, n + 1, request)
                                /\ b = LeafAt(p)
        BY <3>1 DEF LeavesBelow
      <4>2. NodeAt(p)[n] = x /\ AgreesBelow(p, n, request)
        BY <2>11, <3>1, <4>1
      <4> QED BY <4>1, <4>2 DEF LeavesBelow
    <3>2. ASSUME NEW b \in LeavesBelow(x, n, request)
          PROVE  \E k \in Kids(x) : Selects(x, k, request) /\ b \in Has[k]
      <4>1. PICK p \in Stored : /\ NodeAt(p)[n] = x /\ AgreesBelow(p, n, request)
                                /\ b = LeafAt(p)
        BY <3>2 DEF LeavesBelow
      <4> QED BY <2>10, <4>1
    <3> HIDE DEF Has
    <3> QED BY <3>1, <3>2
  <2> HIDE DEF Has
  <2> QED BY <2>1, <2>5, <2>9, <2>12
<1> HIDE DEF Listed
<1>5. 0 \in S
  <2>1. Depth - 0 = Depth /\ 0 \in 0..Depth
    BY <1>1
  <2> QED BY <1>3, <2>1
<1>6. ASSUME NEW h \in 0..(Depth - 1), h \in S PROVE h + 1 \in S
  <2>1. /\ (Depth - (h + 1)) + 1 = Depth - h /\ Depth - (h + 1) \in 0..(Depth - 1)
        /\ h + 1 \in 0..Depth
    BY <1>1
  <2>2. Listed(Depth - h)
    BY <1>6
  <2>3. Listed(Depth - (h + 1))
    BY <1>4, <2>1, <2>2
  <2> QED BY <2>1, <2>3
<1> HIDE DEF S
<1>7. 0..Depth \subseteq S
  BY <1>1, <1>5, <1>6, Climb
<1>8. \A n \in 0..Depth : Listed(n)
  <2> SUFFICES ASSUME NEW n \in 0..Depth PROVE Listed(n)
    OBVIOUS
  <2>1. Depth - n \in 0..Depth /\ Depth - (Depth - n) = n
    BY <1>1
  <2>2. Listed(Depth - (Depth - n))
    BY <1>7, <2>1 DEF S
  <2> QED BY <2>1, <2>2
<1> QED BY <1>8 DEF Listed

-----------------------------------------------------------------------------
(***************************************************************************)
(* The items of the nodes have the values of some key.                     *)
(***************************************************************************)
Valued == /\ node_ # 0 => Depth # 0 /\ Value # {}
          /\ \A n \in Nodes : \A k \in Kids(n) : heap[k].value_ \in Value

LookupInv == MapInv /\ Valued

(* A new object has no items yet. *)
LEMMA GrownValued ==
    ASSUME Core, Valued, NEW o \in Object, o.items_ = <<>>,
           heap' = Append(heap, o), node_' = node_
    PROVE  Valued'
<1>1. heap \in Seq(Object)
  BY DEF Core, Types
<1>2. PICK D \in [Nat -> 0..Depth] : Whole(D)
  BY DEF Core
<1>3. \A n \in Nodes : \A k \in Kids(n) : k \in Nodes
  BY <1>2 DEF Whole, Shape, Level
<1>4. PICK a : a = Len(heap) + 1
  OBVIOUS
<1>5. /\ heap'[a] = o
      /\ \A n \in DOMAIN heap : heap'[n] = heap[n] /\ Kids(n)' = Kids(n)
      /\ Nodes' \subseteq Nodes \union {a}
      /\ Nodes \subseteq DOMAIN heap
  <2>1. /\ heap'[Len(heap) + 1] = o
        /\ \A n \in DOMAIN heap : /\ heap'[n] = heap[n]
                                  /\ Kids(n)' = Kids(n)
        /\ Nodes' = IF o.type = "TreeNode" THEN Nodes \union {Len(heap) + 1} ELSE Nodes
    BY <1>1, GrownHeap, Zenon
  <2>2. Nodes' \subseteq Nodes \union {a}
    BY ONLY <2>1, <1>4
  <2>3. Nodes \subseteq DOMAIN heap
    BY <1>1, HeapFacts
  <2>4. heap'[a] = o
    BY ONLY <2>1, <1>4
  <2>5. \A n \in DOMAIN heap : heap'[n] = heap[n] /\ Kids(n)' = Kids(n)
    BY ONLY <2>1
  <2> QED BY ONLY <2>2, <2>3, <2>4, <2>5
<1>6. Kids(a)' = {}
  <2>1. heap'[a].items_ = <<>>
    BY <1>5
  <2>2. DOMAIN <<>> = {}
    OBVIOUS
  <2>3. DOMAIN heap'[a].items_ = {}
    BY ONLY <2>1, <2>2
  <2> QED BY ONLY <2>3 DEF Kids
<1>7. ASSUME NEW n \in Nodes', NEW k \in Kids(n)' PROVE heap'[k].value_ \in Value
  <2>1. n \in Nodes
    BY <1>5, <1>6, <1>7
  <2>2. k \in Kids(n) /\ k \in DOMAIN heap
    BY <1>3, <1>5, <1>7, <2>1
  <2> QED BY <1>5, <2>1, <2>2 DEF Valued
<1>8. node_' # 0 => Depth # 0 /\ Value # {}
  BY DEF Valued
<1> QED BY <1>7, <1>8 DEF Valued, Depth

(* A node with a value becomes an item. *)
LEMMA AdoptedValued ==
    ASSUME Core, Valued, NEW a \in Nodes, NEW b \in Nodes, heap[b].value_ \in Value,
           Adoption(a, b), node_' = node_
    PROVE  Valued'
<1>1. heap \in Seq(Object)
  BY DEF Core, Types
<1>2. PICK D \in [Nat -> 0..Depth] : Whole(D)
  BY DEF Core
<1>3. \A n \in Nodes : \A k \in Kids(n) : k \in Nodes
  BY <1>2 DEF Whole, Shape, Level
<1>4. a \in DOMAIN heap /\ b \in Nat /\ Nodes \subseteq DOMAIN heap
  BY <1>1, HeapFacts
<1>5. /\ Nodes' = Nodes
      /\ \A m \in DOMAIN heap :
            /\ heap'[m].value_ = heap[m].value_
            /\ Kids(m)' = IF m = a THEN Kids(m) \union {b} ELSE Kids(m)
  BY <1>1, <1>4, AdoptedHeap
<1>6. ASSUME NEW n \in Nodes', NEW k \in Kids(n)' PROVE heap'[k].value_ \in Value
  <2>1. n \in Nodes /\ n \in DOMAIN heap
    BY <1>4, <1>5
  <2>2. k \in Kids(n) \/ k = b
    BY <1>5, <1>6, <2>1
  <2>3. k \in DOMAIN heap /\ heap[k].value_ \in Value
    BY <1>3, <1>4, <2>1, <2>2 DEF Valued
  <2> QED BY <1>5, <2>3
<1>7. node_' # 0 => Depth # 0 /\ Value # {}
  BY DEF Valued
<1> QED BY <1>6, <1>7 DEF Valued, Depth

(* The node that is pushed into another has the value of its level. *)
LEMMA ValuedNext ==
    ASSUME Core, Valued, [Next]_vars
    PROVE  Valued'
<1>1. heap \in Seq(Object)
  BY DEF Core, Types
<1>2. PICK D \in [Nat -> 0..Depth] : Whole(D)
  BY DEF Core
<1>3. CASE UNCHANGED pool
  <2>1. /\ UNCHANGED <<heap, node_>> /\ Nodes' = Nodes /\ \A n : Kids(n)' = Kids(n)
    BY <1>3, StillShape DEF pool
  <2> QED BY <2>1 DEF Valued, Depth
<1>4. CASE AllocateBlob
  <2>1. PICK o \in Object : o = Buffer(call.datum)
    BY <1>4, AllocatedObjects
  <2>2. o.items_ = <<>>
    BY <2>1 DEF Buffer
  <2> QED BY <1>4, <2>1, <2>2, GrownValued DEF AllocateBlob
<1>5. CASE AllocateLeaf
  <2>1. PICK o \in Object : o = Node(Empty, LeafValue, pNode, <<>>)
    BY <1>5, AllocatedObjects
  <2>2. o.items_ = <<>>
    BY <2>1 DEF Node
  <2> QED BY <1>5, <2>1, <2>2, GrownValued DEF AllocateLeaf
<1>6. CASE AllocateNode
  <2>1. PICK o \in Object : o = Node(KeyOfNode(i), ValueOfNode(i), 0, <<>>)
    BY <1>6, AllocatedObjects
  <2>2. o.items_ = <<>>
    BY <2>1 DEF Node
  <2> QED BY <1>6, <2>1, <2>2, GrownValued DEF AllocateNode
<1>7. ASSUME pc \in {"push", "link"}
      PROVE  /\ pNode \in Nodes
             /\ Depth # 0 /\ Value # {}
             /\ pc = "push" \/ this # 0 => heap[pNode].value_ \in Value
  <2>1. pc # "idle" /\ Keys
    BY <1>7 DEF Core
  <2>2. /\ pNode \in Nodes /\ i <= Len(Chain) /\ i \in 0..Depth
        /\ Top + i >= 1 => heap[pNode].value_ = Value_(Top + i)
        /\ pc = "push" => i # 0
    BY <1>2, <1>7 DEF Core, Types, Whole, Builds
  <2>3. Depth \in Nat /\ Depth # 0 /\ \A n \in 1..Depth : Value_(n) \in Value
    BY <2>1, KeyFacts
  <2>4. /\ Len(Chain) \in 0..Depth /\ Top \in 0..Depth /\ Top + Len(Chain) = Depth
        /\ this # 0 => Top = At + 1
    BY <2>1, ChainFacts
  <2>5. At \in 0..(Depth - 1)
    BY <2>1, KeyFacts
  <2>6. ASSUME pc = "push" \/ this # 0 PROVE Top + i \in 1..Depth /\ Top + i >= 1
    <3>1. PICK t \in 0..Depth, m \in 0..Depth : t = Top /\ m = Len(Chain)
      BY <2>4
    <3>2. t + m = Depth /\ i <= m /\ i \in 0..Depth
      BY <2>2, <2>4, <3>1
    <3>3. CASE pc = "push"
      <4>1. i # 0
        BY <2>2, <3>3
      <4> QED BY ONLY <2>3, <3>1, <3>2, <4>1
    <3>4. CASE this # 0
      <4>1. PICK a \in 0..(Depth - 1) : a = At
        BY <2>5
      <4>2. t = a + 1
        BY <2>4, <3>1, <3>4, <4>1
      <4> QED BY ONLY <2>3, <3>1, <3>2, <4>1, <4>2
    <3> QED BY <2>6, <3>3, <3>4
  <2>7. 1 \in 1..Depth
    BY <2>3
  <2> QED BY <2>2, <2>3, <2>6, <2>7
<1>8. CASE PushIntoNew
  <2>1. PICK a : a = pNewNode
    OBVIOUS
  <2>2. PICK b : b = pNode
    OBVIOUS
  <2>3. a \in Nodes
    BY <1>2, <1>8, <2>1 DEF PushIntoNew, Whole, Builds
  <2>4. b \in Nodes /\ heap[b].value_ \in Value
    BY <1>7, <1>8, <2>2 DEF PushIntoNew
  <2>5. Adoption(a, b) /\ node_' = node_
    BY <1>8, <2>1, <2>2 DEF PushIntoNew, Adoption
  <2> QED BY <2>3, <2>4, <2>5, AdoptedValued
<1>9. CASE Link /\ this = 0
  <2>1. heap' = heap /\ Depth # 0 /\ Value # {}
    BY <1>7, <1>9 DEF Link
  <2>2. Nodes' = Nodes /\ \A n : Kids(n)' = Kids(n)
    BY <2>1 DEF Nodes, Kids
  <2> QED BY <2>1, <2>2 DEF Valued, Depth
<1>10. CASE Link /\ this # 0
  <2>1. PICK a : a = this
    OBVIOUS
  <2>2. PICK b : b = pNode
    OBVIOUS
  <2>3. a \in Nodes
    BY <1>2, <1>10, <2>1 DEF Whole, Stands
  <2>4. b \in Nodes /\ heap[b].value_ \in Value
    BY <1>7, <1>10, <2>2 DEF Link
  <2>5. Adoption(a, b) /\ node_' = node_
    BY <1>10, <2>1, <2>2 DEF Link, Adoption
  <2> QED BY <2>3, <2>4, <2>5, AdoptedValued
<1>11. \/ UNCHANGED pool \/ AllocateBlob \/ AllocateLeaf \/ AllocateNode
       \/ PushIntoNew \/ Link
  BY DEF Next, Step, AddNode, CheckRoot, Visit, Return, AllocationFails, Restart, vars
<1> QED BY <1>3, <1>4, <1>5, <1>6, <1>8, <1>9, <1>10, <1>11

(* Nothing is in the tree at first. *)
LEMMA LookupInit ==
    ASSUME Init
    PROVE  LookupInv
<1>1. MapInv
  BY NothingAtFirst
<1>2. node_ = 0 /\ Nodes = {}
  BY DEF Init, Nodes
<1> QED BY <1>1, <1>2 DEF LookupInv, Valued

(* Every step of the tree keeps what lookups rely on. *)
LEMMA LookupNext ==
    ASSUME LookupInv, [Next]_vars
    PROVE  LookupInv'
BY MapNext, ValuedNext DEF LookupInv, MapInv

(* In such a tree a lookup finds what agrees with the request.             *)
LEMMA ExactLookup ==
    ASSUME LookupInv
    PROVE  LookupIsExact
<1> SUFFICES ASSUME NEW request \in Dict
             PROVE  /\ IsInjective(lookup(node_, request))
                    /\ Range(lookup(node_, request))
                          = {LeafAt(p) : p \in {q \in Stored : Agrees(q, request)}}
  BY DEF LookupIsExact
<1>1. PICK D \in [Nat -> 0..Depth] : Whole(D)
  BY DEF LookupInv, MapInv, Core
<1>2. heap \in Seq(Object) /\ OneParent /\ Shape(D) /\ Valued
  BY <1>1 DEF LookupInv, MapInv, Core, Types, Whole
<1>3. Depth \in Nat /\ 0 \in 0..Depth /\ Depth = Len(Schema) /\ DOMAIN Schema = 1..Depth
  BY SchemaFacts, SchemaAssumption, LenProperties DEF Depth
<1>4. \A p : NodeAt(p)[0] = node_
  BY <1>2, Descent
<1>5. CASE node_ = 0
  <2>1. lookup(node_, request) = <<>>
    BY <1>5 DEF lookup
  <2>2. IsInjective(<<>>) /\ Range(<<>>) = {}
    BY DEF IsInjective, Range
  <2>3. ASSUME NEW p \in Stored PROVE FALSE
    <3>1. Depth \in 0..Depth /\ NodeAt(p)[0] = 0
      BY <1>3, <1>4, <1>5
    <3>2. NodeAt(p)[Depth] = 0
      BY <1>2, <1>3, <3>1, NothingBelow
    <3> QED BY <1>3, <3>2 DEF Stored, LeafAt
  <2> QED BY <2>1, <2>2, <2>3
<1>6. CASE node_ # 0
  <2>1. Depth # 0 /\ Value # {}
    BY <1>2, <1>6 DEF Valued
  <2>2. node_ \in Nodes /\ D[node_] = 0 /\ node_ \in DOMAIN heap
    BY <1>2, <1>6, HeapFacts DEF Shape
  <2>3. ~leaf(node_)
    <3>1. Level(D, node_) /\ D[node_] < Depth
      BY <1>2, <1>3, <2>1, <2>2 DEF Shape
    <3> QED BY <3>1 DEF Level, leaf
  <2>4. PICK found : /\ \A m \in DOMAIN heap : found[m] = Gathered(m, request, found)
                     /\ \A n \in DOMAIN heap : lookup(n, request) = found[n]
    BY <1>2, LookupDef
  <2>5. Part(node_, found) = lookup(node_, request)
    BY <2>2, <2>3, <2>4 DEF Part
  <2>6. PICK q : q \in Path
    <3>1. PICK v \in Value : TRUE
      BY <2>1
    <3>2. [n \in 1..Len(Schema) |-> v] \in Path
      BY <3>1 DEF Path
    <3> QED BY <3>2
  <2>7. ListOf(Part(node_, found), LeavesBelow(node_, 0, request))
    <3>1. \A m \in Nodes : \A k \in Kids(m) : heap[k].value_ \in Value
      BY <1>2 DEF Valued
    <3>2. \A n \in 0..Depth, p \in Path :
              NodeAt(p)[n] # 0 => ListOf(Part(NodeAt(p)[n], found),
                                         LeavesBelow(NodeAt(p)[n], n, request))
      BY <1>2, <2>4, <3>1, SubtreeIsListed
    <3> QED BY <1>3, <1>4, <1>6, <2>6, <3>2
  <2>8. LeavesBelow(node_, 0, request) = {LeafAt(p) : p \in {r \in Stored : Agrees(r, request)}}
    <3>1. \A p : AgreesBelow(p, 0, request) <=> Agrees(p, request)
      BY <1>3 DEF AgreesBelow, Agrees
    <3> QED BY <1>4, <3>1 DEF LeavesBelow
  <2> QED BY <2>5, <2>7, <2>8 DEF ListOf
<1> QED BY <1>5, <1>6

(* A lookup finds every leaf that was inserted under a key the request     *)
(* agrees with, each once, and nothing else, whatever insertion is half    *)
(* way or was interrupted (TreeNode::lookup).                              *)
THEOREM LookupsAreExact == Spec => []LookupIsExact
<1>1. Init => LookupInv
  BY LookupInit
<1>2. LookupInv /\ [Next]_vars => LookupInv'
  BY LookupNext
<1>3. LookupInv => LookupIsExact
  BY ExactLookup
<1> QED BY <1>1, <1>2, <1>3, PTL DEF Spec

-----------------------------------------------------------------------------
(***************************************************************************)
(* The inductive invariant of the tool.                                    *)
(***************************************************************************)
ToolTypes ==
    /\ file \in {"absent", "present"}
    /\ root \in {"none", "zeroed", "constructed"}
    /\ schema_ = (root = "constructed")
    /\ file = "absent" => root = "none"
    /\ proc \in {"none", "create", "construct", "open", "root", "insert", "inserting",
                 "lookup", "requests"}
    /\ pc # "idle" => proc = "inserting"
    /\ left \in 0..MaxRequests
    /\ out \subseteq Datum
    /\ result \in {"none", "ok", "died", "PersistentCreateError", "PersistentOpenError",
                   "ParserError", "UserError", "LeafExistsError", "AllocationError",
                   "AssertionFailed"}

(* Nothing is in the tree until the root was constructed, and no call is   *)
(* made before.                                                            *)
Standing ==
    /\ root # "constructed" => heap = <<>> /\ node_ = 0 /\ acked = {}
    /\ proc = "construct" => root = "none"
    /\ proc \in {"construct", "root"} => file = "present"
    /\ proc \in {"insert", "inserting", "lookup", "requests"} => schema_
    /\ proc # "none" => result = "none"

(* What this run was told so far, and how far it has got with it.          *)
IsStored(g) == IsInsertKey(g[1]) /\ <<PathOf(g[1]), g[2]>> \in acked
Told ==
    /\ proc \in {"create", "construct", "open", "root", "insert"} => given = {}
    /\ proc = "inserting" => \E in \in Dict, d \in Datum :
          /\ given = {<<in, d>>}
          /\ pc # "idle" => IsInsertKey(in) /\ Values(call.key) = PathOf(in) /\ call.datum = d
          /\ pc = "idle" /\ reply = "ok" => IsStored(<<in, d>>)
    /\ proc \in {"lookup", "requests"} \/ result = "ok" => \A g \in given : IsStored(g)

(* What is in the tree was tried by some run. *)
Tries ==
    /\ tried \subseteq Path \X Datum
    /\ pc # "idle" => <<Values(call.key), call.datum>> \in tried
    /\ \A p \in Stored : <<p, DatumOf(LeafAt(p))>> \in tried

ToolInv == LookupInv /\ ToolTypes /\ Standing /\ Told /\ Tries

-----------------------------------------------------------------------------
(***************************************************************************)
(* The steps of the tool and those of the tree.                            *)
(***************************************************************************)

(* The steps that neither touch the tree nor what was told and tried. *)
Quiet == \/ Create \/ Open \/ GetRoot \/ NoInsert \/ Inserted \/ NoLookup
         \/ OtherRequest \/ EndOfRequests
         \/ \E request \in Dict : LookupArgument(request) \/ LookupRequest(request)

(* The steps of the tool, one by one. *)
LEMMA ToolSteps ==
    ASSUME [ToolNext]_allvars
    PROVE  \/ UNCHANGED allvars
           \/ \E create \in BOOLEAN, requests \in 0..MaxRequests : Start(create, requests)
           \/ Quiet
           \/ ConstructRoot
           \/ \E in \in Dict, d \in Datum : InsertArgument(in, d)
           \/ Inserting
           \/ \E in \in Dict, d \in Datum : InsertRequest(in, d)
           \/ Die
BY Zenon DEF ToolNext, ToolStep, Quiet

(* A quiet step leaves the tree and the books alone. *)
LEMMA QuietFacts ==
    ASSUME Quiet
    PROVE  UNCHANGED <<tree, given, tried>>
BY DEF Quiet, Create, Open, GetRoot, NoInsert, Inserted, NoLookup, OtherRequest,
       EndOfRequests, LookupArgument, LookupRequest, poolfile

(* Every step of the tool is one of the tree, or leaves the tree alone.    *)
LEMMA ToolIsTree ==
    ASSUME ToolInv, [ToolNext]_allvars
    PROVE  [Next]_vars
<1>1. CASE ConstructRoot
  <2>1. node_ = 0
    BY <1>1 DEF ConstructRoot, ToolInv, Standing
  <2>2. UNCHANGED vars
    BY <1>1, <2>1 DEF ConstructRoot, vars, pool
  <2> QED BY <2>2
<1>2. CASE \E in \in Dict, d \in Datum : InsertArgument(in, d)
  BY <1>2 DEF InsertArgument, Next
<1>3. CASE Inserting
  BY <1>3 DEF Inserting, Next
<1>4. CASE Die
  BY <1>4 DEF Die, Next
<1>5. CASE UNCHANGED allvars
  BY <1>5 DEF allvars, tree
<1>6. CASE \E create \in BOOLEAN, requests \in 0..MaxRequests : Start(create, requests)
  BY <1>6 DEF Start, tree
<1>7. CASE Quiet
  BY <1>7, QuietFacts DEF tree
<1>8. CASE \E in \in Dict, d \in Datum : InsertRequest(in, d)
  BY <1>8 DEF InsertRequest, tree
<1> QED BY <1>1, <1>2, <1>3, <1>4, <1>5, <1>6, <1>7, <1>8, ToolSteps

(* An insertion key gives a path. *)
LEMMA PathOfKey ==
    ASSUME NEW in \in Dict, IsInsertKey(in)
    PROVE  PathOf(in) \in Path /\ Values(processInsertKey(in)) = PathOf(in)
<1>1. \A n \in 1..Len(Schema) : in[Schema[n]] \in Value
  BY DEF Dict, IsInsertKey
<1>2. PathOf(in) \in Path
  BY <1>1 DEF PathOf, Path
<1>3. Values(processInsertKey(in)) = PathOf(in)
  BY DEF Values, processInsertKey, PathOf
<1> QED BY <1>2, <1>3

(* How a call begins, ... *)
LEMMA CallBegins ==
    ASSUME NEW in \in Dict, NEW d \in Datum, AddNode(in, d)
    PROVE  /\ pc = "idle" /\ UNCHANGED <<pool, acked>>
           /\ pc' # "idle" => /\ IsInsertKey(in)
                              /\ Values(call.key)' = PathOf(in) /\ call.datum' = d
           /\ pc' = "idle" => reply' # "ok"
<1>1. pc = "idle" /\ UNCHANGED <<pool, acked>>
  BY DEF AddNode, history
<1>2. CASE IsInsertKey(in) /\ Schema # <<>>
  <2>1. /\ call' = [key |-> processInsertKey(in), datum |-> d]
        /\ pc' # "idle"
    BY <1>2 DEF AddNode
  <2>2. call.key' = processInsertKey(in) /\ call.datum' = d
    BY <2>1
  <2>3. Values(call.key)' = Values(processInsertKey(in))
    BY <2>2 DEF Values
  <2> QED BY <1>1, <1>2, <2>1, <2>2, <2>3, PathOfKey
<1>3. CASE ~(IsInsertKey(in) /\ Schema # <<>>)
  <2>1. pc' = "idle" /\ reply' # "ok"
    BY <1>3 DEF AddNode, Finish
  <2> QED BY <1>1, <2>1
<1> QED BY <1>2, <1>3

(* ... goes on, and ends. *)
LEMMA CallSteps ==
    ASSUME Step
    PROVE  /\ pc # "idle"
           /\ \/ pc' # "idle" /\ call' = call /\ acked' = acked
              \/ pc' = "idle" /\ reply' # "ok" /\ acked' = acked
              \/ pc' = "idle" /\ acked' = acked \union {<<Values(call.key), call.datum>>}
<1>1. CASE CheckRoot
  BY <1>1 DEF CheckRoot, Finish, history
<1>2. CASE Visit
  BY <1>2 DEF Visit, Finish, history
<1>3. CASE AllocateBlob \/ AllocateLeaf \/ AllocateNode \/ PushIntoNew
  BY <1>3 DEF AllocateBlob, AllocateLeaf, AllocateNode, PushIntoNew, history
<1>4. CASE Link
  BY <1>4 DEF Link, history
<1>5. CASE Return
  BY <1>5 DEF Return, Finish
<1>6. CASE AllocationFails
  BY <1>6 DEF AllocationFails, Finish
<1> QED BY <1>1, <1>2, <1>3, <1>4, <1>5, <1>6 DEF Step

(* What a lookup prints was tried. *)
LEMMA PrintedFacts ==
    ASSUME LookupInv, NEW request \in Dict
    PROVE  Printed(request)
             = {DatumOf(LeafAt(p)) : p \in {q \in Stored : Agrees(q, request)}}
<1>1. Range(lookup(node_, request)) = {LeafAt(p) : p \in {q \in Stored : Agrees(q, request)}}
  BY ExactLookup DEF LookupIsExact
<1>2. PICK D \in [Nat -> 0..Depth] : Whole(D)
  BY DEF LookupInv, MapInv, Core
<1>3. heap \in Seq(Object) /\ Shape(D)
  BY <1>2 DEF LookupInv, MapInv, Core, Types, Whole
<1>4. ASSUME NEW p \in Stored PROVE leaf(LeafAt(p))
  <2>1. heap[LeafAt(p)].data_ \in DOMAIN heap
    BY <1>3, StoredLeaf DEF Stored
  <2> QED BY <1>3, <2>1, HeapFacts DEF leaf
<1> QED BY <1>1, <1>4 DEF Printed

(* What the tree of a pool is told from is put back unchanged, or grows.   *)
LEMMA AckedGrows ==
    ASSUME ToolInv, [ToolNext]_allvars
    PROVE  acked \subseteq acked'
<1>1. CASE UNCHANGED allvars
  BY <1>1 DEF allvars, tree, vars, history
<1>2. CASE \E create \in BOOLEAN, requests \in 0..MaxRequests : Start(create, requests)
  BY <1>2 DEF Start, tree, vars, history
<1>3. CASE Quiet
  BY <1>3, QuietFacts DEF tree, vars, history
<1>4. CASE ConstructRoot
  BY <1>4 DEF ConstructRoot, history
<1>5. CASE \E in \in Dict, d \in Datum : InsertArgument(in, d)
  BY <1>5, CallBegins DEF InsertArgument
<1>6. CASE Inserting
  BY <1>6, CallSteps DEF Inserting
<1>7. CASE \E in \in Dict, d \in Datum : InsertRequest(in, d)
  BY <1>7 DEF InsertRequest, tree, vars, history
<1>8. CASE Die
  BY <1>8 DEF Die, Restart
<1> QED BY <1>1, <1>2, <1>3, <1>4, <1>5, <1>6, <1>7, <1>8, ToolSteps

(* What is printed are data. *)
LEMMA PrintedAreData ==
    ASSUME LookupInv, Tries, NEW request \in Dict
    PROVE  Printed(request) \subseteq Datum
<1>1. \A p \in Stored : DatumOf(LeafAt(p)) \in Datum
  BY DEF Tries
<1> QED BY <1>1, PrintedFacts

(* The types are kept. *)
LEMMA ToolTypesNext ==
    ASSUME ToolInv, [ToolNext]_allvars
    PROVE  ToolTypes'
<1>1. ToolTypes /\ Standing /\ LookupInv /\ Tries /\ MaxRequests \in Nat
  BY RequestsAssumption DEF ToolInv
<1>2. reply \in {"none", "ok", "UserError", "LeafExistsError",
                 "AllocationError", "AssertionFailed"}
  BY <1>1 DEF LookupInv, MapInv, Core, Types
<1>3. CASE UNCHANGED allvars
  BY <1>1, <1>3 DEF allvars, tree, vars, toolvars, poolfile, ToolTypes
<1>4. CASE \E create \in BOOLEAN, requests \in 0..MaxRequests : Start(create, requests)
  BY <1>1, <1>4 DEF Start, tree, vars, poolfile, ToolTypes
<1>5. CASE Create
  BY <1>1, <1>5 DEF Create, End, Goto, tree, vars, ToolTypes
<1>6. CASE Open
  BY <1>1, <1>6 DEF Open, End, Goto, tree, vars, poolfile, ToolTypes
<1>7. CASE GetRoot
  <2>1. file' = file /\ schema_' = schema_ /\ pc' = pc /\ out' = out
    BY <1>7 DEF GetRoot, tree, vars
  <2>2. root' = IF root = "none" THEN "zeroed" ELSE root
    BY <1>7 DEF GetRoot
  <2>3. /\ proc' \in {"insert", "none"}
        /\ left' \in 0..MaxRequests
        /\ result' \in {result, "died"}
    BY <1>1, <1>7 DEF GetRoot, End, Goto, ToolTypes
  <2>4. pc = "idle"
    BY <1>1, <1>7 DEF GetRoot, ToolTypes
  <2>5. /\ root' \in {"none", "zeroed", "constructed"}
        /\ schema_' = (root' = "constructed")
    BY <1>1, <2>1, <2>2 DEF ToolTypes
  <2>6. file' \in {"absent", "present"} /\ (file' = "absent" => root' = "none")
    <3>1. file = "present"
      BY <1>1, <1>7 DEF GetRoot, Standing
    <3> QED BY <2>1, <3>1
  <2> QED BY <1>1, <2>1, <2>3, <2>4, <2>5, <2>6 DEF ToolTypes
<1>8. CASE NoInsert \/ NoLookup \/ OtherRequest \/ EndOfRequests
  BY <1>1, <1>8 DEF NoInsert, NoLookup, OtherRequest, EndOfRequests, End, Goto,
                    tree, vars, poolfile, ToolTypes
<1>9. CASE Inserted
  BY <1>1, <1>2, <1>9 DEF Inserted, End, Goto, tree, vars, poolfile, ToolTypes
<1>10. CASE \E request \in Dict : LookupArgument(request) \/ LookupRequest(request)
  <2>1. PICK request \in Dict : LookupArgument(request) \/ LookupRequest(request)
    BY <1>10
  <2>2. Printed(request) \subseteq Datum
    BY <1>1, PrintedAreData
  <2>3. out' \subseteq Datum /\ left' \in 0..MaxRequests
    BY <1>1, <2>1, <2>2 DEF LookupArgument, LookupRequest, Goto, ToolTypes
  <2>4. /\ pc' = pc /\ pc = "idle" /\ result' = result
        /\ proc' \in {"requests"} /\ UNCHANGED poolfile
    BY <1>1, <2>1 DEF LookupArgument, LookupRequest, Goto, tree, vars, ToolTypes
  <2> QED BY <1>1, <2>3, <2>4 DEF poolfile, ToolTypes
<1>11. CASE ConstructRoot
  BY <1>1, <1>11 DEF ConstructRoot, Goto, Standing, ToolTypes
<1>12. CASE \E in \in Dict, d \in Datum : InsertArgument(in, d)
  BY <1>1, <1>12 DEF InsertArgument, Goto, poolfile, ToolTypes
<1>13. CASE Inserting
  BY <1>1, <1>13 DEF Inserting, toolvars, poolfile, ToolTypes
<1>14. CASE \E in \in Dict, d \in Datum : InsertRequest(in, d)
  BY <1>1, <1>14 DEF InsertRequest, End, tree, vars, poolfile, ToolTypes
<1>15. CASE Die
  BY <1>1, <1>15 DEF Die, End, Restart, Finish, poolfile, ToolTypes
<1> QED BY <1>3, <1>4, <1>5, <1>6, <1>7, <1>8, <1>9, <1>10, <1>11, <1>12, <1>13, <1>14, <1>15,
           ToolSteps DEF Quiet

(* Before the root was constructed nothing is done to the tree. *)
LEMMA StandingNext ==
    ASSUME ToolInv, [ToolNext]_allvars
    PROVE  Standing'
<1>1. ToolTypes /\ Standing
  BY DEF ToolInv
<1>2. CASE UNCHANGED allvars
  BY <1>1, <1>2 DEF allvars, tree, vars, pool, history, toolvars, poolfile, Standing
<1>3. CASE \E create \in BOOLEAN, requests \in 0..MaxRequests : Start(create, requests)
  BY <1>1, <1>3 DEF Start, tree, vars, pool, history, poolfile, Standing
<1>4. CASE Create
  BY <1>1, <1>4 DEF Create, End, Goto, tree, vars, pool, history, ToolTypes, Standing
<1>5. CASE Open
  BY <1>1, <1>5 DEF Open, End, Goto, tree, vars, pool, history, poolfile, Standing
<1>6. CASE GetRoot
  <2>1. UNCHANGED <<heap, node_, acked>> /\ file' = file /\ schema_' = schema_
    BY <1>6 DEF GetRoot, tree, vars, pool, history
  <2>2. root' = "constructed" => root = "constructed"
    BY <1>6 DEF GetRoot
  <2>3. root = "constructed" => root' = "constructed"
    BY <1>6 DEF GetRoot
  <2>4. \/ schema_ /\ proc' = "insert" /\ result' = result /\ proc = "root"
        \/ proc' = "none"
    BY <1>6 DEF GetRoot, End, Goto
  <2> QED BY <1>1, <2>1, <2>2, <2>3, <2>4 DEF Standing
<1>7. CASE NoInsert \/ NoLookup \/ OtherRequest \/ EndOfRequests
  BY <1>1, <1>7 DEF NoInsert, NoLookup, OtherRequest, EndOfRequests, End, Goto,
                    tree, vars, pool, history, poolfile, Standing
<1>8. CASE Inserted
  BY <1>1, <1>8 DEF Inserted, End, Goto, tree, vars, pool, history, poolfile, Standing
<1>9. CASE \E request \in Dict : LookupArgument(request) \/ LookupRequest(request)
  BY <1>1, <1>9 DEF LookupArgument, LookupRequest, Goto,
                    tree, vars, pool, history, poolfile, Standing
<1>10. CASE ConstructRoot
  <2>1. /\ UNCHANGED <<file, heap, acked>> /\ proc = "construct"
        /\ proc' = "root" /\ result' = result
        /\ root' = "constructed" \/ (root' = root /\ node_' = node_)
    BY <1>10 DEF ConstructRoot, Goto, history
  <2> QED BY <1>1, <2>1 DEF Standing
<1>11. CASE \E in \in Dict, d \in Datum : InsertArgument(in, d)
  <2>1. /\ UNCHANGED <<heap, node_, acked, root, file, schema_>>
        /\ proc = "insert" /\ proc' = "inserting" /\ result' = result
    BY <1>11, CallBegins DEF InsertArgument, Goto, pool, poolfile
  <2> QED BY <1>1, <2>1 DEF Standing
<1>12. CASE Inserting
  <2>1. UNCHANGED <<root, file, schema_, proc, result>> /\ proc = "inserting"
    BY <1>12 DEF Inserting, toolvars, poolfile
  <2>2. root = "constructed"
    BY <1>1, <2>1 DEF Standing, ToolTypes
  <2> QED BY <1>1, <2>1, <2>2 DEF Standing
<1>13. CASE \E in \in Dict, d \in Datum : InsertRequest(in, d)
  BY <1>1, <1>13 DEF InsertRequest, End, tree, vars, pool, history, poolfile, Standing
<1>14. CASE Die
  BY <1>1, <1>14 DEF Die, End, Restart, pool, poolfile, Standing
<1> QED BY <1>2, <1>3, <1>4, <1>5, <1>6, <1>7, <1>8, <1>9, <1>10, <1>11, <1>12, <1>13, <1>14,
           ToolSteps DEF Quiet

(* What this run was told is stored once its insertion has returned. *)
LEMMA ToldNext ==
    ASSUME ToolInv, [ToolNext]_allvars
    PROVE  Told'
<1> DEFINE Done(g) == IsInsertKey(g[1]) /\ <<PathOf(g[1]), g[2]>> \in acked'
<1>1. ToolTypes /\ Standing /\ Told
  BY DEF ToolInv
<1>2. \A g : IsStored(g)' <=> Done(g)
  BY DEF IsStored, IsInsertKey, PathOf
<1>3. \A g : IsStored(g) => Done(g)
  BY AckedGrows DEF IsStored
<1>4. Told' <=>
        /\ proc' \in {"create", "construct", "open", "root", "insert"} => given' = {}
        /\ proc' = "inserting" => \E in \in Dict, d \in Datum :
              /\ given' = {<<in, d>>}
              /\ pc' # "idle" => /\ IsInsertKey(in)
                                 /\ Values(call.key)' = PathOf(in) /\ call.datum' = d
              /\ pc' = "idle" /\ reply' = "ok" => Done(<<in, d>>)
        /\ proc' \in {"lookup", "requests"} \/ result' = "ok" => \A g \in given' : Done(g)
  BY <1>2 DEF Told, IsInsertKey, PathOf, Values
<1> HIDE DEF Done
<1>5. ASSUME proc # "inserting" PROVE pc = "idle"
  BY <1>1, <1>5 DEF ToolTypes
<1>6. ASSUME UNCHANGED <<proc, given, pc, call, reply, result>> PROVE Told'
  <2>1. Values(call.key)' = Values(call.key) /\ call.datum' = call.datum
    BY <1>6 DEF Values
  <2>2. proc = "inserting" => \E in \in Dict, d \in Datum :
              /\ given = {<<in, d>>}
              /\ pc # "idle" => /\ IsInsertKey(in)
                                /\ Values(call.key) = PathOf(in) /\ call.datum = d
              /\ pc = "idle" /\ reply = "ok" => Done(<<in, d>>)
    BY <1>1, <1>3 DEF Told
  <2>3. proc \in {"lookup", "requests"} \/ result = "ok" => \A g \in given : Done(g)
    BY <1>1, <1>3 DEF Told
  <2>4. proc \in {"create", "construct", "open", "root", "insert"} => given = {}
    BY <1>1 DEF Told
  <2> QED BY <1>4, <1>6, <2>1, <2>2, <2>3, <2>4
<1>7. CASE UNCHANGED allvars
  <2>1. UNCHANGED <<proc, given, pc, call, reply, result>>
    BY <1>7 DEF allvars, tree, vars, toolvars
  <2> QED BY <1>6, <2>1
<1>8. CASE \E create \in BOOLEAN, requests \in 0..MaxRequests : Start(create, requests)
  <2>1. given' = {} /\ proc' # "inserting"
    BY <1>8 DEF Start
  <2> QED BY <1>4, <2>1
<1>9. CASE Create \/ Open \/ GetRoot \/ ConstructRoot
  <2>1. /\ given' = given /\ given = {} /\ proc' # "inserting"
    BY <1>1, <1>9 DEF Create, Open, GetRoot, ConstructRoot, End, Goto, Told
  <2> QED BY <1>4, <2>1
<1>10. CASE NoInsert
  <2>1. /\ given' = given /\ given = {} /\ proc' # "inserting"
    BY <1>1, <1>10 DEF NoInsert, Goto, Told
  <2> QED BY <1>4, <2>1
<1>11. CASE NoLookup \/ OtherRequest \/ EndOfRequests
  <2>1. proc \in {"lookup", "requests"} /\ given' = given /\ proc' \in {"requests", "none"}
    BY <1>11 DEF NoLookup, OtherRequest, EndOfRequests, End, Goto
  <2>2. \A g \in given : Done(g)
    BY <1>1, <1>3, <2>1 DEF Told
  <2> QED BY <1>4, <2>1, <2>2
<1>12. CASE \E request \in Dict : LookupArgument(request) \/ LookupRequest(request)
  <2>1. proc \in {"lookup", "requests"} /\ given' = given /\ proc' \in {"requests"}
    BY <1>12 DEF LookupArgument, LookupRequest, Goto
  <2>2. \A g \in given : Done(g)
    BY <1>1, <1>3, <2>1 DEF Told
  <2> QED BY <1>4, <2>1, <2>2
<1>13. CASE Inserted
  <2>1. /\ proc = "inserting" /\ pc = "idle" /\ given' = given
        /\ reply = "ok" \/ (proc' = "none" /\ result' # "ok")
        /\ proc' \in {"lookup", "none"}
    BY <1>13 DEF Inserted, End, Goto
  <2>2. reply = "ok" => \A g \in given : Done(g)
    BY <1>1, <1>3, <2>1 DEF Told
  <2> QED BY <1>4, <2>1, <2>2
<1>14. CASE \E in \in Dict, d \in Datum : InsertArgument(in, d)
  <2>1. PICK in \in Dict, d \in Datum : InsertArgument(in, d)
    BY <1>14
  <2>2. /\ proc = "insert" /\ proc' = "inserting" /\ result' = result /\ AddNode(in, d)
        /\ given' = given \union {<<in, d>>}
    BY <2>1 DEF InsertArgument, Goto
  <2>3. given' = {<<in, d>>} /\ result' # "ok"
    BY <1>1, <2>2 DEF Told, Standing
  <2>4. /\ pc' # "idle" => /\ IsInsertKey(in)
                           /\ Values(call.key)' = PathOf(in) /\ call.datum' = d
        /\ pc' = "idle" => reply' # "ok"
    BY <2>2, CallBegins
  <2> QED BY <1>4, <2>2, <2>3, <2>4
<1>15. CASE Inserting
  <2>1. proc = "inserting" /\ Step /\ UNCHANGED <<proc, given, result>>
    BY <1>15 DEF Inserting, toolvars
  <2>2. pc # "idle" /\ result # "ok"
    BY <1>1, <2>1, CallSteps DEF Standing
  <2>3. PICK in \in Dict, d \in Datum :
            /\ given = {<<in, d>>}
            /\ IsInsertKey(in) /\ Values(call.key) = PathOf(in) /\ call.datum = d
    BY <1>1, <2>1, <2>2 DEF Told
  <2>4. /\ pc' # "idle" => call' = call
        /\ pc' = "idle" /\ reply' = "ok" =>
               acked' = acked \union {<<Values(call.key), call.datum>>}
    BY <2>1, CallSteps
  <2>5. pc' # "idle" => Values(call.key)' = Values(call.key) /\ call.datum' = call.datum
    BY <2>4 DEF Values
  <2>6. pc' = "idle" /\ reply' = "ok" => Done(<<in, d>>)
    BY <2>3, <2>4 DEF Done
  <2> QED BY <1>4, <2>1, <2>2, <2>3, <2>5, <2>6
<1>16. CASE \E in \in Dict, d \in Datum : InsertRequest(in, d)
  <2>1. proc' = "none" /\ result' = "ParserError"
    BY <1>16 DEF InsertRequest, End
  <2> QED BY <1>4, <2>1
<1>17. CASE Die
  <2>1. proc' = "none" /\ result' = "died"
    BY <1>17 DEF Die, End
  <2> QED BY <1>4, <2>1
<1> QED BY <1>7, <1>8, <1>9, <1>10, <1>11, <1>12, <1>13, <1>14, <1>15, <1>16, <1>17,
           ToolSteps DEF Quiet

(* Nothing comes into the tree that was not tried. *)
LEMMA TriesNext ==
    ASSUME ToolInv, [ToolNext]_allvars
    PROVE  Tries'
<1>1. ToolTypes /\ Tries /\ LookupInv /\ Core /\ Reached /\ Built
  BY DEF ToolInv, LookupInv, MapInv
<1>2. [Next]_vars
  BY ToolIsTree
<1>3. Core'
  BY <1>1, <1>2, CoreNext
<1>4. /\ tried \subseteq tried' /\ tried' \subseteq Path \X Datum
      /\ pc' # "idle" => <<Values(call.key), call.datum>>' \in tried'
  <2>1. CASE Inserting
    <3>1. Step /\ tried' = tried
      BY <2>1 DEF Inserting, toolvars
    <3>2. pc # "idle" /\ (pc' # "idle" => call' = call)
      BY <3>1, CallSteps
    <3>3. pc' # "idle" => <<Values(call.key), call.datum>>' = <<Values(call.key), call.datum>>
      BY <3>2 DEF Values
    <3> QED BY <1>1, <3>1, <3>2, <3>3 DEF Tries
  <2>2. CASE \E in \in Dict, d \in Datum : InsertArgument(in, d)
    <3>1. PICK in \in Dict, d \in Datum : InsertArgument(in, d)
      BY <2>2
    <3>2. /\ AddNode(in, d)
          /\ tried' = IF IsInsertKey(in) THEN tried \union {<<PathOf(in), d>>} ELSE tried
      BY <3>1 DEF InsertArgument
    <3>3. pc' # "idle" => /\ IsInsertKey(in)
                          /\ Values(call.key)' = PathOf(in) /\ call.datum' = d
      BY <3>2, CallBegins
    <3>4. IsInsertKey(in) => PathOf(in) \in Path
      BY PathOfKey
    <3>5. tried \subseteq Path \X Datum
      BY <1>1 DEF Tries
    <3>6. tried \subseteq tried' /\ tried' \subseteq Path \X Datum
      BY <3>2, <3>4, <3>5
    <3> QED BY <3>2, <3>3, <3>6
  <2>3. CASE Die
    BY <1>1, <2>3 DEF Die, Restart, Finish, Tries
  <2>4. CASE UNCHANGED <<pc, call, tried>>
    <3>1. <<Values(call.key), call.datum>>' = <<Values(call.key), call.datum>>
      BY <2>4 DEF Values
    <3> QED BY <1>1, <2>4, <3>1 DEF Tries
  <2>5. UNCHANGED allvars => UNCHANGED <<pc, call, tried>>
    BY DEF allvars, tree, vars, toolvars
  <2>6. ASSUME NEW create, NEW requests, Start(create, requests)
        PROVE  UNCHANGED <<pc, call, tried>>
    BY <2>6 DEF Start, tree, vars
  <2>7. Quiet => UNCHANGED <<pc, call, tried>>
    BY QuietFacts DEF tree, vars
  <2>8. ConstructRoot => UNCHANGED <<pc, call, tried>>
    BY DEF ConstructRoot
  <2>9. ASSUME NEW in, NEW d, InsertRequest(in, d) PROVE UNCHANGED <<pc, call, tried>>
    BY <2>9 DEF InsertRequest, tree, vars
  <2> QED BY <2>1, <2>2, <2>3, <2>4, <2>5, <2>6, <2>7, <2>8, <2>9, ToolSteps
<1>5. CASE ~Link
  <2>1. Keeps
    BY <1>1, <1>2, <1>5, NextKeeps
  <2>2. Stored' = Stored /\ \A p \in Stored : DatumOf(LeafAt(p))' = DatumOf(LeafAt(p))
    BY <1>1, <1>3, <2>1, KeptContent
  <2>3. \A p \in Stored' : <<p, DatumOf(LeafAt(p))'>> \in tried'
    BY <1>1, <1>4, <2>2 DEF Tries
  <2> QED BY <1>4, <2>3 DEF Tries, Path
<1>6. CASE Link
  <2>1. PICK q, d : /\ q = Values(call.key) /\ d = call.datum
                    /\ Stored' = Stored \union {q}
                    /\ DatumOf(LeafAt(q))' = d
                    /\ \A p \in Stored : DatumOf(LeafAt(p))' = DatumOf(LeafAt(p))
    BY <1>1, <1>3, <1>6, LinkContent
  <2>2. <<q, d>> \in tried
    BY <1>1, <1>6, <2>1 DEF Tries, Link
  <2>3. \A p \in Stored' : <<p, DatumOf(LeafAt(p))'>> \in tried'
    BY <1>1, <1>4, <2>1, <2>2 DEF Tries
  <2> QED BY <1>4, <2>3 DEF Tries, Path
<1> QED BY <1>5, <1>6

(* A pool that does not exist holds nothing. *)
LEMMA ToolStart ==
    ASSUME ToolInit
    PROVE  ToolInv
<1>1. LookupInv /\ Stored = {}
  BY LookupInit, NothingAtFirst DEF ToolInit
<1>2. ToolTypes
  <2>1. 0 \in 0..MaxRequests
    BY RequestsAssumption
  <2> QED BY <2>1 DEF ToolInit, Init, ToolTypes
<1>3. Standing /\ Told
  BY DEF ToolInit, Init, Standing, Told
<1>4. Tries
  BY <1>1 DEF ToolInit, Init, Tries
<1> QED BY <1>1, <1>2, <1>3, <1>4 DEF ToolInv

(* Every step keeps the invariant. *)
LEMMA ToolInvNext ==
    ASSUME ToolInv, [ToolNext]_allvars
    PROVE  ToolInv'
<1>1. LookupInv'
  BY ToolIsTree, LookupNext DEF ToolInv
<1> QED BY <1>1, ToolTypesNext, StandingNext, ToldNext, TriesNext DEF ToolInv

(* Whatever the tool is told to do, however its runs end and how often     *)
(* they die, the tree is touched only by the calls of a run that found the *)
(* root constructed, and holds nothing that was not tried (TreeTool.cc).   *)
THEOREM ToolInvariant == ToolSpec => []ToolInv
<1>1. ToolInit => ToolInv
  BY ToolStart
<1>2. ToolInv /\ [ToolNext]_allvars => ToolInv'
  BY ToolInvNext
<1> QED BY <1>1, <1>2, PTL DEF ToolSpec

(* The runs of the tool do with the tree only what Tree allows: all that   *)
(* is proved of the tree holds of the pool of the tool.                    *)
THEOREM ToolUsesTheTree == ToolSpec => Init /\ [][Next]_vars
<1>1. ToolInit => Init
  BY DEF ToolInit
<1>2. ToolInv /\ [ToolNext]_allvars => [Next]_vars
  BY ToolIsTree
<1> QED BY <1>1, <1>2, ToolInvariant, PTL DEF ToolSpec

(* A pool whose root is complete.                                          *)
Usable == file = "present" /\ schema_ /\ result # "PersistentOpenError"

(* No step of any run makes a usable pool unusable. *)
LEMMA UsableStays ==
    ASSUME ToolInv, Usable, [ToolNext]_allvars
    PROVE  Usable'
<1>1. ToolTypes /\ Standing
  BY DEF ToolInv
<1>2. CASE UNCHANGED allvars
  BY <1>2 DEF allvars, toolvars, poolfile, Usable
<1>3. CASE \E create \in BOOLEAN, requests \in 0..MaxRequests : Start(create, requests)
  BY <1>3 DEF Start, poolfile, Usable
<1>4. CASE Create \/ Open
  BY <1>4 DEF Create, Open, End, Goto, poolfile, Usable
<1>5. CASE NoInsert \/ NoLookup \/ OtherRequest \/ EndOfRequests
  BY <1>5 DEF NoInsert, NoLookup, OtherRequest, EndOfRequests, End, Goto, poolfile, Usable
<1>6. CASE Inserted
  <2>1. reply # "PersistentOpenError"
    BY DEF ToolInv, LookupInv, MapInv, Core, Types
  <2> QED BY <1>6, <2>1 DEF Inserted, End, Goto, poolfile, Usable
<1>7. CASE GetRoot
  BY <1>7 DEF GetRoot, End, Goto, Usable
<1>8. CASE \E request \in Dict : LookupArgument(request) \/ LookupRequest(request)
  BY <1>8 DEF LookupArgument, LookupRequest, Goto, poolfile, Usable
<1>9. CASE ConstructRoot
  <2>1. root = "none" /\ root = "constructed"
    BY <1>1, <1>9 DEF ConstructRoot, ToolTypes, Standing, Usable
  <2> QED BY <2>1
<1>10. CASE \E in \in Dict, d \in Datum : InsertArgument(in, d)
  BY <1>10 DEF InsertArgument, Goto, poolfile, Usable
<1>11. CASE Inserting
  BY <1>11 DEF Inserting, toolvars, poolfile, Usable
<1>12. CASE \E in \in Dict, d \in Datum : InsertRequest(in, d)
  BY <1>12 DEF InsertRequest, End, poolfile, Usable
<1>13. CASE Die
  BY <1>13 DEF Die, End, poolfile, Usable
<1> QED BY <1>2, <1>3, <1>4, <1>5, <1>6, <1>7, <1>8, <1>9, <1>10, <1>11, <1>12, <1>13,
           ToolSteps DEF Quiet

(* Once a run has got past the root of a pool, every later run finds the   *)
(* file and a complete root, whatever the runs before it did and however   *)
(* they ended (TreePool, PersistentPool's constructors).                   *)
THEOREM OpenedPoolIsKept == ToolSpec => OpenedPoolsStayUsable
<1>1. ToolInv /\ proc = "insert" => Usable
  BY DEF ToolInv, ToolTypes, Standing, Usable
<1>2. ToolInv /\ Usable /\ [ToolNext]_allvars => Usable'
  BY UsableStays
<1>3. Usable => (proc = "root" => schema_) /\ result # "PersistentOpenError"
  BY DEF Usable
<1> QED BY <1>1, <1>2, <1>3, ToolInvariant, PTL DEF ToolSpec, OpenedPoolsStayUsable

(* A run that ends with "ok" has stored everything it was told to insert,  *)
(* with the datum it was told (TreeTool.cc:152-168, 222-256).              *)
THEOREM OkMeansStored == ToolSpec => []OkIsTrue
<1>1. ASSUME ToolInv PROVE OkIsTrue
  <2>0. ToolTypeOK
    <3>1. TypeOK
      BY <1>1, CoreTypes DEF ToolInv, LookupInv, MapInv
    <3> QED BY <1>1, <3>1 DEF ToolInv, ToolTypes, ToolTypeOK
  <2> SUFFICES ASSUME result = "ok", NEW g \in given
               PROVE  /\ IsInsertKey(g[1])
                      /\ PathOf(g[1]) \in Stored
                      /\ Content[PathOf(g[1])] = g[2]
    BY <2>0 DEF OkIsTrue
  <2>1. IsInsertKey(g[1]) /\ <<PathOf(g[1]), g[2]>> \in acked
    BY <1>1 DEF ToolInv, Told, IsStored
  <2>2. PICK a \in acked : a = <<PathOf(g[1]), g[2]>>
    BY <2>1
  <2>3. a[1] \in Stored /\ DatumOf(LeafAt(a[1])) = a[2]
    BY <1>1 DEF ToolInv, LookupInv, MapInv, Kept
  <2>4. \A p \in Stored : Content[p] = DatumOf(LeafAt(p))
    BY DEF Content
  <2> QED BY <2>1, <2>2, <2>3, <2>4
<1> QED BY <1>1, ToolInvariant, PTL

(* A lookup prints the datum of every insertion that returned and agrees   *)
(* with the request, and no datum that nobody gave for a key that agrees   *)
(* (TreeTool::run, TreeObject::lookup).                                    *)
THEOREM LookupsPrintWhatIsStored == ToolSpec => []PrintedAreStored
<1>1. ASSUME ToolInv PROVE PrintedAreStored
  <2> SUFFICES ASSUME NEW request \in Dict
               PROVE  /\ \A a \in acked : Agrees(a[1], request) => a[2] \in Printed(request)
                      /\ \A d \in Printed(request) :
                             \E t \in tried : t[2] = d /\ Agrees(t[1], request)
    BY DEF PrintedAreStored
  <2>1. Printed(request)
          = {DatumOf(LeafAt(p)) : p \in {q \in Stored : Agrees(q, request)}}
    BY <1>1, PrintedFacts DEF ToolInv
  <2>2. \A a \in acked : a[1] \in Stored /\ DatumOf(LeafAt(a[1])) = a[2]
    BY <1>1 DEF ToolInv, LookupInv, MapInv, Kept
  <2>3. \A p \in Stored : <<p, DatumOf(LeafAt(p))>> \in tried
    BY <1>1 DEF ToolInv, Tries
  <2>4. ASSUME NEW d \in Printed(request)
        PROVE  \E t \in tried : t[2] = d /\ Agrees(t[1], request)
    <3>1. PICK p \in Stored : Agrees(p, request) /\ d = DatumOf(LeafAt(p))
      BY <2>1
    <3>2. <<p, d>> \in tried /\ <<p, d>>[2] = d /\ <<p, d>>[1] = p
      BY <2>3, <3>1
    <3> QED BY <3>1, <3>2
  <2> QED BY <2>1, <2>2, <2>4
<1> QED BY <1>1, ToolInvariant, PTL
=============================================================================
