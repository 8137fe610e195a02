-------------------------- MODULE PlainDataProofs --------------------------
(***************************************************************************)
(* Proofs about the classes that keep plain data.  PersistentPODVector,    *)
(* for every set of values and blocks and every bound: what is counted is  *)
(* whole, and the vector is an append-only log.  Buffers, for every size   *)
(* of the pool, of the texts and arrays, and of the allocator's granule:   *)
(* the objects lie apart and hold what was stored in them, and strings     *)
(* compare as their texts do.                                              *)
(***************************************************************************)
EXTENDS PersistentPODVector, Buffers, TLAPS


(***************************************************************************)
(* What the operations on an array return.                                 *)
(***************************************************************************)

(* The counted slots of a hold finished values. *)
Whole(a) == \A i \in 0..(a.nelem_ - 1) : a.elements_[i] # Junk

(* A new array counts nothing. *)
LEMMA NewPODArrayIsWhole ==
    ASSUME NEW n \in Nat
    PROVE  /\ IsPODArray(NewPODArray(n))
           /\ Whole(NewPODArray(n))
           /\ NewPODArray(n).nelem_ = 0
BY DEF IsPODArray, Whole, NewPODArray

(* The copying constructor keeps the counted values, and copies no other. *)
LEMMA CopyIsWhole ==
    ASSUME NEW a, NEW n \in Nat, IsPODArray(a), Whole(a), CopyPODFits(a, n)
    PROVE  /\ IsPODArray(CopyPODArray(a, n))
           /\ Whole(CopyPODArray(a, n))
           /\ CopyPODArray(a, n).nelem_ = a.nelem_
           /\ \A i \in 0..(a.nelem_ - 1) :
                  CopyPODArray(a, n).elements_[i] = a.elements_[i]
<1>1. a.nelem_ \in Nat /\ a.nelem_ < n /\ a.nelem_ <= a.allocatedSize_
  BY DEF IsPODArray, CopyPODFits
<1>2. \A i \in 0..(n - 1) :
        CopyPODArray(a, n).elements_[i] = IF i < a.nelem_ THEN a.elements_[i] ELSE Junk
  BY DEF CopyPODArray
<1>3. IsPODArray(CopyPODArray(a, n))
  BY <1>1 DEF IsPODArray, CopyPODArray
<1>4. CopyPODArray(a, n).nelem_ = a.nelem_
  BY DEF CopyPODArray
<1> QED BY <1>1, <1>2, <1>3, <1>4 DEF Whole

(* Storing in the next slot leaves the counted ones alone. *)
LEMMA StoreIsBehindCount ==
    ASSUME NEW a, NEW v \in Value \union {Junk}, IsPODArray(a), Whole(a), ~full(a)
    PROVE  /\ IsPODArray(WithValue(a, v))
           /\ Whole(WithValue(a, v))
           /\ WithValue(a, v).nelem_ = a.nelem_
           /\ WithValue(a, v).allocatedSize_ = a.allocatedSize_
           /\ WithValue(a, v).elements_[a.nelem_] = v
           /\ \A i \in 0..(a.nelem_ - 1) :
                  WithValue(a, v).elements_[i] = a.elements_[i]
<1>1. a.nelem_ \in Nat /\ a.allocatedSize_ \in Nat /\ a.nelem_ < a.allocatedSize_
  BY DEF IsPODArray, full
<1>2. WithValue(a, v) = [nelem_ |-> a.nelem_, allocatedSize_ |-> a.allocatedSize_,
                         elements_ |-> [a.elements_ EXCEPT ![a.nelem_] = v]]
  <2>1. a = [nelem_ |-> a.nelem_, allocatedSize_ |-> a.allocatedSize_,
             elements_ |-> a.elements_]
    BY DEF IsPODArray
  <2> QED BY <2>1 DEF WithValue, NextSlot
<1>3. /\ WithValue(a, v).elements_[a.nelem_] = v
      /\ \A i \in 0..(a.nelem_ - 1) : WithValue(a, v).elements_[i] = a.elements_[i]
  BY <1>1, <1>2 DEF IsPODArray
<1>4. IsPODArray(WithValue(a, v))
  BY <1>1, <1>2 DEF IsPODArray
<1> QED BY <1>2, <1>3, <1>4 DEF Whole

(* The count takes in the next slot. *)
LEMMA CountTakesNext ==
    ASSUME NEW a, IsPODArray(a), Whole(a), ~full(a), a.elements_[a.nelem_] # Junk
    PROVE  /\ IsPODArray(Incremented(a))
           /\ Whole(Incremented(a))
           /\ Incremented(a).nelem_ = a.nelem_ + 1
           /\ Incremented(a).elements_ = a.elements_
<1>1. a.nelem_ \in Nat /\ a.allocatedSize_ \in Nat /\ a.nelem_ < a.allocatedSize_
  BY DEF IsPODArray, full
<1>2. Incremented(a) = [nelem_ |-> a.nelem_ + 1, allocatedSize_ |-> a.allocatedSize_,
                        elements_ |-> a.elements_]
  BY DEF Incremented, IsPODArray
<1>3. IsPODArray(Incremented(a))
  BY <1>1, <1>2 DEF IsPODArray
<1>4. Whole(Incremented(a))
  BY <1>1, <1>2 DEF Whole
<1> QED BY <1>2, <1>3, <1>4

-----------------------------------------------------------------------------
(***************************************************************************)
(* The inductive invariant.                                                *)
(***************************************************************************)

(* No array counts a slot nobody finished writing. *)
Wholes == \A b \in Block : Whole(heap[b])

(* The vector's array, and the one being replaced, are allocated. *)
Pointers == /\ vec # Null => vec \in used
            /\ old # Null => old \in used /\ old # vec

(* Where a call can stand. *)
Control ==
    /\ pc = "idle" <=> op.name = "none"
    /\ pc = "idle" => op = PODNoOp
    /\ op.name = "push_back" => op.value \in Value
    /\ op.name = "resize" => op.value = Null
    /\ pc = "reserve" => vec = Null
    /\ pc \in {"size", "grow", "release", "store", "write", "count", "return"} => vec # Null
    /\ pc \in {"size", "store", "write", "count", "return"} => op.name = "push_back"
    /\ pc = "release" <=> old # Null
    /\ pc \in {"write", "count"} => ~full(PODArray)
    /\ pc = "count" => PODArray.elements_[PODArray.nelem_] = op.value

Core == PODTypeOK /\ Wholes /\ Pointers /\ Control

(* A new vector satisfies the invariant. *)
LEMMA CoreInit == PODInit => Core
<1> SUFFICES ASSUME PODInit PROVE Core
  OBVIOUS
<1>1. IsPODArray(NewPODArray(0)) /\ Whole(NewPODArray(0))
  BY NewPODArrayIsWhole
<1>2. PODTypeOK
  BY <1>1, PODBoundsAssumption DEF PODInit, PODTypeOK, PODNoOp
<1>3. Wholes /\ Pointers /\ Control
  BY <1>1 DEF PODInit, Wholes, Pointers, Control, PODNoOp
<1> QED BY <1>2, <1>3 DEF Core

(* The array of a vector that is not null. *)
LEMMA ArrayIsWhole ==
    ASSUME Core, vec # Null
    PROVE  /\ vec \in used /\ vec \in Block
           /\ IsPODArray(PODArray) /\ Whole(PODArray)
           /\ PODArray.nelem_ \in Nat
BY DEF Core, PODTypeOK, Wholes, Pointers, PODArray, IsPODArray

(* A step that writes one array with a good one leaves only good arrays. *)
LEMMA HeapWith ==
    ASSUME Core, NEW b \in Block, NEW a, IsPODArray(a), Whole(a),
           heap' = [heap EXCEPT ![b] = a]
    PROVE  /\ DOMAIN heap' = Block
           /\ \A c \in Block : IsPODArray(heap'[c])
           /\ Wholes'
           /\ heap'[b] = a
           /\ \A c \in Block \ {b} : heap'[c] = heap[c]
<1>1. heap'[b] = a /\ \A c \in Block \ {b} : heap'[c] = heap[c]
  BY DEF Core, PODTypeOK
<1>2. DOMAIN heap' = Block /\ \A c \in Block : IsPODArray(heap'[c])
  BY <1>1 DEF Core, PODTypeOK
<1>3. Wholes'
  BY <1>1 DEF Core, Wholes
<1> QED BY <1>1, <1>2, <1>3

(* Every step of a call, and a death in the middle of one, keeps it. *)
LEMMA CoreNext == Core /\ [PODNext]_podVars => Core'
<1> SUFFICES ASSUME Core, [PODNext]_podVars PROVE Core'
  OBVIOUS
<1>1. ASSUME NEW v \in Value, PODPushBack(v) PROVE Core'
  <2>1. PODTypeOK' /\ Wholes' /\ Pointers'
    BY <1>1 DEF PODPushBack, Core, PODTypeOK, Wholes, Pointers
  <2>2. Control'
    BY <1>1 DEF PODPushBack, Core, Control, PODNoOp
  <2> QED BY <2>1, <2>2 DEF Core
<1>2. ASSUME NEW n \in ResizeSizes, PODResize(n) PROVE Core'
  <2>1. PODTypeOK' /\ Wholes' /\ Pointers'
    BY <1>2, PODSizesAssumption DEF PODResize, Core, PODTypeOK, Wholes, Pointers
  <2>2. Control'
    BY <1>2 DEF PODResize, Core, Control, PODNoOp
  <2> QED BY <2>1, <2>2 DEF Core
<1>3. CASE PODReserve
  <2>1. PICK b \in Block \ used : /\ vec' = b
                                 /\ used' = used \union {b}
                                 /\ heap' = [heap EXCEPT ![b] = NewPODArray(op.size)]
    BY <1>3 DEF PODReserve
  <2>2. IsPODArray(NewPODArray(op.size)) /\ Whole(NewPODArray(op.size))
    BY NewPODArrayIsWhole DEF Core, PODTypeOK
  <2>3. /\ DOMAIN heap' = Block
        /\ \A c \in Block : IsPODArray(heap'[c])
        /\ Wholes'
    BY <2>1, <2>2, HeapWith
  <2>4. PODTypeOK'
    BY <1>3, <2>1, <2>3 DEF PODReserve, PODFinish, PODNoOp, Core, PODTypeOK
  <2>5. Pointers' /\ Control'
    BY <1>3, <2>1, PODNullAssumption
    DEF PODReserve, PODFinish, PODNoOp, Core, Pointers, Control, PODTypeOK
  <2> QED BY <2>3, <2>4, <2>5 DEF Core
<1>4. CASE PODAllocationFails
  <2>1. PODTypeOK' /\ Wholes' /\ Pointers'
    BY <1>4 DEF PODAllocationFails, PODFinish, PODNoOp, PODErrors, Core, PODTypeOK, Wholes, Pointers
  <2>2. Control'
    BY <1>4 DEF PODAllocationFails, PODFinish, PODNoOp, Core, Control
  <2> QED BY <2>1, <2>2 DEF Core
<1>5. CASE PODCheckFull
  <2>1. PODArray.nelem_ \in Nat
    BY <1>5, ArrayIsWhole DEF PODCheckFull, Core, Control
  <2>2. PODTypeOK' /\ Wholes' /\ Pointers'
    BY <1>5, <2>1 DEF PODCheckFull, Core, PODTypeOK, Wholes, Pointers
  <2>3. Control'
    BY <1>5 DEF PODCheckFull, Core, Control, PODTypeOK
  <2> QED BY <2>2, <2>3 DEF Core
<1>6. CASE PODReplace
  <2>1. vec # Null /\ vec \in used /\ IsPODArray(PODArray) /\ Whole(PODArray)
    BY <1>6, ArrayIsWhole DEF PODReplace, Core, Control
  <2>2. PICK b \in Block \ used :
          /\ vec' = b
          /\ used' = used \union {b}
          /\ heap' = [heap EXCEPT ![b] = CopyPODArray(PODArray, op.size)]
    BY <1>6 DEF PODReplace
  <2>3. IsPODArray(CopyPODArray(PODArray, op.size)) /\ Whole(CopyPODArray(PODArray, op.size))
    BY <1>6, <2>1, CopyIsWhole DEF PODReplace, Core, PODTypeOK
  <2>4. PODTypeOK' /\ Wholes'
    BY <1>6, <2>1, <2>2, <2>3, HeapWith DEF PODReplace, Core, PODTypeOK
  <2>5. Pointers' /\ Control'
    BY <1>6, <2>1, <2>2, PODNullAssumption DEF PODReplace, Core, Pointers, Control, PODTypeOK
  <2> QED BY <2>4, <2>5 DEF Core
<1>7. CASE PODReplaceRejected
  <2>1. PODTypeOK' /\ Wholes' /\ Pointers'
    BY <1>7 DEF PODReplaceRejected, PODFinish, PODNoOp, PODErrors, Core, PODTypeOK, Wholes, Pointers
  <2>2. Control'
    BY <1>7 DEF PODReplaceRejected, PODFinish, PODNoOp, Core, Control
  <2> QED BY <2>1, <2>2 DEF Core
<1>8. CASE PODRelease
  <2>1. old \in used /\ old # vec /\ vec \in used /\ old \in Block
    BY <1>8 DEF PODRelease, Core, Pointers, Control, PODTypeOK
  <2>2. IsPODArray(NewPODArray(0)) /\ Whole(NewPODArray(0))
    BY NewPODArrayIsWhole
  <2>3. /\ DOMAIN heap' = Block
        /\ \A c \in Block : IsPODArray(heap'[c])
        /\ Wholes'
    BY <1>8, <2>1, <2>2, HeapWith DEF PODRelease
  <2>4. PODTypeOK'
    BY <1>8, <2>1, <2>3 DEF PODRelease, PODFinish, PODNoOp, Core, PODTypeOK
  <2>5. Pointers' /\ Control'
    BY <1>8, <2>1 DEF PODRelease, PODFinish, PODNoOp, Core, Pointers, Control, PODTypeOK
  <2> QED BY <2>3, <2>4, <2>5 DEF Core
<1>9. CASE PODBeginStore
  <2>1. vec # Null /\ vec \in Block /\ IsPODArray(PODArray) /\ Whole(PODArray)
    BY <1>9, ArrayIsWhole DEF PODBeginStore, Core, Control
  <2>2. CASE full(PODArray)
    <3>1. PODTypeOK' /\ Wholes' /\ Pointers'
      BY <1>9, <2>2 DEF PODBeginStore, PODFinish, PODNoOp, PODErrors, Core, PODTypeOK, Wholes, Pointers
    <3>2. Control'
      BY <1>9, <2>2 DEF PODBeginStore, PODFinish, PODNoOp, Core, Control
    <3> QED BY <3>1, <3>2 DEF Core
  <2>3. CASE ~full(PODArray)
    <3> DEFINE W == WithValue(PODArray, Junk)
    <3>1. heap' = [heap EXCEPT ![vec] = W] /\ pc' = "write" /\ UNCHANGED <<op, reply>>
      BY <1>9, <2>3 DEF PODBeginStore
    <3>2. /\ IsPODArray(W) /\ Whole(W)
          /\ W.nelem_ = PODArray.nelem_ /\ W.allocatedSize_ = PODArray.allocatedSize_
      BY <2>1, <2>3, StoreIsBehindCount
    <3> HIDE DEF W
    <3>3. PODTypeOK' /\ Wholes'
      BY <1>9, <2>1, <3>1, <3>2, HeapWith DEF PODBeginStore, Core, PODTypeOK
    <3>4. PODArray' = W
      BY <1>9, <2>1, <3>1, <3>2, HeapWith DEF PODBeginStore, PODArray
    <3>5. Pointers' /\ Control'
      BY <1>9, <2>1, <2>3, <3>1, <3>2, <3>4 DEF PODBeginStore, Core, Pointers, Control, full
    <3> QED BY <3>3, <3>5 DEF Core
  <2> QED BY <2>2, <2>3
<1>10. CASE PODEndStore
  <2>1. /\ vec # Null /\ vec \in Block /\ IsPODArray(PODArray) /\ Whole(PODArray)
        /\ ~full(PODArray) /\ op.value \in Value
    BY <1>10, ArrayIsWhole DEF PODEndStore, Core, Control
  <2> DEFINE W == WithValue(PODArray, op.value)
  <2>2. heap' = [heap EXCEPT ![vec] = W]
    BY <1>10 DEF PODEndStore
  <2>3. /\ IsPODArray(W) /\ Whole(W)
        /\ W.nelem_ = PODArray.nelem_ /\ W.allocatedSize_ = PODArray.allocatedSize_
        /\ W.elements_[PODArray.nelem_] = op.value
    BY <2>1, StoreIsBehindCount
  <2> HIDE DEF W
  <2>4. PODTypeOK' /\ Wholes'
    BY <1>10, <2>1, <2>2, <2>3, HeapWith DEF PODEndStore, Core, PODTypeOK
  <2>5. PODArray' = W
    BY <1>10, <2>1, <2>2, <2>3, HeapWith DEF PODEndStore, PODArray
  <2>6. Pointers' /\ Control'
    BY <1>10, <2>1, <2>3, <2>5 DEF PODEndStore, Core, Pointers, Control, full
  <2> QED BY <2>4, <2>6 DEF Core
<1>11. CASE PODCount
  <2>1. /\ vec # Null /\ vec \in Block /\ IsPODArray(PODArray) /\ Whole(PODArray)
        /\ ~full(PODArray) /\ PODArray.elements_[PODArray.nelem_] # Junk
    BY <1>11, ArrayIsWhole, PODNullAssumption DEF PODCount, Core, Control
  <2>2. IsPODArray(Incremented(PODArray)) /\ Whole(Incremented(PODArray))
    BY <2>1, CountTakesNext
  <2>3. PODTypeOK' /\ Wholes'
    BY <1>11, <2>1, <2>2, HeapWith DEF PODCount, Core, PODTypeOK
  <2>4. Pointers' /\ Control'
    BY <1>11 DEF PODCount, Core, Pointers, Control
  <2> QED BY <2>3, <2>4 DEF Core
<1>12. CASE PODReturn
  <2>1. PODTypeOK' /\ Wholes' /\ Pointers'
    BY <1>12 DEF PODReturn, PODFinish, PODNoOp, Core, PODTypeOK, Wholes, Pointers
  <2>2. Control'
    BY <1>12 DEF PODReturn, PODFinish, PODNoOp, Core, Control
  <2> QED BY <2>1, <2>2 DEF Core
<1>13. CASE PODFree
  <2>1. vec \in used /\ vec \in Block
    BY <1>13, ArrayIsWhole DEF PODFree
  <2>2. IsPODArray(NewPODArray(0)) /\ Whole(NewPODArray(0))
    BY NewPODArrayIsWhole
  <2>3. PODTypeOK' /\ Wholes'
    BY <1>13, <2>1, <2>2, HeapWith DEF PODFree, Core, PODTypeOK
  <2>4. Pointers' /\ Control'
    BY <1>13 DEF PODFree, Core, Pointers, Control
  <2> QED BY <2>3, <2>4 DEF Core
<1>14. CASE PODRestart
  <2>1. PODTypeOK' /\ Wholes'
    BY <1>14, PODBoundsAssumption DEF PODRestart, PODNoOp, Core, PODTypeOK, Wholes
  <2>2. Pointers' /\ Control'
    BY <1>14 DEF PODRestart, PODNoOp, Core, Pointers, Control
  <2> QED BY <2>1, <2>2 DEF Core
<1>15. CASE UNCHANGED podVars
  <2>1. PODTypeOK' /\ Wholes' /\ Pointers'
    BY <1>15 DEF podVars, Core, PODTypeOK, Wholes, Pointers
  <2>2. Control'
    BY <1>15 DEF podVars, Core, Control, PODArray
  <2> QED BY <2>1, <2>2 DEF Core
<1> QED BY <1>1, <1>2, <1>3, <1>4, <1>5, <1>6, <1>7, <1>8, <1>9, <1>10, <1>11, <1>12,
           <1>13, <1>14, <1>15 DEF PODNext

(* The invariant holds in every run of the vector. *)
THEOREM PODCoreInvariant == PODSpec => []Core
BY CoreInit, CoreNext, PTL DEF PODSpec

(* In every run, at every instant of it, no allocated array counts a slot  *)
(* that nobody finished writing (push_back stores, then counts; the        *)
(* copying constructor copies only what is counted).                       *)
THEOREM CountedAreWhole == PODSpec => []CountedValuesAreWhole
<1>1. Core => CountedValuesAreWhole
  BY DEF Core, PODTypeOK, Wholes, Whole, CountedValuesAreWhole
<1> QED BY <1>1, PODCoreInvariant, PTL

-----------------------------------------------------------------------------
(***************************************************************************)
(* The vector is an append-only log.                                       *)
(***************************************************************************)

(* The log is the counted values. *)
LEMMA ContentOfArray ==
    ASSUME Core, vec # Null
    PROVE  /\ PODContent \in Seq(Value)
           /\ Len(PODContent) = PODArray.nelem_
           /\ DOMAIN PODContent = 1..PODArray.nelem_
           /\ PODContent = [i \in 1..PODArray.nelem_ |-> PODArray.elements_[i - 1]]
<1>1. IsPODArray(PODArray) /\ Whole(PODArray) /\ PODArray.nelem_ \in Nat
  BY ArrayIsWhole
<1>2. \A i \in 1..PODArray.nelem_ : PODArray.elements_[i - 1] \in Value
  BY <1>1 DEF IsPODArray, Whole
<1> QED BY <1>1, <1>2 DEF PODContent

(* Arrays that count the same values show the same log. *)
LEMMA SameCounted ==
    ASSUME Core, vec # Null, vec' # Null,
           PODArray'.nelem_ = PODArray.nelem_,
           \A i \in 0..(PODArray.nelem_ - 1) : PODArray'.elements_[i] = PODArray.elements_[i]
    PROVE  PODContent' = PODContent
<1>1. PODArray.nelem_ \in Nat
  BY ArrayIsWhole
<1>2. \A i \in 1..PODArray.nelem_ : PODArray'.elements_[i - 1] = PODArray.elements_[i - 1]
  BY <1>1
<1>3. PODContent' = [i \in 1..PODArray'.nelem_ |-> PODArray'.elements_[i - 1]]
  BY DEF PODContent
<1> QED BY <1>2, <1>3 DEF PODContent

(* ++nelem_ is the instant at which the value joins the log. *)
LEMMA CountAppends == Core /\ PODCount => PODContent' = Append(PODContent, op.value)
<1> SUFFICES ASSUME Core, PODCount PROVE PODContent' = Append(PODContent, op.value)
  OBVIOUS
<1> DEFINE n == PODArray.nelem_
<1>1. /\ vec # Null /\ vec \in Block /\ IsPODArray(PODArray) /\ Whole(PODArray) /\ n \in Nat
      /\ ~full(PODArray) /\ op.value \in Value /\ PODArray.elements_[n] = op.value
  BY ArrayIsWhole DEF PODCount, Core, Control
<1>2. /\ Incremented(PODArray).nelem_ = n + 1
      /\ Incremented(PODArray).elements_ = PODArray.elements_
  BY <1>1, CountTakesNext, PODNullAssumption
<1>3. PODArray' = Incremented(PODArray)
  BY <1>1 DEF PODCount, PODArray, Core, PODTypeOK
<1>4. PODContent' = [i \in 1..(n + 1) |-> PODArray.elements_[i - 1]]
  BY <1>1, <1>2, <1>3 DEF PODContent, PODCount
<1>5. /\ PODContent \in Seq(Value) /\ Len(PODContent) = n
      /\ PODContent = [i \in 1..n |-> PODArray.elements_[i - 1]]
  BY <1>1, ContentOfArray
<1> HIDE DEF n
<1>6. Append(PODContent, op.value) =
        [i \in 1..(n + 1) |-> IF i <= n THEN PODContent[i] ELSE op.value]
  BY <1>1, <1>5
<1>7. ASSUME NEW i \in 1..(n + 1)
      PROVE  PODArray.elements_[i - 1] = IF i <= n THEN PODContent[i] ELSE op.value
  <2>1. CASE i <= n
    BY <1>1, <1>5, <2>1
  <2>2. CASE ~(i <= n)
    <3>1. i - 1 = n
      BY <1>1, <2>2
    <3> QED BY <1>1, <2>2, <3>1
  <2> QED BY <2>1, <2>2
<1> QED BY <1>4, <1>6, <1>7

(* No step of a call but ++nelem_ changes the log, nor does a death. *)
LEMMA ContentKept ==
    Core /\ [PODNext]_podVars /\ ~PODCount /\ ~PODFree => PODContent' = PODContent
<1> SUFFICES ASSUME Core, [PODNext]_podVars, ~PODCount, ~PODFree
             PROVE  PODContent' = PODContent
  OBVIOUS
<1>1. CASE PODReserve
  <2>1. PICK b \in Block \ used : vec' = b /\ heap' = [heap EXCEPT ![b] = NewPODArray(op.size)]
    BY <1>1 DEF PODReserve
  <2>2. vec = Null /\ vec' # Null /\ PODArray'.nelem_ = 0
    BY <1>1, <2>1, PODNullAssumption DEF PODReserve, Core, Control, PODTypeOK, PODArray, NewPODArray
  <2> QED BY <2>2 DEF PODContent
<1>2. CASE PODReplace
  <2>1. /\ vec # Null /\ vec \in used /\ IsPODArray(PODArray) /\ Whole(PODArray)
        /\ op.size \in Nat /\ CopyPODFits(PODArray, op.size)
    BY <1>2, ArrayIsWhole DEF PODReplace, Core, Control, PODTypeOK
  <2>2. PICK b \in Block \ used :
          vec' = b /\ heap' = [heap EXCEPT ![b] = CopyPODArray(PODArray, op.size)]
    BY <1>2 DEF PODReplace
  <2>3. vec' # Null /\ PODArray' = CopyPODArray(PODArray, op.size)
    BY <2>2, PODNullAssumption DEF PODArray, Core, PODTypeOK
  <2> QED BY <2>1, <2>3, CopyIsWhole, SameCounted
<1>3. CASE PODRelease
  <2>1. old # vec /\ vec' = vec /\ vec \in Block
    BY <1>3, ArrayIsWhole DEF PODRelease, Core, Control, Pointers
  <2>2. PODArray' = PODArray
    BY <1>3, <2>1 DEF PODRelease, PODArray, Core, PODTypeOK
  <2> QED BY <2>1, <2>2 DEF PODContent
<1>4. CASE PODBeginStore /\ ~full(PODArray)
  <2>1. vec # Null /\ vec \in Block /\ IsPODArray(PODArray) /\ Whole(PODArray)
    BY <1>4, ArrayIsWhole DEF PODBeginStore, Core, Control
  <2>2. vec' = vec /\ PODArray' = WithValue(PODArray, Junk)
    BY <1>4, <2>1 DEF PODBeginStore, PODArray, Core, PODTypeOK
  <2> QED BY <1>4, <2>1, <2>2, StoreIsBehindCount, SameCounted
<1>5. CASE PODEndStore
  <2>1. /\ vec # Null /\ vec \in Block /\ IsPODArray(PODArray) /\ Whole(PODArray)
        /\ ~full(PODArray) /\ op.value \in Value
    BY <1>5, ArrayIsWhole DEF PODEndStore, Core, Control
  <2>2. vec' = vec /\ PODArray' = WithValue(PODArray, op.value)
    BY <1>5, <2>1 DEF PODEndStore, PODArray, Core, PODTypeOK
  <2> QED BY <2>1, <2>2, StoreIsBehindCount, SameCounted
<1>6. CASE UNCHANGED <<vec, heap>>
  BY <1>6 DEF PODContent, PODArray
<1> QED
  BY <1>1, <1>2, <1>3, <1>4, <1>5, <1>6
  DEF PODNext, podVars, PODPushBack, PODResize, PODAllocationFails, PODCheckFull,
      PODReplaceRejected, PODBeginStore, PODReturn, PODRestart

(* A new vector is an empty log. *)
LEMMA PODRefinementInit == PODInit => PODAbstract!Init
BY DEF PODInit, PODAbstract!Init, PODContent, PODAbstractStatus, PODAbstractReply, PODNoOp,
       PODErrors

(* Every step of the vector is a step of the log, or leaves it alone. *)
LEMMA PODRefinementNext ==
    Core /\ [PODNext]_podVars => [PODAbstract!Next]_(PODAbstract!vars)
<1> SUFFICES ASSUME Core, [PODNext]_podVars
             PROVE  PODAbstract!Next \/ UNCHANGED PODAbstract!vars
  OBVIOUS
<1> USE DEF PODAbstractStatus, PODAbstractReply, PODErrors, PODNoOp
<1>1. ~PODCount /\ ~PODFree => PODContent' = PODContent
  BY ContentKept
<1>2. ASSUME PODFinish("ok"), op.name = "resize", PODContent' = PODContent
      PROVE  PODAbstract!Maintain
  BY <1>2 DEF PODFinish, PODAbstract!Maintain, Core, Control
<1>3. ASSUME NEW r \in PODErrors, PODFinish(r), pc \notin {"idle", "return"},
             PODContent' = PODContent
      PROVE  PODAbstract!Throw \/ PODAbstract!Maintain
  <2>1. CASE op.name = "push_back"
    BY <1>3, <2>1 DEF PODFinish, PODAbstract!Throw
  <2>2. CASE op.name = "resize"
    BY <1>3, <2>2 DEF PODFinish, PODAbstract!Maintain, Core, Control
  <2> QED BY <1>3, <2>1, <2>2 DEF Core, Control, PODTypeOK
<1>4. ASSUME op'.name = op.name, op'.value = op.value, reply' = reply,
             pc # "return", pc' # "return", PODContent' = PODContent
      PROVE  UNCHANGED PODAbstract!vars
  BY <1>4 DEF PODAbstract!vars
<1>5. ASSUME NEW v \in Value, PODPushBack(v) PROVE PODAbstract!Call(v)
  <2>1. ~PODCount /\ ~PODFree
    BY <1>5 DEF PODPushBack, PODCount, PODFree, Core, PODTypeOK, Control
  <2> QED BY <1>1, <1>5, <2>1 DEF PODPushBack, PODAbstract!Call, Core, Control
<1>6. ASSUME NEW n \in ResizeSizes, PODResize(n) PROVE PODAbstract!Maintain
  <2>1. ~PODCount /\ ~PODFree
    BY <1>6 DEF PODResize, PODCount, PODFree
  <2> QED BY <1>1, <1>6, <2>1 DEF PODResize, PODAbstract!Maintain, Core, Control
<1>7. CASE PODReserve
  <2>1. ~PODCount /\ ~PODFree
    BY <1>7 DEF PODReserve, PODCount, PODFree
  <2> QED BY <1>1, <1>2, <1>4, <1>7, <2>1 DEF PODReserve, PODAbstract!Next
<1>8. CASE PODAllocationFails \/ PODReplaceRejected
  <2>1. ~PODCount /\ ~PODFree
    BY <1>8 DEF PODAllocationFails, PODReplaceRejected, PODCount, PODFree
  <2> QED BY <1>1, <1>3, <1>8, <2>1 DEF PODAllocationFails, PODReplaceRejected, PODAbstract!Next
<1>9. CASE PODCheckFull
  <2>1. ~PODCount /\ ~PODFree
    BY <1>9 DEF PODCheckFull, PODCount, PODFree
  <2>2. op'.name = op.name /\ op'.value = op.value
    BY <1>9 DEF PODCheckFull, Core, PODTypeOK
  <2> QED BY <1>1, <1>4, <1>9, <2>1, <2>2 DEF PODCheckFull
<1>10. CASE PODReplace
  <2>1. ~PODCount /\ ~PODFree
    BY <1>10 DEF PODReplace, PODCount, PODFree
  <2> QED BY <1>1, <1>4, <1>10, <2>1 DEF PODReplace
<1>11. CASE PODRelease
  <2>1. ~PODCount /\ ~PODFree
    BY <1>11 DEF PODRelease, PODCount, PODFree
  <2> QED BY <1>1, <1>2, <1>4, <1>11, <2>1 DEF PODRelease, PODAbstract!Next
<1>12. CASE PODBeginStore
  <2>1. ~PODCount /\ ~PODFree
    BY <1>12 DEF PODBeginStore, PODCount, PODFree
  <2> QED BY <1>1, <1>3, <1>4, <1>12, <2>1 DEF PODBeginStore, PODAbstract!Next
<1>13. CASE PODEndStore
  <2>1. ~PODCount /\ ~PODFree
    BY <1>13 DEF PODEndStore, PODCount, PODFree
  <2> QED BY <1>1, <1>4, <1>13, <2>1 DEF PODEndStore
<1>14. CASE PODCount
  BY <1>14, CountAppends DEF PODCount, PODAbstract!Store, PODAbstract!Next, Core, Control
<1>15. CASE PODReturn
  <2>1. ~PODCount /\ ~PODFree
    BY <1>15 DEF PODReturn, PODCount, PODFree
  <2> QED BY <1>1, <1>15, <2>1
          DEF PODReturn, PODFinish, PODAbstract!Return, PODAbstract!Next, Core, Control
<1>16. CASE PODFree
  BY <1>16 DEF PODFree, PODContent, PODAbstract!Free, PODAbstract!Next, Core, Control
<1>17. CASE PODRestart
  <2>1. PODContent' = PODContent
    BY <1>17 DEF PODRestart, PODContent, PODArray
  <2> QED BY <1>17, <2>1 DEF PODRestart, PODAbstract!Restart, PODAbstract!Next
<1>18. CASE UNCHANGED podVars
  BY <1>18 DEF podVars, PODAbstract!vars, PODContent, PODArray
<1> QED BY <1>5, <1>6, <1>7, <1>8, <1>9, <1>10, <1>11, <1>12, <1>13, <1>14, <1>15, <1>16,
           <1>17, <1>18 DEF PODNext, PODAbstract!Next

(* Every run of the vector of values, with its growth, its exceptions and  *)
(* the deaths that cut a value in two, is a run of the append-only log: a  *)
(* value is in it from ++nelem_ on, and never half.                        *)
THEOREM PODRefinement == PODSpec => PODImplementsAppendOnlyVector
<1>1. PODInit => PODAbstract!Init
  BY PODRefinementInit
<1>2. Core /\ [PODNext]_podVars => [PODAbstract!Next]_(PODAbstract!vars)
  BY PODRefinementNext
<1> QED BY <1>1, <1>2, PODCoreInvariant, PTL
        DEF PODSpec, PODAbstract!Spec, PODImplementsAppendOnlyVector

-----------------------------------------------------------------------------
(***************************************************************************)
(* Second part: buffers, strings and arrays.  What the functors ask for,   *)
(* what the allocator gives.                                               *)
(***************************************************************************)


(* A multiple of the modulus makes no difference. *)
LEMMA Remainder ==
    ASSUME NEW w \in Nat \ {0}, NEW q \in Int, NEW r \in 0..(w - 1)
    PROVE  (w * q + r) % w = r
<1>1. PICK a \in Int : a = w * q + r
  OBVIOUS
<1>2. PICK m \in Int : m = a % w
  OBVIOUS
<1>3. PICK d \in Int : d = a \div w
  OBVIOUS
<1>4. a = w * d + m /\ m \in 0..(w - 1)
  BY <1>2, <1>3
<1>5. PICK k \in Int : k = q - d
  OBVIOUS
<1>6. w * k = m - r
  <2>1. w * (q - d) = w * q - w * d
    OBVIOUS
  <2> QED BY <1>1, <1>4, <1>5, <2>1
<1>7. k >= 1 => w * k >= w
  OBVIOUS
<1>8. k <= -1 => w * k <= -w
  OBVIOUS
<1>9. k = 0
  BY <1>4, <1>6, <1>7, <1>8
<1> QED BY <1>1, <1>2, <1>4, <1>6, <1>9

(* The allocator gives at least what it is asked for. *)
LEMMA RoundUpFacts ==
    ASSUME NEW n \in Nat
    PROVE  /\ RoundUp(n) \in Nat /\ RoundUp(n) >= n
           /\ n >= 1 => RoundUp(n) >= 4
<1>1. PICK g \in Nat \ {0} : g = Granule
  BY SizesAssumption
<1>2. PICK x \in Nat : x = n + g - 1
  OBVIOUS
<1>3. PICK q \in Int : q = x \div g
  OBVIOUS
<1>4. g * q <= x /\ x < g * q + g
  BY <1>3
<1>5. q >= 0
  BY <1>3
<1>6. q * g = g * q /\ q * g >= 0
  BY <1>5
<1>7. RoundUp(n) = q * g
  BY <1>1, <1>2, <1>3 DEF RoundUp
<1>8. n >= 1 => q >= 1
  BY <1>2, <1>3
<1>9. q >= 1 => q * g >= g
  OBVIOUS
<1>10. g >= 4
  BY <1>1, BlocksAssumption
<1> QED BY <1>2, <1>4, <1>6, <1>7, <1>8, <1>9, <1>10

(* A text is a sequence of characters that is not too long. *)
LEMMA TextFacts ==
    ASSUME NEW str \in Texts
    PROVE  /\ str \in Seq(Char \union {Nul})
           /\ Len(str) \in 0..MaxText
           /\ DOMAIN str = 1..Len(str)
<1>1. PICK n \in 0..MaxText : str \in [1..n -> Char \union {Nul}]
  BY DEF Texts
<1>2. n \in Nat
  BY SizesAssumption
<1> QED BY <1>1, <1>2

(* The functors ask for what the constructors write: nothing that fits     *)
(* into memory wraps around, but the size of an array of no elements,      *)
(* which wraps around twice and is right (PersistentVector.h).             *)
LEMMA SizeFacts ==
    /\ \A n \in 0..MaxText : data_size(n) = n + 1 /\ data_size(n + 1) = n + 2
    /\ \A n \in 0..MaxArray : vector_data_size(n) = 2 * n + 2
    /\ sizeof.PersistentVectorData = 4
<1>1. PICK w \in Nat \ {0} : w = Width
  BY SizesAssumption
<1>2. MaxText \in Nat /\ MaxArray \in Nat /\ MaxText + 2 < w /\ 2 * MaxArray + 2 < w
  BY <1>1, SizesAssumption
<1>3. sizeof.PersistentVectorData = 4 /\ sizeof.PersistentBuffer = 1
  BY DEF sizeof
<1>4. \A m \in 0..(w - 1) : m % w = m
  OBVIOUS
<1>5. ASSUME NEW n \in 0..MaxText PROVE data_size(n) = n + 1 /\ data_size(n + 1) = n + 2
  <2>1. n + 1 \in 0..(w - 1) /\ n + 2 \in 0..(w - 1) /\ 1 + (n + 1) = n + 2 /\ 1 + n = n + 1
    BY <1>2
  <2> QED BY <1>1, <1>3, <1>4, <2>1 DEF data_size
<1>6. ASSUME NEW n \in 1..MaxArray PROVE vector_data_size(n) = 2 * n + 2
  <2>1. /\ n - 1 \in 0..(w - 1) /\ 2 * n + 2 \in 0..(w - 1)
        /\ 4 + (n - 1) * 2 = 2 * n + 2
    BY <1>2
  <2>2. (n - 1) % w = n - 1
    BY <1>4, <2>1
  <2> QED BY <1>1, <1>3, <1>4, <2>1, <2>2 DEF vector_data_size
<1>7. vector_data_size(0) = 2
  <2>1. 2 \in 0..(w - 1) /\ w * (-1) + (w - 1) = 0 - 1 /\ w - 1 \in 0..(w - 1) /\ -1 \in Int
    BY <1>2
  <2>2. (0 - 1) % w = w - 1
    BY <2>1, Remainder
  <2>3. 4 + (w - 1) * 2 = w * 2 + 2
    OBVIOUS
  <2>4. (w * 2 + 2) % w = 2
    BY <2>1, Remainder
  <2> QED BY <1>1, <1>3, <2>2, <2>3, <2>4 DEF vector_data_size
<1>8. \A n \in 0..MaxArray : n = 0 \/ n \in 1..MaxArray
  BY <1>2
<1> QED BY <1>3, <1>5, <1>6, <1>7, <1>8

(* One sequence after the other. *)
LEMMA Joined ==
    ASSUME NEW S, NEW s \in Seq(S), NEW t \in Seq(S)
    PROVE  /\ s \o t \in Seq(S)
           /\ Len(s \o t) = Len(s) + Len(t)
           /\ \A j \in 1..Len(s) : (s \o t)[j] = s[j]
           /\ \A j \in 1..Len(t) : (s \o t)[Len(s) + j] = t[j]
OBVIOUS

-----------------------------------------------------------------------------
(* An array's two words of bookkeeping before its elements. *)
LEMMA HeadedBy ==
    ASSUME NEW S, NEW two \in Seq(S), Len(two) = 2, NEW data \in Seq(S)
    PROVE  /\ two \o data \in Seq(S)
           /\ Len(two \o data) = Len(data) + 2
           /\ (two \o data)[1] = two[1]
           /\ (two \o data)[2] = two[2]
<1>1. two \o data \in Seq(S) /\ Len(two \o data) = Len(two) + Len(data)
  BY Joined
<1>2. \A j \in 1..Len(two) : (two \o data)[j] = two[j]
  BY Joined
<1>3. 1 \in 1..Len(two) /\ 2 \in 1..Len(two) /\ Len(data) \in Nat
  OBVIOUS
<1>4. (two \o data)[1] = two[1] /\ (two \o data)[2] = two[2]
  BY <1>2, <1>3
<1> QED BY <1>1, <1>3, <1>4

-----------------------------------------------------------------------------
(***************************************************************************)
(* The inductive invariant.                                                *)
(***************************************************************************)
Word == Char \union {Nul, Unwritten} \union Nat
Object == [kind : {"PersistentBuffer", "PersistentString", "PersistentVectorData"},
           at : Cell, asked : Nat, room : Nat, stored : Seq(Word)]

(* What the constructors of an array and of a string leave, and push_back  *)
(* keeps.                                                                  *)
IsArray(cells) == /\ cells[2] \in Nat /\ Len(cells) = 2 * Constructed(cells[2]) + 2
                  /\ cells[1] \in 0..cells[2]
IsText(cells) == \E str \in Texts : cells = <<Len(str) + 1>> \o Append(str, Nul)
RightFor(kind, cells) == /\ kind = "PersistentVectorData" => IsArray(cells)
                         /\ kind = "PersistentString" => IsText(cells)

(* What a functor asks for.                                                *)
Asks(kind, cells) == IF kind = "PersistentVectorData" /\ cells[2] = 0
                     THEN Len(cells) - 2 ELSE Len(cells)

(* An object has a place of its own, large enough, and holds its contents. *)
Fits(o) == /\ Len(o.stored) >= 1
           /\ o.asked = Asks(o.kind, o.stored)
           /\ o.room = RoundUp(o.asked) /\ Len(o.stored) <= o.room
           /\ o.at + o.room <= PoolCells
Holds(o) == \A n \in 1..Len(o.stored) : mem[o.at + n - 1] = o.stored[n]
Apart(o, p) == o.at + o.room <= p.at \/ p.at + p.room <= o.at

Inv == /\ mem \in [Cell -> Word]
       /\ objects \subseteq Object
       /\ \A o \in objects : Fits(o) /\ Holds(o) /\ RightFor(o.kind, o.stored)
       /\ \A o, p \in objects : o # p => Apart(o, p)

(* The cells of an object. *)
LEMMA ObjectFacts ==
    ASSUME NEW o \in Object, Fits(o)
    PROVE  /\ o.at \in Nat /\ o.room \in Nat /\ o.stored \in Seq(Word)
           /\ Len(o.stored) \in Nat /\ Len(o.stored) <= o.room /\ o.room >= 1
           /\ DOMAIN o.stored = 1..Len(o.stored)
           /\ PoolCells \in Nat
           /\ \A n \in 1..Len(o.stored) : /\ o.at + n - 1 \in Cell
                                          /\ o.at + n - 1 \in o.at..(o.at + o.room - 1)
<1>1. /\ o.at \in Cell /\ o.room \in Nat /\ o.stored \in Seq(Word)
      /\ PoolCells \in Nat
  BY SizesAssumption DEF Object
<1>2. Len(o.stored) \in Nat /\ DOMAIN o.stored = 1..Len(o.stored)
  BY <1>1
<1>3. o.room >= Len(o.stored)
  BY DEF Fits
<1>4. o.at \in Nat /\ o.room >= 1
  BY <1>1, <1>2, <1>3 DEF Cell, Fits
<1>5. ASSUME NEW n \in 1..Len(o.stored)
      PROVE  o.at + n - 1 \in Cell /\ o.at + n - 1 \in o.at..(o.at + o.room - 1)
  BY <1>1, <1>2, <1>3, <1>4 DEF Cell, Fits
<1> QED BY <1>1, <1>2, <1>3, <1>4, <1>5

(* Two places that share no cell lie one after the other. *)
LEMMA ApartIsDisjoint ==
    ASSUME NEW a \in Nat, NEW r \in Nat, NEW b \in Nat, NEW s \in Nat, r >= 1, s >= 1
    PROVE  (a..(a + r - 1)) \cap (b..(b + s - 1)) = {} <=> (a + r <= b \/ b + s <= a)
<1>1. ASSUME a + r <= b \/ b + s <= a PROVE (a..(a + r - 1)) \cap (b..(b + s - 1)) = {}
  BY <1>1
<1>2. ASSUME ~(a + r <= b \/ b + s <= a) PROVE (a..(a + r - 1)) \cap (b..(b + s - 1)) # {}
  <2>1. CASE a <= b
    <3>1. b \in a..(a + r - 1) /\ b \in b..(b + s - 1)
      BY <1>2, <2>1
    <3> QED BY <3>1
  <2>2. CASE ~(a <= b)
    <3>1. a \in a..(a + r - 1) /\ a \in b..(b + s - 1)
      BY <1>2, <2>2
    <3> QED BY <3>1
  <2> QED BY <2>1, <2>2
<1> QED BY <1>1, <1>2

(* What an allocation and its constructor do. *)
LEMMA AllocatedKeeps ==
    ASSUME Inv, NEW at \in Cell,
           NEW kind \in {"PersistentBuffer", "PersistentString", "PersistentVectorData"},
           NEW cells \in Seq(Word), Len(cells) >= 1, RightFor(kind, cells),
           NEW size_ \in Nat, size_ = Asks(kind, cells), Len(cells) <= RoundUp(size_),
           Allocated(at, kind, size_, cells)
    PROVE  Inv'
<1> DEFINE new == [kind |-> kind, at |-> at, asked |-> size_, room |-> RoundUp(size_),
                   stored |-> cells]
<1>1. PICK o : o = new
  OBVIOUS
<1>2. /\ o.kind = kind /\ o.at = at /\ o.asked = size_ /\ o.room = RoundUp(size_)
      /\ o.stored = cells
  BY <1>1
<1>3. /\ at \in Places(RoundUp(size_))
      /\ mem' = Written(at, cells)
      /\ objects' = objects \union {o}
  BY <1>1 DEF Allocated
<1>4. o \in Object /\ Fits(o)
  <2>1. RoundUp(size_) \in Nat
    BY RoundUpFacts
  <2>2. at + RoundUp(size_) <= PoolCells
    BY <1>3 DEF Places
  <2>3. o \in Object
    BY <1>1, <2>1 DEF Object
  <2> QED BY <1>2, <2>2, <2>3 DEF Fits
<1>5. \A p \in objects : p \in Object /\ Fits(p) /\ Holds(p) /\ RightFor(p.kind, p.stored)
  BY DEF Inv
<1>6. ASSUME NEW p \in objects
      PROVE  /\ Apart(o, p) /\ Apart(p, o)
             /\ (o.at..(o.at + o.room - 1)) \cap (p.at..(p.at + p.room - 1)) = {}
  <2>1. (o.at..(o.at + o.room - 1)) \cap Taken = {}
    BY <1>2, <1>3 DEF Places
  <2>2. (o.at..(o.at + o.room - 1)) \cap (p.at..(p.at + p.room - 1)) = {}
    BY <2>1 DEF Taken
  <2>3. o.at + o.room <= p.at \/ p.at + p.room <= o.at
    BY <1>4, <1>5, <2>2, ObjectFacts, ApartIsDisjoint
  <2> QED BY <2>2, <2>3 DEF Apart
<1>7. mem \in [Cell -> Word] /\ Len(cells) \in Nat /\ DOMAIN cells = 1..Len(cells) /\ at \in Nat
  BY <1>2, <1>4, ObjectFacts DEF Inv
<1>8. \A c \in Cell : mem'[c] = IF c - at + 1 \in 1..Len(cells) THEN cells[c - at + 1] ELSE mem[c]
  BY <1>3, <1>7 DEF Written
<1>9. mem' \in [Cell -> Word]
  <2>1. \A n \in 1..Len(cells) : cells[n] \in Word
    BY <1>7
  <2>2. DOMAIN mem' = Cell /\ mem' = [c \in Cell |-> mem'[c]]
    BY <1>3 DEF Written
  <2> QED BY <1>7, <1>8, <2>1, <2>2
<1>10. \A n \in 1..Len(cells) : mem'[o.at + n - 1] = o.stored[n]
  <2> SUFFICES ASSUME NEW n \in 1..Len(cells) PROVE mem'[at + n - 1] = cells[n]
    BY <1>2
  <2>1. at + n - 1 \in Cell
    BY <1>2, <1>4, ObjectFacts
  <2>2. (at + n - 1) - at + 1 = n
    BY <1>7
  <2> QED BY <1>8, <2>1, <2>2
<1>11. ASSUME NEW p \in objects, NEW n \in 1..Len(p.stored)
       PROVE  mem'[p.at + n - 1] = p.stored[n]
  <2>1. PICK c : c = p.at + n - 1
    OBVIOUS
  <2>2. c \in Cell /\ c \in p.at..(p.at + p.room - 1) /\ mem[c] = p.stored[n]
    BY <1>5, <1>11, <2>1, ObjectFacts DEF Holds
  <2>3. c \notin o.at..(o.at + o.room - 1)
    BY <1>6, <2>2
  <2>4. o.room >= Len(cells) /\ o.room \in Nat
    BY <1>2, <1>4, ObjectFacts
  <2>5. c - at + 1 \notin 1..Len(cells)
    <3>1. c \in Nat
      BY <2>2, <1>5, ObjectFacts DEF Cell
    <3> QED BY <1>2, <1>7, <2>3, <2>4, <3>1
  <2> QED BY <1>8, <2>1, <2>2, <2>5
<1>12. \A p \in objects' : Fits(p)' /\ Holds(p)' /\ RightFor(p.kind, p.stored)'
  <2>1. \A p \in objects' : Holds(p)'
    BY <1>2, <1>3, <1>10, <1>11 DEF Holds
  <2>2. \A p \in objects' : Fits(p) /\ RightFor(p.kind, p.stored)
    BY <1>2, <1>3, <1>4, <1>5
  <2> QED BY <2>1, <2>2 DEF Fits, RoundUp, RightFor, IsArray, IsText, Texts, Asks
<1>13. \A p, q \in objects' : p # q => Apart(p, q)
  BY <1>3, <1>6 DEF Inv
<1>14. objects' \subseteq Object
  BY <1>3, <1>4, <1>5
<1> QED BY <1>9, <1>12, <1>13, <1>14 DEF Inv, Apart, Object, Word, Cell

(* An object that asks for all it writes. *)
LEMMA AllocatedInFull ==
    ASSUME Inv, NEW at \in Cell,
           NEW kind \in {"PersistentBuffer", "PersistentString", "PersistentVectorData"},
           NEW cells \in Seq(Word), Len(cells) >= 1, RightFor(kind, cells),
           Asks(kind, cells) = Len(cells), Allocated(at, kind, Len(cells), cells)
    PROVE  Inv'
<1>1. Len(cells) \in Nat
  OBVIOUS
<1>2. Len(cells) <= RoundUp(Len(cells))
  BY <1>1, RoundUpFacts
<1> QED BY <1>1, <1>2, AllocatedKeeps

(* The functors for a buffer, when the data is a const void*. *)
VoidPointers == BufferArgs \subseteq {"const void*, size_t"}

(* PersistentBuffer's constructor. *)
LEMMA BufferKept ==
    ASSUME Inv, VoidPointers, NEW at \in Cell, NEW args \in BufferArgs
    PROVE  /\ \A bytes \in Texts : AllocateBuffer(at, args, bytes) => Inv'
           /\ \A n \in 0..MaxText : AllocateBlank(at, args, n) => Inv'
<1>1. args = "const void*, size_t"
  BY DEF VoidPointers
<1>2. ASSUME NEW n \in Nat, n <= MaxText, NEW cells, NEW data \in Seq(Word),
             Len(data) = n, cells = <<n>> \o data,
             Allocated(at, "PersistentBuffer", buffer_size(args, n), cells)
      PROVE  Inv'
  <2>1. cells \in Seq(Word) /\ Len(cells) = n + 1
    <3>1. <<n>> \in Seq(Word)
      BY DEF Word
    <3> QED BY <1>2, <3>1
  <2>2. buffer_size(args, n) = Len(cells)
    <3>1. n \in 0..MaxText
      BY <1>2, SizesAssumption
    <3> QED BY <1>1, <2>1, <3>1, SizeFacts DEF buffer_size
  <2>3. RightFor("PersistentBuffer", cells) /\ Len(cells) >= 1
    BY <1>2, <2>1 DEF RightFor
  <2> QED BY <1>2, <2>1, <2>2, <2>3, AllocatedInFull DEF Asks
<1>3. ASSUME NEW bytes \in Texts, AllocateBuffer(at, args, bytes) PROVE Inv'
  <2>1. PICK n : n = Len(bytes)
    OBVIOUS
  <2>2. bytes \in Seq(Word) /\ n \in Nat /\ n <= MaxText
    BY <2>1, TextFacts, SizesAssumption DEF Word
  <2> QED BY <1>2, <1>3, <2>1, <2>2 DEF AllocateBuffer
<1>4. ASSUME NEW n \in 0..MaxText, AllocateBlank(at, args, n) PROVE Inv'
  <2>1. n \in Nat /\ n <= MaxText
    BY SizesAssumption
  <2>2. PICK data : data = [j \in 1..n |-> At(at + j)]
    OBVIOUS
  <2>3. \A c : At(c) \in Word
    BY DEF At, Inv, Word
  <2>4. data \in Seq(Word) /\ Len(data) = n
    BY <2>1, <2>2, <2>3
  <2> QED BY <1>2, <1>4, <2>1, <2>2, <2>4 DEF AllocateBlank
<1> QED BY <1>3, <1>4

(* PersistentString's constructor. *)
LEMMA StringKept ==
    ASSUME Inv, NEW at \in Cell, NEW str \in Texts, AllocateString(at, str)
    PROVE  Inv'
<1>1. /\ str \in Seq(Word) /\ Len(str) \in 0..MaxText /\ MaxText \in Nat
      /\ Nul \in Word
  BY TextFacts, SizesAssumption DEF Word
<1>2. PICK n \in Nat : n = Len(str)
  BY <1>1
<1>3. PICK cells : cells = <<Len(str) + 1>> \o Append(str, Nul)
  OBVIOUS
<1>4. Append(str, Nul) \in Seq(Word) /\ Len(Append(str, Nul)) = n + 1
  BY <1>1, <1>2
<1>5. cells \in Seq(Word) /\ Len(cells) = n + 2
  <2>1. <<Len(str) + 1>> \in Seq(Word)
    BY <1>2 DEF Word
  <2> QED BY <1>3, <1>4, <2>1
<1>6. string_size(str) = Len(cells)
  BY <1>1, <1>2, <1>5, SizeFacts DEF string_size
<1>7. RightFor("PersistentString", cells) /\ Len(cells) >= 1
  <2>1. IsText(cells)
    BY <1>3 DEF IsText
  <2>2. Len(cells) >= 1
    BY <1>2, <1>5
  <2> QED BY <2>1, <2>2 DEF RightFor
<1>8. Allocated(at, "PersistentString", Len(cells), cells)
  BY <1>3, <1>6 DEF AllocateString
<1> QED BY <1>5, <1>7, <1>8, AllocatedInFull DEF Asks

(* PersistentVectorData's constructors. *)
LEMMA ArrayKept ==
    ASSUME Inv, NEW at \in Cell, NEW args \in {"int", "size_t"}, NEW n \in 0..MaxArray,
           AllocateArray(at, args, n)
    PROVE  Inv'
<1>1. n \in Nat /\ (args = "int" => n = 1)
  BY SizesAssumption DEF AllocateArray
<1>2. PICK e \in Nat : e = Constructed(n)
  BY <1>1 DEF Constructed
<1>3. PICK data : data = [j \in 1..(2 * e) |-> 0]
  OBVIOUS
<1>4. data \in Seq(Word) /\ Len(data) = 2 * e
  BY <1>3 DEF Word
<1>5. PICK cells : cells = <<0, n>> \o data
  OBVIOUS
<1>6. cells \in Seq(Word) /\ Len(cells) = 2 * e + 2 /\ cells[1] = 0 /\ cells[2] = n
  <2>1. 0 \in Word /\ n \in Word
    BY <1>1 DEF Word
  <2>2. PICK two : two = <<0, n>>
    OBVIOUS
  <2>3. two \in Seq(Word) /\ Len(two) = 2 /\ two[1] = 0 /\ two[2] = n
    BY ONLY <2>1, <2>2
  <2>4. /\ two \o data \in Seq(Word) /\ Len(two \o data) = Len(data) + 2
        /\ (two \o data)[1] = two[1] /\ (two \o data)[2] = two[2]
    BY ONLY <1>4, <2>3, HeadedBy
  <2>5. cells = two \o data
    BY ONLY <1>5, <2>2
  <2> QED BY ONLY <1>4, <2>3, <2>4, <2>5
<1>7. RightFor("PersistentVectorData", cells) /\ Len(cells) >= 1
  BY <1>1, <1>2, <1>6 DEF RightFor, IsArray
<1>8. PICK size_ \in Nat : size_ = 2 * n + 2
  BY <1>1
<1>9. Allocated(at, "PersistentVectorData", size_, cells)
  <2>1. vector_data_size(n) = 2 * n + 2 /\ sizeof.PersistentVectorData = 4
    BY SizeFacts
  <2>2. array_size(args, n) = size_
    BY <1>1, <1>8, <2>1 DEF array_size
  <2> QED BY <1>2, <1>3, <1>5, <2>2 DEF AllocateArray
<1>10. size_ = Asks("PersistentVectorData", cells) /\ Len(cells) <= RoundUp(size_)
  <2>1. CASE n = 0
    BY <1>2, <1>6, <1>8, <2>1, RoundUpFacts DEF Asks, Constructed
  <2>2. CASE n # 0
    BY <1>2, <1>6, <1>8, <2>2, RoundUpFacts DEF Asks, Constructed
  <2> QED BY <2>1, <2>2
<1> QED BY <1>6, <1>7, <1>9, <1>10, AllocatedKeeps

(* The constructor of the larger array takes what the smaller one counts. *)
LEMMA CopyKept ==
    ASSUME Inv, NEW o \in objects, NEW at \in Cell, NEW n \in 1..MaxArray,
           CopyArray(at, o, n)
    PROVE  Inv'
<1>1. /\ o \in Object /\ Fits(o) /\ Holds(o) /\ IsArray(o.stored)
      /\ o.kind = "PersistentVectorData"
  BY DEF Inv, CopyArray, RightFor
<1>2. PICK k \in Nat : k = mem[o.at]
  <2>1. o.stored[1] \in Nat
    BY <1>1 DEF IsArray
  <2>2. 1 \in 1..Len(o.stored) /\ o.at + 1 - 1 = o.at
    BY <1>1, ObjectFacts DEF Fits
  <2> QED BY <1>1, <2>1, <2>2 DEF Holds
<1>3. n \in Nat /\ n >= 1 /\ n \in 0..MaxArray /\ k < n
  BY <1>2, SizesAssumption DEF CopyArray
<1>4. PICK data : data = [j \in 1..(2 * n) |-> IF j <= 2 * k THEN At(o.at + 1 + j) ELSE 0]
  OBVIOUS
<1>5. data \in Seq(Word) /\ Len(data) = 2 * n
  <2>1. 0 \in Word /\ \A c : At(c) \in Word
    BY DEF At, Inv, Word
  <2> QED BY <1>3, <1>4, <2>1
<1>6. PICK cells : cells = <<k, n>> \o data
  OBVIOUS
<1>7. cells \in Seq(Word) /\ Len(cells) = 2 * n + 2 /\ cells[1] = k /\ cells[2] = n
  <2>1. k \in Word /\ n \in Word
    BY <1>3 DEF Word
  <2>2. PICK two : two = <<k, n>>
    OBVIOUS
  <2>3. two \in Seq(Word) /\ Len(two) = 2 /\ two[1] = k /\ two[2] = n
    BY ONLY <2>1, <2>2
  <2>4. /\ two \o data \in Seq(Word) /\ Len(two \o data) = Len(data) + 2
        /\ (two \o data)[1] = two[1] /\ (two \o data)[2] = two[2]
    BY ONLY <1>5, <2>3, HeadedBy
  <2>5. cells = two \o data
    BY ONLY <1>6, <2>2
  <2> QED BY ONLY <1>5, <2>3, <2>4, <2>5
<1>8. RightFor("PersistentVectorData", cells) /\ Len(cells) >= 1
  BY <1>3, <1>7 DEF RightFor, IsArray, Constructed
<1>9. Asks("PersistentVectorData", cells) = Len(cells)
  BY <1>3, <1>7 DEF Asks
<1>10. Allocated(at, "PersistentVectorData", Len(cells), cells)
  <2>1. vector_data_size(n) = Len(cells)
    BY <1>3, <1>7, SizeFacts
  <2> QED BY <1>2, <1>4, <1>6, <2>1 DEF CopyArray
<1> QED BY <1>7, <1>8, <1>9, <1>10, AllocatedInFull

(* push_back stores the element inside the array, after those there are.   *)
LEMMA ElementKept ==
    ASSUME Inv, NEW o \in objects, StoreElement(o, 1)
    PROVE  Inv'
<1>1. /\ o \in Object /\ Fits(o) /\ Holds(o) /\ RightFor(o.kind, o.stored)
      /\ o.kind = "PersistentVectorData"
  BY DEF Inv, StoreElement
<1>2. PICK s : s = o.stored
  OBVIOUS
<1>3. PICK b \in Nat : b = o.at
  BY <1>1, ObjectFacts
<1>4. PICK len \in Nat : len = Len(s)
  BY <1>1, <1>2, ObjectFacts
<1>5. s \in Seq(Word) /\ IsArray(s) /\ DOMAIN s = 1..len
  BY <1>1, <1>2, <1>4, ObjectFacts DEF RightFor
<1>6. PICK n \in Nat : n = s[1]
  BY <1>5 DEF IsArray
<1>7. PICK m \in Nat : m = s[2]
  BY <1>5 DEF IsArray
<1>8. len = 2 * Constructed(m) + 2 /\ Constructed(m) \in Nat \ {0} /\ Constructed(m) >= m
  BY <1>4, <1>5, <1>7 DEF IsArray, Constructed
<1>9. \A j \in 1..len : b + j - 1 \in Cell /\ mem[b + j - 1] = s[j]
  BY <1>1, <1>2, <1>3, <1>4, ObjectFacts DEF Holds
<1>10. mem[b] = n /\ mem[b + 1] = m /\ b \in Cell
  <2>1. 1 \in 1..len /\ 2 \in 1..len /\ b + 1 - 1 = b /\ b + 2 - 1 = b + 1
    BY <1>8
  <2> QED BY <1>6, <1>7, <1>9, <2>1
<1>11. n < m
  BY <1>3, <1>10 DEF StoreElement
<1>12. PICK t : t = [s EXCEPT ![1] = n + 1, ![3 + 2 * n] = 1, ![4 + 2 * n] = 1]
  OBVIOUS
<1>13. PICK q : q = [o EXCEPT !.stored = t]
  OBVIOUS
<1>14. /\ mem' = [Written(b + 2 + 2 * n, <<1, 1>>) EXCEPT ![b] = n + 1]
       /\ objects' = (objects \ {o}) \union {q}
  BY <1>2, <1>3, <1>10, <1>12, <1>13 DEF StoreElement
<1>15. /\ 3 + 2 * n \in 1..len /\ 4 + 2 * n \in 1..len /\ 1 \in 1..len /\ 2 \in 1..len
       /\ 3 + 2 * n # 1 /\ 4 + 2 * n # 1 /\ 3 + 2 * n # 2 /\ 4 + 2 * n # 2
  BY <1>8, <1>11
<1>16. /\ t \in Seq(Word) /\ Len(t) = len
       /\ \A j \in 1..len : t[j] = IF j = 1 THEN n + 1
                                   ELSE IF j \in {3 + 2 * n, 4 + 2 * n} THEN 1 ELSE s[j]
  <2>1. n + 1 \in Word /\ 1 \in Word
    BY DEF Word
  <2>2. DOMAIN t = 1..len
    BY <1>5, <1>12
  <2>3. \A j \in 1..len : t[j] = IF j = 1 THEN n + 1
                                 ELSE IF j \in {3 + 2 * n, 4 + 2 * n} THEN 1 ELSE s[j]
    <3>1. PICK t1 : t1 = [s EXCEPT ![1] = n + 1]
      OBVIOUS
    <3>2. PICK t2 : t2 = [t1 EXCEPT ![3 + 2 * n] = 1]
      OBVIOUS
    <3>3. t = [t2 EXCEPT ![4 + 2 * n] = 1]
      BY <1>12, <3>1, <3>2
    <3>4. /\ DOMAIN t1 = 1..len
          /\ \A j \in 1..len : t1[j] = IF j = 1 THEN n + 1 ELSE s[j]
      BY <1>5, <3>1
    <3>5. /\ DOMAIN t2 = 1..len
          /\ \A j \in 1..len : t2[j] = IF j = 3 + 2 * n THEN 1 ELSE t1[j]
      BY <3>2, <3>4
    <3>6. \A j \in 1..len : t[j] = IF j = 4 + 2 * n THEN 1 ELSE t2[j]
      BY <3>3, <3>5
    <3> QED BY <1>15, <3>4, <3>5, <3>6
  <2>4. \A j \in 1..len : s[j] \in Word
    BY <1>4, <1>5
  <2>5. \A j \in 1..len : t[j] \in Word
    BY <2>1, <2>3, <2>4
  <2>6. t \in [1..len -> Word]
    <3>1. t = [j \in 1..len |-> t[j]]
      BY <1>5, <1>12
    <3> QED BY <2>5, <3>1
  <2>7. t \in Seq(Word) /\ Len(t) = len
    BY <1>4, <2>2, <2>6
  <2> QED BY <2>3, <2>7
<1>17. IsArray(t)
  <2>1. t[1] = n + 1 /\ t[2] = m
    BY <1>7, <1>15, <1>16
  <2>2. Len(t) = 2 * Constructed(m) + 2 /\ n + 1 \in 0..m
    BY <1>8, <1>11, <1>16
  <2> QED BY <2>1, <2>2 DEF IsArray
<1>18. /\ q \in Object /\ q.kind = o.kind /\ q.at = o.at /\ q.asked = o.asked
       /\ q.room = o.room /\ q.stored = t
  BY <1>1, <1>13, <1>16 DEF Object
<1>19. Fits(q) /\ RightFor(q.kind, q.stored)
  <2>1. t[2] = s[2] /\ Len(t) = Len(s)
    BY <1>4, <1>15, <1>16
  <2>2. Asks(q.kind, q.stored) = Asks(o.kind, o.stored)
    BY <1>2, <1>18, <2>1 DEF Asks
  <2> QED BY <1>1, <1>2, <1>17, <1>18, <2>1, <2>2 DEF Fits, RightFor
<1>20. \A c \in Cell : mem'[c] = IF c = b THEN n + 1
                                 ELSE IF c \in {b + 2 + 2 * n, b + 3 + 2 * n} THEN 1 ELSE mem[c]
  <2>1. PICK w : w = Written(b + 2 + 2 * n, <<1, 1>>)
    OBVIOUS
  <2>2. DOMAIN <<1, 1>> = 1..2 /\ <<1, 1>>[1] = 1 /\ <<1, 1>>[2] = 1
    OBVIOUS
  <2>3. DOMAIN w = Cell
    BY <2>1 DEF Written
  <2>4. ASSUME NEW c \in Cell
        PROVE  w[c] = IF c \in {b + 2 + 2 * n, b + 3 + 2 * n} THEN 1 ELSE mem[c]
    <3>1. c \in Int
      BY SizesAssumption DEF Cell
    <3>2. PICK j \in Int : j = c - (b + 2 + 2 * n) + 1
      BY <3>1
    <3>3. w[c] = IF j \in 1..2 THEN <<1, 1>>[j] ELSE mem[c]
      BY <2>1, <2>2, <3>2 DEF Written
    <3>4. j \in 1..2 => j = 1 \/ j = 2
      OBVIOUS
    <3>5. j \in 1..2 <=> c \in {b + 2 + 2 * n, b + 3 + 2 * n}
      BY <3>1, <3>2
    <3> QED BY <2>2, <3>3, <3>4, <3>5
  <2> QED BY <1>14, <2>1, <2>3, <2>4
<1>21. mem' \in [Cell -> Word]
  <2>1. DOMAIN mem' = Cell /\ mem' = [c \in Cell |-> mem'[c]]
    BY <1>14 DEF Written
  <2>2. mem \in [Cell -> Word] /\ n + 1 \in Word /\ 1 \in Word
    BY DEF Inv, Word
  <2> QED BY <1>20, <2>1, <2>2
<1>22. \A j \in 1..len : mem'[b + j - 1] = t[j]
  <2> SUFFICES ASSUME NEW j \in 1..len PROVE mem'[b + j - 1] = t[j]
    OBVIOUS
  <2>1. b + j - 1 \in Cell /\ mem[b + j - 1] = s[j]
    BY <1>9
  <2>2. /\ b + j - 1 = b <=> j = 1
        /\ b + j - 1 = b + 2 + 2 * n <=> j = 3 + 2 * n
        /\ b + j - 1 = b + 3 + 2 * n <=> j = 4 + 2 * n
    OBVIOUS
  <2> QED BY <1>16, <1>20, <2>1, <2>2
<1>23. \A p \in objects : p # o => p \in Object /\ Fits(p) /\ Apart(o, p) /\ Apart(p, o)
  BY DEF Inv
<1>24. ASSUME NEW p \in objects, p # o, NEW j \in 1..Len(p.stored)
       PROVE  mem'[p.at + j - 1] = p.stored[j]
  <2>1. PICK c : c = p.at + j - 1
    OBVIOUS
  <2>2. c \in Cell /\ c \in p.at..(p.at + p.room - 1) /\ mem[c] = p.stored[j]
    BY <1>23, <1>24, <2>1, ObjectFacts DEF Inv, Holds
  <2>3. (b..(b + o.room - 1)) \cap (p.at..(p.at + p.room - 1)) = {}
    BY <1>1, <1>3, <1>23, <1>24, ObjectFacts, ApartIsDisjoint DEF Apart
  <2>4. len <= o.room /\ o.room \in Nat
    BY <1>1, <1>2, <1>4, ObjectFacts
  <2>5. /\ b \in b..(b + o.room - 1)
        /\ b + 2 + 2 * n \in b..(b + o.room - 1)
        /\ b + 3 + 2 * n \in b..(b + o.room - 1)
    BY <1>15, <2>4
  <2> QED BY <1>20, <2>1, <2>2, <2>3, <2>5
<1>25. \A p \in objects' : Holds(p)'
  <2>1. Holds(q)'
    BY <1>3, <1>16, <1>18, <1>22 DEF Holds
  <2> QED BY <1>14, <1>24, <2>1 DEF Holds
<1>26. \A p \in objects' : p \in Object /\ Fits(p) /\ RightFor(p.kind, p.stored)
  BY <1>14, <1>18, <1>19 DEF Inv
<1>27. \A p, r \in objects' : p # r => Apart(p, r)
  <2>1. \A p \in objects : p # o => Apart(q, p) /\ Apart(p, q)
    BY <1>18, <1>23 DEF Apart
  <2> QED BY <1>14, <2>1 DEF Inv
<1> QED BY <1>21, <1>25, <1>26, <1>27
        DEF Inv, Fits, Apart, RightFor, IsArray, IsText, RoundUp, Asks, Texts, Object, Word, Cell

(* A block that is freed is nobody's. *)
LEMMA FreeKept ==
    ASSUME Inv, NEW o \in objects, Free(o)
    PROVE  Inv'
<1>1. /\ objects' = objects \ {o}
      /\ mem' = [c \in Cell |-> IF c \in o.at..(o.at + o.room - 1) THEN Unwritten ELSE mem[c]]
  BY DEF Free
<1>2. \A p \in objects : p \in Object /\ Fits(p) /\ Holds(p) /\ RightFor(p.kind, p.stored)
  BY DEF Inv
<1>3. mem' \in [Cell -> Word]
  <2>1. mem \in [Cell -> Word] /\ Unwritten \in Word
    BY DEF Inv, Word
  <2> QED BY <1>1, <2>1
<1>4. ASSUME NEW p \in objects', NEW j \in 1..Len(p.stored)
      PROVE  mem'[p.at + j - 1] = p.stored[j]
  <2>1. p \in objects /\ p # o
    BY <1>1
  <2>2. Apart(o, p)
    BY <2>1 DEF Inv
  <2>3. (o.at..(o.at + o.room - 1)) \cap (p.at..(p.at + p.room - 1)) = {}
    BY <1>2, <2>1, <2>2, ObjectFacts, ApartIsDisjoint DEF Apart
  <2>4. PICK c : c = p.at + j - 1
    OBVIOUS
  <2>5. c \in Cell /\ c \in p.at..(p.at + p.room - 1) /\ mem[c] = p.stored[j]
    BY <1>2, <1>4, <2>1, <2>4, ObjectFacts DEF Holds
  <2> QED BY <1>1, <2>3, <2>4, <2>5
<1>5. \A p \in objects' : Holds(p)'
  BY <1>4 DEF Holds
<1>6. /\ \A p \in objects' : p \in Object /\ Fits(p) /\ RightFor(p.kind, p.stored)
      /\ \A p, r \in objects' : p # r => Apart(p, r)
  BY <1>1, <1>2 DEF Inv
<1> QED BY <1>3, <1>5, <1>6
        DEF Inv, Fits, Apart, RightFor, IsArray, IsText, RoundUp, Asks, Texts, Object, Word, Cell

(* Every object lies in a place of its own that is large enough, and holds *)
(* what was stored in it (PersistentBuffer, PersistentString,              *)
(* PersistentVectorData and their functors).                               *)
THEOREM BuffersInvariant ==
    ASSUME BufferArgs \subseteq {"const void*, size_t"}
    PROVE  Spec => []Inv
<1>1. Init => Inv
  BY DEF Init, Inv, Word
<1>2. Inv /\ [Next]_vars => Inv'
  <2> SUFFICES ASSUME Inv, [Next]_vars PROVE Inv'
    OBVIOUS
  <2>1. VoidPointers
    BY DEF VoidPointers
  <2>2. CASE UNCHANGED vars
    BY <2>2 DEF vars, Inv, Fits, Holds, Apart, RightFor, IsArray, IsText, RoundUp, Asks,
                Texts, Object, Word, Cell
  <2>3. CASE \E at \in Cell : \E args \in BufferArgs :
                 \/ \E bytes \in Texts : AllocateBuffer(at, args, bytes)
                 \/ \E n \in 0..MaxText : AllocateBlank(at, args, n)
    BY <2>1, <2>3, BufferKept
  <2>4. CASE \E at \in Cell, str \in Texts : AllocateString(at, str)
    BY <2>4, StringKept
  <2>5. CASE \E at \in Cell, args \in {"int", "size_t"}, n \in 0..MaxArray :
                 AllocateArray(at, args, n)
    BY <2>5, ArrayKept
  <2>6. CASE \E o \in objects : StoreElement(o, 1) \/ Free(o)
    BY <2>6, ElementKept, FreeKept
  <2>7. CASE \E o \in objects, at \in Cell, n \in 1..MaxArray : CopyArray(at, o, n)
    BY <2>7, CopyKept
  <2> QED BY <2>2, <2>3, <2>4, <2>5, <2>6, <2>7 DEF Next
<1> QED BY <1>1, <1>2, PTL DEF Spec

(* An array never holds more elements than it was made for. *)
LEMMA CountFits ==
    ASSUME Inv, NEW o \in objects, o.kind = "PersistentVectorData"
    PROVE  mem[o.at] <= mem[o.at + 1]
<1>1. o \in Object /\ Fits(o) /\ Holds(o) /\ IsArray(o.stored)
  BY DEF Inv, RightFor
<1>2. PICK cells : cells = o.stored
  OBVIOUS
<1>3. PICK m \in Nat : m = cells[2]
  BY <1>1, <1>2 DEF IsArray
<1>4. PICK n \in Nat : n = cells[1]
  <2>1. cells[1] \in 0..m
    BY <1>1, <1>2, <1>3 DEF IsArray
  <2> QED BY <2>1
<1>5. Len(cells) \in Nat /\ Len(cells) >= 2 /\ n <= m
  <2>1. n <= m
    BY <1>1, <1>2, <1>3, <1>4 DEF IsArray
  <2>2. PICK e \in Nat : e = Constructed(m)
    BY DEF Constructed
  <2>3. Len(cells) = 2 * e + 2
    BY <1>1, <1>2, <1>3, <2>2 DEF IsArray
  <2> QED BY <2>1, <2>3
<1>6. PICK b \in Nat : b = o.at
  BY <1>1, ObjectFacts
<1>7. \A j \in 1..Len(cells) : mem[b + j - 1] = cells[j]
  BY <1>1, <1>2, <1>5, <1>6 DEF Holds
<1>8. 1 \in 1..Len(cells) /\ 2 \in 1..Len(cells) /\ b + 1 - 1 = b /\ b + 2 - 1 = b + 1
  BY <1>5
<1>9. mem[b] = n /\ mem[b + 1] = m
  BY <1>3, <1>4, <1>7, <1>8
<1> QED BY <1>5, <1>6, <1>9

(* A functor asks for what its constructor writes, but that of an array of *)
(* no elements, which asks for one element less; the objects lie in the    *)
(* pool, one beside the other.  Buffers are made from a const void*.       *)
THEOREM FunctorsAskForWhatIsWritten ==
    ASSUME BufferArgs \subseteq {"const void*, size_t"}
    PROVE  Spec => []AsksForWhatItWrites
<1>1. ASSUME Inv PROVE AsksForWhatItWrites
  <2>1. mem \in [Cell -> Char \union {Nul, Unwritten} \union Nat]
    BY <1>1 DEF Inv, Word
  <2>2. ASSUME NEW o \in objects
        PROVE  /\ o.kind \in DOMAIN sizeof
               /\ o.at \in Cell /\ o.at + o.room <= PoolCells
               /\ \A p \in objects \ {o} : \/ o.at + o.room <= p.at
                                           \/ p.at + p.room <= o.at
               /\ o.kind = "PersistentVectorData" => mem[o.at] <= mem[o.at + 1]
               /\ Len(o.stored) = IF IsEmptyArray(o) THEN o.asked + 2 ELSE o.asked
    <3>1. o \in Object /\ Fits(o) /\ Holds(o) /\ RightFor(o.kind, o.stored)
      BY <1>1 DEF Inv
    <3>2. o.kind \in DOMAIN sizeof /\ o.at \in Cell
      BY <3>1 DEF Object, sizeof
    <3>3. o.kind = "PersistentVectorData" => mem[o.at] <= mem[o.at + 1]
      BY <1>1, CountFits
    <3>4. \A p \in objects \ {o} : \/ o.at + o.room <= p.at
                                   \/ p.at + p.room <= o.at
      BY <1>1 DEF Inv, Apart
    <3>5. Len(o.stored) = IF IsEmptyArray(o) THEN o.asked + 2 ELSE o.asked
      <4>1. PICK l \in Nat : l = Len(o.stored)
        BY <3>1, ObjectFacts
      <4>2. o.asked = IF IsEmptyArray(o) THEN l - 2 ELSE l
        BY <3>1, <4>1 DEF Fits, Asks, IsEmptyArray
      <4>3. l - 2 + 2 = l
        BY ONLY l \in Nat
      <4> QED BY ONLY <4>1, <4>2, <4>3
    <3> QED BY <3>1, <3>2, <3>3, <3>4, <3>5 DEF Fits
  <2> QED BY <2>1, <2>2 DEF AsksForWhatItWrites, TypeOK
<1> QED BY <1>1, BuffersInvariant, PTL

(* test_persistent_buffer.cc: an object holds what was stored in it,       *)
(* whatever is made, filled, copied and freed around it, where buffers are *)
(* made from a const void* and the smallest block holds an array of one    *)
(* element (BlocksAssumption).                                             *)
THEOREM ContentsStayIntact ==
    ASSUME BufferArgs \subseteq {"const void*, size_t"}
    PROVE  Spec => []ContentsIntact
<1>1. ASSUME Inv PROVE ContentsIntact
  <2>1. \A o \in objects : Holds(o) /\ DOMAIN o.stored = 1..Len(o.stored)
    BY <1>1, ObjectFacts DEF Inv
  <2> QED BY <2>1 DEF ContentsIntact, Holds
<1> QED BY <1>1, BuffersInvariant, PTL

-----------------------------------------------------------------------------
(***************************************************************************)
(* Reading a string back.                                                  *)
(***************************************************************************)

(* What the pool holds of a string. *)
LEMMA StringFacts ==
    ASSUME Inv, NEW s \in Strings
    PROVE  \E str \in Texts :
              /\ TextOf(s) = str /\ size(s) = Len(str)
              /\ \A j \in 1..Len(str) : At(s.at + j) = str[j]
              /\ At(s.at + Len(str) + 1) = Nul
              /\ Len(str) \in 0..PoolCells /\ Len(str) \in Nat
              /\ DOMAIN str = 1..Len(str) /\ str = [j \in 1..Len(str) |-> str[j]]
<1>1. s \in Object /\ Fits(s) /\ Holds(s) /\ IsText(s.stored)
  BY DEF Strings, Inv, RightFor
<1>2. PICK str \in Texts : s.stored = <<Len(str) + 1>> \o Append(str, Nul)
  BY <1>1 DEF IsText
<1>3. PICK n \in Nat : n = Len(str)
  BY TextFacts, SizesAssumption
<1>4. PICK b \in Nat : b = s.at
  BY <1>1, ObjectFacts
<1>5. /\ str \in Seq(Word) /\ DOMAIN str = 1..n
      /\ <<n + 1>> \in Seq(Word) /\ Nul \in Word
  BY <1>3, TextFacts DEF Word
<1>6. /\ Append(str, Nul) \in Seq(Word) /\ Len(Append(str, Nul)) = n + 1
      /\ \A j \in 1..n : Append(str, Nul)[j] = str[j]
      /\ Append(str, Nul)[n + 1] = Nul
  BY <1>3, <1>5
<1>7. PICK cells : cells = s.stored
  OBVIOUS
<1>8. /\ cells \in Seq(Word) /\ Len(cells) = n + 2 /\ cells[1] = n + 1
      /\ \A j \in 1..n : cells[j + 1] = str[j]
      /\ cells[n + 2] = Nul
  <2>1. PICK one : one = <<n + 1>>
    OBVIOUS
  <2>2. PICK rest : rest = Append(str, Nul)
    OBVIOUS
  <2>3. one \in Seq(Word) /\ Len(one) = 1 /\ one[1] = n + 1 /\ rest \in Seq(Word)
    BY <1>5, <1>6, <2>1, <2>2
  <2>4. cells = one \o rest
    BY <1>2, <1>3, <1>7, <2>1, <2>2
  <2>5. /\ one \o rest \in Seq(Word) /\ Len(one \o rest) = Len(one) + Len(rest)
        /\ \A j \in 1..Len(one) : (one \o rest)[j] = one[j]
        /\ \A j \in 1..Len(rest) : (one \o rest)[Len(one) + j] = rest[j]
    <3>1. one \o rest \in Seq(Word) /\ Len(one \o rest) = Len(one) + Len(rest)
      BY ONLY <2>3, Joined
    <3>2. \A j \in 1..Len(one) : (one \o rest)[j] = one[j]
      BY ONLY <2>3, Joined
    <3>3. \A j \in 1..Len(rest) : (one \o rest)[Len(one) + j] = rest[j]
      BY ONLY <2>3, Joined
    <3> QED BY ONLY <3>1, <3>2, <3>3
  <2>6. Len(rest) = n + 1
    BY <1>6, <2>2
  <2>7. /\ \A j \in 1..n : j \in 1..(n + 1) /\ 1 + j = j + 1
        /\ n + 1 \in 1..(n + 1) /\ 1 + (n + 1) = n + 2
        /\ 1 \in 1..1
    OBVIOUS
  <2>8. \A j \in 1..(n + 1) : cells[1 + j] = rest[j]
    BY <2>3, <2>4, <2>5, <2>6
  <2>9. cells[1] = n + 1
    BY <2>3, <2>4, <2>5, <2>7
  <2> QED BY <1>6, <2>2, <2>3, <2>4, <2>5, <2>6, <2>7, <2>8, <2>9
<1>9. \A j \in 1..(n + 2) : b + j - 1 \in Cell /\ mem[b + j - 1] = cells[j]
  BY <1>1, <1>4, <1>7, <1>8, ObjectFacts DEF Holds
<1>10. size(s) = n
  <2>1. 1 \in 1..(n + 2) /\ b + 1 - 1 = b
    OBVIOUS
  <2>2. mem[b] = n + 1
    BY <1>8, <1>9, <2>1
  <2> QED BY <1>4, <2>2 DEF size, buffer_length
<1>11. \A j \in 1..(n + 1) : At(s.at + j) = cells[j + 1]
  <2>1. \A j \in 1..(n + 1) : j + 1 \in 1..(n + 2) /\ b + (j + 1) - 1 = b + j
    OBVIOUS
  <2> QED BY <1>4, <1>9, <2>1 DEF At
<1>12. TextOf(s) = str
  <2>1. TextOf(s) = SubSeq(cells, 2, n + 1)
    BY <1>7, <1>8 DEF TextOf
  <2>2. SubSeq(cells, 2, n + 1) = [j \in 1..n |-> cells[j + 1]]
    BY <1>8
  <2>3. str = [j \in 1..n |-> str[j]]
    BY <1>5
  <2> QED BY <1>8, <2>1, <2>2, <2>3
<1>13. n \in 0..PoolCells
  <2>1. Len(cells) <= s.room /\ s.at + s.room <= PoolCells /\ s.room \in Nat /\ PoolCells \in Nat
    BY <1>1, <1>7, ObjectFacts DEF Fits
  <2> QED BY <1>4, <1>8, <2>1
<1>14. /\ \A j \in 1..n : At(s.at + j) = str[j]
       /\ At(s.at + n + 1) = Nul
  <2>1. n + 1 \in 1..(n + 1) /\ (n + 1) + 1 = n + 2 /\ b + n + 1 = b + (n + 1)
    OBVIOUS
  <2>2. \A j \in 1..n : j \in 1..(n + 1)
    OBVIOUS
  <2>3. At(s.at + (n + 1)) = Nul
    BY <1>8, <1>11, <2>1
  <2> QED BY <1>4, <1>8, <1>11, <2>1, <2>2, <2>3
<1>15. str = [j \in 1..n |-> str[j]]
  BY <1>5
<1> QED BY <1>3, <1>5, <1>10, <1>12, <1>13, <1>14, <1>15

(* C finds the text of a string that has no null inside. *)
LEMMA TextReadBack ==
    ASSUME Inv, NEW s \in Strings, Printable(TextOf(s))
    PROVE  c_str(s) = TextOf(s)
<1>1. PICK str \in Texts :
          /\ TextOf(s) = str /\ size(s) = Len(str)
          /\ \A j \in 1..Len(str) : At(s.at + j) = str[j]
          /\ At(s.at + Len(str) + 1) = Nul
          /\ Len(str) \in 0..PoolCells
  BY StringFacts
<1>2. PICK n \in Nat : n = Len(str)
  BY TextFacts, SizesAssumption
<1>3. DOMAIN str = 1..n /\ PoolCells \in Nat /\ n <= PoolCells
  BY <1>1, <1>2, TextFacts, SizesAssumption
<1>4. PICK b \in Nat : b = s.at
  <2>1. s \in Object /\ Fits(s)
    BY DEF Strings, Inv
  <2> QED BY <2>1, ObjectFacts
<1>5. \A j \in 0..(n - 1) : At(b + 1 + j) # Nul
  <2> SUFFICES ASSUME NEW j \in 0..(n - 1) PROVE At(b + 1 + j) # Nul
    OBVIOUS
  <2>1. j + 1 \in 1..n /\ b + (j + 1) = b + 1 + j
    OBVIOUS
  <2>2. At(b + (j + 1)) = str[j + 1]
    BY <1>1, <1>2, <1>4, <2>1
  <2>3. str[j + 1] # Nul
    BY <1>1, <1>3, <2>1 DEF Printable
  <2> QED BY <2>1, <2>2, <2>3
<1>6. At(b + 1 + n) = Nul
  <2>1. b + 1 + n = b + n + 1
    OBVIOUS
  <2> QED BY <1>1, <1>2, <1>4, <2>1
<1> DEFINE IsEnd(m) == At(b + 1 + m) = Nul /\ \A j \in 0..(m - 1) : At(b + 1 + j) # Nul
           end == CHOOSE m \in 0..PoolCells : IsEnd(m)
<1>7. n \in 0..PoolCells /\ IsEnd(n)
  BY <1>3, <1>5, <1>6
<1>8. end \in 0..PoolCells /\ IsEnd(end)
  BY <1>7
<1>9. c_str(s) = [j \in 1..end |-> At(b + j)]
  BY <1>4 DEF c_str
<1>10. \A m \in 0..PoolCells : IsEnd(m) => m = n
  <2> SUFFICES ASSUME NEW m \in 0..PoolCells, IsEnd(m) PROVE m = n
    OBVIOUS
  <2>1. m \in Nat
    BY <1>3
  <2>2. ~(m < n)
    <3>1. m < n => m \in 0..(n - 1)
      BY <2>1
    <3> QED BY <1>5, <3>1
  <2>3. ~(n < m)
    <3>1. n < m => n \in 0..(m - 1)
      BY <2>1
    <3> QED BY <1>6, <3>1
  <2> QED BY <2>1, <2>2, <2>3
<1>11. end = n
  BY <1>8, <1>10
<1> HIDE DEF end
<1>12. c_str(s) = [j \in 1..n |-> str[j]]
  BY <1>1, <1>2, <1>4, <1>9, <1>11
<1>13. str = [j \in 1..n |-> str[j]]
  BY <1>3, TextFacts
<1> QED BY <1>1, <1>12, <1>13

(* A string equals exactly the text it was made of, and exactly the        *)
(* strings that begin with its text, among those without a null character  *)
(* inside (PersistentString.cc:68-84), where buffers are made from a       *)
(* const void*.                                                            *)
THEOREM StringsCompareExactly ==
    ASSUME BufferArgs \subseteq {"const void*, size_t"}
    PROVE  Spec => []EqualityIsExact
<1>1. ASSUME Inv PROVE EqualityIsExact
  <2> SUFFICES ASSUME NEW s \in Strings, Printable(TextOf(s))
               PROVE  /\ \A str \in Texts : EqualsText(s, str) <=> TextOf(s) = str
                      /\ \A t \in Strings : Equals(s, t) <=> Begins(TextOf(s), TextOf(t))
    BY DEF EqualityIsExact
  <2>1. PICK text \in Texts :
            /\ TextOf(s) = text /\ size(s) = Len(text)
            /\ \A j \in 1..Len(text) : At(s.at + j) = text[j]
            /\ Len(text) \in Nat
            /\ DOMAIN text = 1..Len(text)
    BY <1>1, StringFacts
  <2>2. PICK n \in Nat : n = Len(text)
    BY <2>1
  <2>3. DOMAIN text = 1..n
    BY <2>1, <2>2
  <2>4. ASSUME NEW str \in Texts PROVE EqualsText(s, str) <=> TextOf(s) = str
    <3>1. c_str(s) = TextOf(s)
      BY <1>1, TextReadBack
    <3> QED BY <2>1, <3>1 DEF EqualsText
  <2>5. ASSUME NEW t \in Strings PROVE Equals(s, t) <=> Begins(TextOf(s), TextOf(t))
    <3>1. PICK other \in Texts :
              /\ TextOf(t) = other
              /\ \A j \in 1..Len(other) : At(t.at + j) = other[j]
              /\ At(t.at + Len(other) + 1) = Nul
              /\ Len(other) \in Nat
      BY <1>1, StringFacts
    <3>2. PICK m \in Nat : m = Len(other)
      BY <3>1
    <3>3. \A j \in 1..n : At(s.at + j) = text[j] /\ text[j] # Nul
      BY <2>1, <2>2, <2>3 DEF Printable
    <3>4. Equals(s, t) <=> strncmp_equal(s, t, n)
      BY <2>1, <2>2 DEF Equals
    <3>5. strncmp_equal(s, t, n) <=> \A k \in 1..n : At(t.at + k) = text[k]
      <4>1. \A k \in 1..n : \A j \in 1..(k - 1) : j \in 1..n
        BY ONLY n \in Nat
      <4>2. \A k \in 1..n : \A j \in 1..(k - 1) : At(s.at + j) # Nul
        BY <3>3, <4>1
      <4> QED BY <3>3, <4>2 DEF strncmp_equal
    <3>6. Begins(TextOf(s), TextOf(t)) <=> n <= m /\ \A k \in 1..n : other[k] = text[k]
      BY <2>1, <2>2, <2>3, <3>1, <3>2 DEF Begins
    <3>7. CASE n <= m
      <4>1. \A k \in 1..n : k \in 1..m
        BY ONLY n \in Nat, m \in Nat, <3>7
      <4>2. \A k \in 1..n : At(t.at + k) = other[k]
        BY <3>1, <3>2, <4>1
      <4> QED BY <3>4, <3>5, <3>6, <3>7, <4>2
    <3>8. CASE ~(n <= m)
      <4>1. m + 1 \in 1..n
        BY ONLY n \in Nat, m \in Nat, <3>8
      <4>2. PICK b \in Nat : b = t.at
        <5>1. t \in Object /\ Fits(t)
          BY <1>1 DEF Strings, Inv
        <5> QED BY <5>1, ObjectFacts
      <4>3. At(t.at + (m + 1)) = Nul
        <5>1. b + (m + 1) = b + m + 1
          BY ONLY b \in Nat, m \in Nat
        <5> QED BY <3>1, <3>2, <4>2, <5>1
      <4>4. At(t.at + (m + 1)) # text[m + 1]
        BY <3>3, <4>1, <4>3
      <4> QED BY <3>4, <3>5, <3>6, <3>8, <4>1, <4>4
    <3> QED BY <3>7, <3>8
  <2> QED BY <2>4, <2>5
<1> QED BY <1>1, BuffersInvariant, PTL
=============================================================================
