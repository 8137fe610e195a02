----------------------- MODULE PersistentVectorProofs -----------------------
(***************************************************************************)
(* Proofs about PersistentVector, for every set of elements and blocks and *)
(* every bound.                                                            *)
(***************************************************************************)
EXTENDS PersistentVector, FiniteSetTheorems, TLAPS

(***************************************************************************)
(* What the operations on an array return.                                 *)
(***************************************************************************)

(* The filled slots of a are exactly its first k, and the stored count is  *)
(* k or one less.                                                          *)
FilledTo(a, k) ==
    /\ k \in {a.nelem_, a.nelem_ + 1}
    /\ k <= a.allocatedSize_
    /\ \A i \in 0..(a.allocatedSize_ - 1) : (i < k) <=> (a.elements_[i] # Null)

WellFilled(a) == FilledTo(a, Scan(a))

(* consistency_check finds the number of filled slots. *)
LEMMA ScanFindsEnd ==
    ASSUME NEW a, NEW k, IsArray(a), FilledTo(a, k)
    PROVE  /\ Scan(a) = k
           /\ k \in Nat
           /\ WellFilled(a)
           /\ CheckHolds(a)
<1>1. k \in Nat /\ a.nelem_ \in Nat /\ a.allocatedSize_ \in Nat
  BY DEF IsArray, FilledTo
<1>2. Scan(a) = k
  <2>1. CASE a.nelem_ >= a.allocatedSize_
    BY <2>1, <1>1 DEF Scan, FilledTo, IsArray
  <2>2. CASE ~(a.nelem_ >= a.allocatedSize_)
    <3>1. k \in a.nelem_ .. a.allocatedSize_ /\ IsScanOf(k, a)
      BY <1>1, <2>2 DEF IsScanOf, FilledTo
    <3>2. ASSUME NEW n \in a.nelem_ .. a.allocatedSize_, IsScanOf(n, a)
          PROVE  n = k
      BY <1>1, <2>2, <3>2 DEF IsScanOf, FilledTo
    <3>3. Scan(a) \in a.nelem_ .. a.allocatedSize_ /\ IsScanOf(Scan(a), a)
      BY <2>2, <3>1 DEF Scan
    <3> QED BY <3>2, <3>3
  <2> QED BY <2>1, <2>2
<1>3. CheckHolds(a)
  BY <1>1, <1>2 DEF CheckHolds, FilledTo, IsArray
<1> QED BY <1>1, <1>2, <1>3 DEF WellFilled

(* A new array is empty. *)
LEMMA NewArrayIsEmpty ==
    ASSUME NEW n \in Nat
    PROVE  /\ IsArray(NewArray(n))
           /\ WellFilled(NewArray(n))
           /\ Scan(NewArray(n)) = 0
           /\ NewArray(n).nelem_ = 0
           /\ NewArray(n).allocatedSize_ = n
<1>1. IsArray(NewArray(n))
  BY DEF IsArray, NewArray
<1>2. FilledTo(NewArray(n), 0)
  BY DEF FilledTo, NewArray
<1> QED BY <1>1, <1>2, ScanFindsEnd DEF NewArray

(* consistency_check changes the count alone. *)
LEMMA CheckedKeepsElements ==
    ASSUME NEW a, IsArray(a), WellFilled(a)
    PROVE  /\ IsArray(Checked(a))
           /\ WellFilled(Checked(a))
           /\ CheckHolds(a)
           /\ Scan(a) \in Nat
           /\ Scan(a) <= a.allocatedSize_
           /\ Scan(Checked(a)) = Scan(a)
           /\ Checked(a).nelem_ = Scan(a)
           /\ Checked(a).allocatedSize_ = a.allocatedSize_
           /\ Checked(a).elements_ = a.elements_
<1>1. Scan(a) \in Nat /\ CheckHolds(a) /\ Scan(a) <= a.allocatedSize_
  BY ScanFindsEnd DEF WellFilled, FilledTo
<1>2. /\ Checked(a) = [nelem_ |-> Scan(a), allocatedSize_ |-> a.allocatedSize_,
                       elements_ |-> a.elements_]
  BY DEF Checked, IsArray
<1>3. IsArray(Checked(a))
  BY <1>1, <1>2 DEF IsArray
<1>4. FilledTo(Checked(a), Scan(a))
  BY <1>1, <1>2 DEF FilledTo, WellFilled
<1> QED BY <1>1, <1>2, <1>3, <1>4, ScanFindsEnd

(* The copying constructor copies every filled slot and no other. *)
LEMMA CopyKeepsElements ==
    ASSUME NEW a, NEW n \in Nat, IsArray(a), WellFilled(a), CopyFits(a, n)
    PROVE  /\ IsArray(CopyArray(a, n))
           /\ WellFilled(CopyArray(a, n))
           /\ Scan(CopyArray(a, n)) = Scan(a)
           /\ CopyArray(a, n).nelem_ = Scan(a)
           /\ CopyArray(a, n).allocatedSize_ = n
           /\ \A i \in Nat : i < Scan(a) => CopyArray(a, n).elements_[i] = a.elements_[i]
<1>1. Scan(a) \in Nat /\ Scan(a) <= a.allocatedSize_ /\ Scan(a) < n
  BY ScanFindsEnd DEF WellFilled, FilledTo, CopyFits, IsArray
<1>2. IsArray(CopyArray(a, n))
  BY <1>1 DEF IsArray, CopyArray
<1>3. FilledTo(CopyArray(a, n), Scan(a))
  BY <1>1 DEF FilledTo, CopyArray, WellFilled, IsArray
<1> QED BY <1>1, <1>2, <1>3, ScanFindsEnd DEF CopyArray

(* A stored element is the next one; the count is then one behind. *)
LEMMA StoreAddsOne ==
    ASSUME NEW a, NEW e \in Elem, IsArray(a), WellFilled(a),
           a.nelem_ = Scan(a), Scan(a) < a.allocatedSize_
    PROVE  /\ IsArray(WithElement(a, e))
           /\ WellFilled(WithElement(a, e))
           /\ Scan(WithElement(a, e)) = Scan(a) + 1
           /\ WithElement(a, e).nelem_ = Scan(a)
           /\ WithElement(a, e).allocatedSize_ = a.allocatedSize_
           /\ WithElement(a, e).elements_[Scan(a)] = e
           /\ \A i \in Nat : i < Scan(a) => WithElement(a, e).elements_[i] = a.elements_[i]
<1>1. Scan(a) \in Nat
  BY ScanFindsEnd DEF WellFilled
<1>2. WithElement(a, e) = [nelem_ |-> a.nelem_, allocatedSize_ |-> a.allocatedSize_,
                           elements_ |-> [a.elements_ EXCEPT ![a.nelem_] = e]]
  BY DEF WithElement, IsArray
<1>3. IsArray(WithElement(a, e))
  BY <1>2 DEF IsArray
<1>4. FilledTo(WithElement(a, e), Scan(a) + 1)
  BY <1>1, <1>2, NullAssumption DEF FilledTo, WellFilled, IsArray
<1>5. /\ WellFilled(WithElement(a, e))
      /\ Scan(WithElement(a, e)) = Scan(a) + 1
  BY <1>3, <1>4, ScanFindsEnd
<1>6. /\ WithElement(a, e).elements_[Scan(a)] = e
      /\ \A i \in Nat : i < Scan(a) => WithElement(a, e).elements_[i] = a.elements_[i]
  BY <1>1, <1>2 DEF IsArray
<1> QED BY <1>2, <1>3, <1>5, <1>6

(* update_nelem catches up with the stored element. *)
LEMMA CountCatchesUp ==
    ASSUME NEW a, IsArray(a), WellFilled(a), Scan(a) = a.nelem_ + 1
    PROVE  /\ IsArray(WithCount(a))
           /\ WellFilled(WithCount(a))
           /\ Scan(WithCount(a)) = Scan(a)
           /\ WithCount(a).nelem_ = Scan(a)
           /\ WithCount(a).allocatedSize_ = a.allocatedSize_
           /\ WithCount(a).elements_ = a.elements_
<1>1. WithCount(a) = [nelem_ |-> a.nelem_ + 1, allocatedSize_ |-> a.allocatedSize_,
                      elements_ |-> a.elements_]
  BY DEF WithCount, IsArray
<1>2. IsArray(WithCount(a))
  BY <1>1 DEF IsArray, WellFilled, FilledTo
<1>3. FilledTo(WithCount(a), Scan(a))
  BY <1>1 DEF FilledTo, WellFilled, IsArray
<1> QED BY <1>1, <1>2, <1>3, ScanFindsEnd

-----------------------------------------------------------------------------
(***************************************************************************)
(* The inductive invariant.  Core is about the arrays, the pointers to     *)
(* them and the progress of the call; Room, Kept, Lost and Confirmed each  *)
(* rest on it and carry one of the properties.                             *)
(***************************************************************************)
Shapes == \A b \in used : WellFilled(heap[b])

Pointers == /\ NeverPointsAtFreedArray
            /\ old # Null => pc = "release"

Control ==
    /\ pc = "idle" <=> op.name = "none"
    /\ pc \in {"size", "store", "count"} => op.name \in Pushes
    /\ op.name \in Pushes => op.elem \in Elem
    /\ op.name \notin Pushes => op.elem = Null
    /\ pc = "reserve" => vec = Null
    /\ pc \in {"size", "grow", "release", "store", "count"} => vec # Null
    /\ pc = "count" => /\ Scan(Array) = Array.nelem_ + 1
                       /\ Array.elements_[Array.nelem_] = op.elem

Core == TypeOK /\ Shapes /\ Pointers /\ Control

(* An acknowledged element is in its slot, and the slot being filled is    *)
(* none of theirs.                                                         *)
Kept == /\ AckedElementsKept
        /\ pc = "count" => \A p \in acked : p[1] < Array.nelem_

(* Only the vector's own array has a count behind its slots without a death. *)
Behind == \A b \in used :
              heap[b].nelem_ # Scan(heap[b]) => crashes > 0 \/ (pc = "count" /\ b = vec)

(* An array has a slot, and what push_back has found full it has grown.    *)
Room == /\ op.name \in Pushes => reply = "none"
        /\ \A b \in used : heap[b].allocatedSize_ >= 1
        /\ pc = "reserve" => op.size >= 1
        /\ pc = "grow" /\ op.name \in Pushes => op.size > Scan(Array)
        /\ pc = "release" /\ op.name \in Pushes => Scan(Array) < Array.allocatedSize_
        /\ pc = "store" => Scan(Array) < Array.allocatedSize_

(* The length of Content. *)
Filled == IF vec = Null THEN 0 ELSE Scan(Array)
Confirmed == /\ IsFiniteSet(acked)
             /\ Filled <= Cardinality(acked) + crashes + (IF pc = "count" THEN 1 ELSE 0)

LEMMA CoreInit == Init => Core
<1> SUFFICES ASSUME Init PROVE Core
  OBVIOUS
<1>1. IsArray(NewArray(0))
  BY NewArrayIsEmpty
<1>2. TypeOK
  BY <1>1, BoundsAssumption DEF Init, TypeOK, NoOp
<1>3. Shapes /\ Pointers /\ Control
  BY NullAssumption DEF Init, Shapes, Pointers, NeverPointsAtFreedArray, Control, NoOp, Pushes
<1> QED BY <1>2, <1>3 DEF Core

LEMMA CoreNext == Core /\ [Next]_vars => Core'
<1> SUFFICES ASSUME Core, [Next]_vars PROVE Core'
  OBVIOUS
<1> USE DEF Core
<1>1. ASSUME NEW name \in Pushes, NEW e \in Elem, PushBack(name, e) PROVE Core'
  <2>1. TypeOK'
    BY <1>1 DEF PushBack, TypeOK, Pushes
  <2>2. Shapes' /\ Pointers' /\ Control'
    BY <1>1 DEF PushBack, Shapes, Pointers, NeverPointsAtFreedArray, Control, Pushes, NoOp, Array
  <2> QED BY <2>1, <2>2
<1>2. ASSUME NEW n \in ResizeSizes, Resize(n) PROVE Core'
  <2>1. TypeOK'
    BY <1>2, SizesAssumption DEF Resize, TypeOK
  <2>2. Shapes' /\ Pointers' /\ Control'
    BY <1>2 DEF Resize, Shapes, Pointers, NeverPointsAtFreedArray, Control, Pushes, NoOp, Array
  <2> QED BY <2>1, <2>2
<1>3. CASE Reserve
  <2>1. PICK b \in Block \ used :
          /\ vec' = b
          /\ used' = used \union {b}
          /\ heap' = [heap EXCEPT ![b] = NewArray(op.size)]
    BY <1>3 DEF Reserve
  <2>2. IsArray(NewArray(op.size)) /\ WellFilled(NewArray(op.size))
    BY NewArrayIsEmpty DEF TypeOK
  <2>3. heap'[b] = NewArray(op.size) /\ \A c \in Block \ {b} : heap'[c] = heap[c]
    BY <2>1 DEF TypeOK
  <2>4. TypeOK'
    BY <1>3, <2>1, <2>2, <2>3 DEF Reserve, Finish, NoOp, TypeOK
  <2>5. Shapes'
    BY <2>1, <2>2, <2>3 DEF Shapes, TypeOK
  <2>6. Pointers' /\ Control'
    BY <1>3, <2>1, NullAssumption
    DEF Reserve, Finish, NoOp, Pointers, NeverPointsAtFreedArray, Control, Pushes, TypeOK
  <2> QED BY <2>4, <2>5, <2>6
<1>4. CASE ReserveFails
  <2>1. TypeOK'
    BY <1>4 DEF ReserveFails, Finish, NoOp, TypeOK, Errors
  <2>2. Shapes' /\ Pointers' /\ Control'
    BY <1>4 DEF ReserveFails, Finish, NoOp, Shapes, Pointers, NeverPointsAtFreedArray, Control, Pushes, Array
  <2> QED BY <2>1, <2>2
<1>5. CASE CheckSize
  <2>1. vec \in used /\ vec \in Block /\ IsArray(Array) /\ WellFilled(Array)
    BY <1>5 DEF CheckSize, TypeOK, Shapes, Pointers, NeverPointsAtFreedArray, Control, Array
  <2>2. /\ IsArray(Checked(Array)) /\ WellFilled(Checked(Array)) /\ CheckHolds(Array)
        /\ Scan(Array) \in Nat
    BY <2>1, CheckedKeepsElements
  <2>3. heap' = [heap EXCEPT ![vec] = Checked(Array)]
    BY <1>5, <2>2 DEF CheckSize
  <2>4. heap'[vec] = Checked(Array) /\ \A c \in Block \ {vec} : heap'[c] = heap[c]
    BY <2>1, <2>3 DEF TypeOK
  <2>5. GrownSize(Array) \in Nat
    BY <2>2 DEF GrownSize
  <2>6. TypeOK'
    BY <1>5, <2>1, <2>2, <2>3, <2>4, <2>5 DEF CheckSize, TypeOK
  <2>7. Shapes'
    BY <1>5, <2>1, <2>2, <2>4 DEF CheckSize, Shapes, TypeOK
  <2>8. Pointers' /\ Control'
    BY <1>5, <2>2
    DEF CheckSize, Pointers, NeverPointsAtFreedArray, Control, Pushes, TypeOK
  <2> QED BY <2>6, <2>7, <2>8
<1>6. CASE Replace
  <2>1. vec \in used /\ vec \in Block /\ IsArray(Array) /\ WellFilled(Array)
    BY <1>6 DEF Replace, TypeOK, Shapes, Pointers, NeverPointsAtFreedArray, Control, Array
  <2>2. PICK b \in Block \ used :
          /\ vec' = b
          /\ used' = used \union {b}
          /\ heap' = [heap EXCEPT ![vec] = Checked(Array), ![b] = CopyArray(Array, op.size)]
    BY <1>6 DEF Replace
  <2>3. IsArray(Checked(Array)) /\ WellFilled(Checked(Array))
    BY <2>1, CheckedKeepsElements
  <2>4. IsArray(CopyArray(Array, op.size)) /\ WellFilled(CopyArray(Array, op.size))
    BY <1>6, <2>1, CopyKeepsElements DEF Replace, TypeOK
  <2>5. /\ heap'[b] = CopyArray(Array, op.size)
        /\ heap'[vec] = Checked(Array)
        /\ \A c \in Block \ {b, vec} : heap'[c] = heap[c]
    BY <2>1, <2>2 DEF TypeOK
  <2>6. TypeOK'
    BY <1>6, <2>1, <2>2, <2>3, <2>4, <2>5 DEF Replace, TypeOK
  <2>7. Shapes'
    BY <2>1, <2>2, <2>3, <2>4, <2>5 DEF Shapes, TypeOK
  <2>8. Pointers' /\ Control'
    BY <1>6, <2>1, <2>2, NullAssumption
    DEF Replace, Pointers, NeverPointsAtFreedArray, Control, Pushes, TypeOK
  <2> QED BY <2>6, <2>7, <2>8
<1>7. CASE ReplaceRejected
  <2>1. vec \in used /\ vec \in Block /\ IsArray(Array) /\ WellFilled(Array)
    BY <1>7 DEF ReplaceRejected, TypeOK, Shapes, Pointers, NeverPointsAtFreedArray, Control, Array
  <2>2. IsArray(Checked(Array)) /\ WellFilled(Checked(Array)) /\ CheckHolds(Array)
    BY <2>1, CheckedKeepsElements
  <2>3. heap' = [heap EXCEPT ![vec] = Checked(Array)]
    BY <1>7, <2>2 DEF ReplaceRejected
  <2>4. heap'[vec] = Checked(Array) /\ \A c \in Block \ {vec} : heap'[c] = heap[c]
    BY <2>1, <2>3 DEF TypeOK
  <2>5. TypeOK'
    BY <1>7, <2>1, <2>2, <2>3, <2>4 DEF ReplaceRejected, Finish, NoOp, Errors, TypeOK
  <2>6. Shapes'
    BY <1>7, <2>1, <2>2, <2>4 DEF ReplaceRejected, Shapes, TypeOK
  <2>7. Pointers' /\ Control'
    BY <1>7
    DEF ReplaceRejected, Finish, NoOp, Pointers, NeverPointsAtFreedArray, Control, Pushes, TypeOK
  <2> QED BY <2>5, <2>6, <2>7
<1>8. CASE ReplaceFails
  <2>1. TypeOK'
    BY <1>8 DEF ReplaceFails, Finish, NoOp, TypeOK, Errors
  <2>2. Shapes' /\ Pointers' /\ Control'
    BY <1>8 DEF ReplaceFails, Finish, NoOp, Shapes, Pointers, NeverPointsAtFreedArray, Control, Pushes, Array
  <2> QED BY <2>1, <2>2
<1>9. CASE Release
  <2>1. IsArray(NewArray(0))
    BY NewArrayIsEmpty
  <2>2. old \in used /\ old # vec /\ vec \in used
    BY <1>9 DEF Release, Pointers, NeverPointsAtFreedArray, Control
  <2>3. heap'[old] = NewArray(0) /\ \A c \in Block \ {old} : heap'[c] = heap[c]
    BY <1>9, <2>2 DEF Release, FreedByReplace, TypeOK
  <2>4. TypeOK'
    BY <1>9, <2>1, <2>2, <2>3 DEF Release, FreedByReplace, Finish, NoOp, TypeOK
  <2>5. Shapes'
    BY <1>9, <2>3 DEF Release, FreedByReplace, Shapes, TypeOK
  <2>6. Pointers' /\ Control'
    BY <1>9, <2>2
    DEF Release, FreedByReplace, Finish, NoOp, Pointers, NeverPointsAtFreedArray, Control, Pushes, TypeOK
  <2> QED BY <2>4, <2>5, <2>6
<1>10. CASE StoreElement
  <2>1. vec \in used /\ vec \in Block /\ IsArray(Array) /\ WellFilled(Array) /\ op.elem \in Elem
    BY <1>10 DEF StoreElement, TypeOK, Shapes, Pointers, NeverPointsAtFreedArray, Control, Array
  <2> DEFINE C == Checked(Array)
             W == WithElement(C, op.elem)
  <2>2. /\ IsArray(C) /\ WellFilled(C) /\ CheckHolds(Array)
        /\ C.nelem_ = Scan(C) /\ C.allocatedSize_ = Array.allocatedSize_
        /\ Scan(C) = Scan(Array) /\ Scan(Array) \in Nat /\ Scan(Array) <= Array.allocatedSize_
    BY <2>1, CheckedKeepsElements
  <2>3. CASE Scan(Array) = Array.allocatedSize_
    <3>1. heap' = [heap EXCEPT ![vec] = C]
      BY <1>10, <2>2, <2>3 DEF StoreElement
    <3>2. heap'[vec] = C /\ \A c \in Block \ {vec} : heap'[c] = heap[c]
      BY <2>1, <3>1 DEF TypeOK
    <3>3. TypeOK'
      BY <1>10, <2>1, <2>2, <2>3, <3>1, <3>2 DEF StoreElement, Finish, NoOp, Errors, TypeOK
    <3>4. Shapes'
      BY <1>10, <2>1, <2>2, <3>2 DEF StoreElement, Shapes, TypeOK
    <3>5. Pointers' /\ Control'
      BY <1>10, <2>2, <2>3
      DEF StoreElement, Finish, NoOp, Pointers, NeverPointsAtFreedArray, Control, Pushes, TypeOK
    <3> QED BY <3>3, <3>4, <3>5
  <2>4. CASE Scan(Array) # Array.allocatedSize_
    <3>1. heap' = [heap EXCEPT ![vec] = W] /\ pc' = "count" /\ UNCHANGED <<op, reply>>
      BY <1>10, <2>2, <2>4 DEF StoreElement
    <3>2. heap'[vec] = W /\ \A c \in Block \ {vec} : heap'[c] = heap[c]
      BY <2>1, <3>1 DEF TypeOK
    <3>3. Scan(C) < C.allocatedSize_
      BY <2>1, <2>2, <2>4 DEF IsArray
    <3>4. /\ IsArray(W) /\ WellFilled(W) /\ Scan(W) = Scan(C) + 1 /\ W.nelem_ = Scan(C)
          /\ W.elements_[Scan(C)] = op.elem
      BY <2>1, <2>2, <3>3, StoreAddsOne
    <3>5. TypeOK'
      BY <1>10, <2>1, <3>1, <3>2, <3>4 DEF StoreElement, TypeOK
    <3>6. Shapes'
      BY <1>10, <2>1, <3>2, <3>4 DEF StoreElement, Shapes, TypeOK
    <3>7. Pointers' /\ Control'
      BY <1>10, <3>1, <3>2, <3>4
      DEF StoreElement, Pointers, NeverPointsAtFreedArray, Control, Pushes, TypeOK, Array
    <3> QED BY <3>5, <3>6, <3>7
  <2> QED BY <2>3, <2>4
<1>11. CASE ElementFails
  <2>1. vec \in used /\ vec \in Block /\ IsArray(Array) /\ WellFilled(Array)
    BY <1>11 DEF ElementFails, TypeOK, Shapes, Pointers, NeverPointsAtFreedArray, Control, Array
  <2>2. IsArray(Checked(Array)) /\ WellFilled(Checked(Array))
    BY <2>1, CheckedKeepsElements
  <2>3. heap'[vec] = Checked(Array) /\ \A c \in Block \ {vec} : heap'[c] = heap[c]
    BY <1>11, <2>1 DEF ElementFails, TypeOK
  <2>4. TypeOK'
    BY <1>11, <2>1, <2>2, <2>3 DEF ElementFails, Finish, NoOp, Errors, TypeOK
  <2>5. Shapes'
    BY <1>11, <2>1, <2>2, <2>3 DEF ElementFails, Shapes, TypeOK
  <2>6. Pointers' /\ Control'
    BY <1>11
    DEF ElementFails, Finish, NoOp, Pointers, NeverPointsAtFreedArray, Control, Pushes, TypeOK
  <2> QED BY <2>4, <2>5, <2>6
<1>12. CASE UpdateNelem
  <2>1. /\ vec \in used /\ vec \in Block /\ IsArray(Array) /\ WellFilled(Array)
        /\ op.elem \in Elem /\ Scan(Array) = Array.nelem_ + 1
    BY <1>12 DEF UpdateNelem, TypeOK, Shapes, Pointers, NeverPointsAtFreedArray, Control, Array
  <2>2. IsArray(WithCount(Array)) /\ WellFilled(WithCount(Array))
    BY <2>1, CountCatchesUp
  <2>3. heap'[vec] = WithCount(Array) /\ \A c \in Block \ {vec} : heap'[c] = heap[c]
    BY <1>12, <2>1 DEF UpdateNelem, TypeOK
  <2>4. Array.nelem_ \in Nat
    BY <2>1 DEF IsArray
  <2>5. TypeOK'
    BY <1>12, <2>1, <2>2, <2>3, <2>4 DEF UpdateNelem, Finish, NoOp, TypeOK
  <2>6. Shapes'
    BY <1>12, <2>1, <2>2, <2>3 DEF UpdateNelem, Shapes, TypeOK
  <2>7. Pointers' /\ Control'
    BY <1>12
    DEF UpdateNelem, Finish, NoOp, Pointers, NeverPointsAtFreedArray, Control, Pushes, TypeOK
  <2> QED BY <2>5, <2>6, <2>7
<1>13. CASE Size
  <2>1. vec \in used /\ vec \in Block /\ IsArray(Array) /\ WellFilled(Array)
    BY <1>13 DEF Size, TypeOK, Shapes, Pointers, NeverPointsAtFreedArray, Control, Array
  <2>2. IsArray(Checked(Array)) /\ WellFilled(Checked(Array)) /\ CheckHolds(Array)
    BY <2>1, CheckedKeepsElements
  <2>3. heap'[vec] = Checked(Array) /\ \A c \in Block \ {vec} : heap'[c] = heap[c]
    BY <1>13, <2>1, <2>2 DEF Size, TypeOK
  <2>4. TypeOK'
    BY <1>13, <2>1, <2>2, <2>3 DEF Size, TypeOK
  <2>5. Shapes'
    BY <1>13, <2>1, <2>2, <2>3 DEF Size, Shapes, TypeOK
  <2>6. Pointers' /\ Control'
    BY <1>13 DEF Size, Pointers, NeverPointsAtFreedArray, Control, Pushes, TypeOK
  <2> QED BY <2>4, <2>5, <2>6
<1>14. CASE Free
  <2>1. vec \in used /\ vec \in Block /\ IsArray(NewArray(0))
    BY <1>14, NewArrayIsEmpty DEF Free, TypeOK, Pointers, NeverPointsAtFreedArray
  <2>2. heap'[vec] = NewArray(0) /\ \A c \in Block \ {vec} : heap'[c] = heap[c]
    BY <1>14, <2>1 DEF Free, TypeOK
  <2>3. TypeOK'
    BY <1>14, <2>1, <2>2 DEF Free, TypeOK
  <2>4. Shapes'
    BY <1>14, <2>2 DEF Free, Shapes, TypeOK
  <2>5. Pointers' /\ Control'
    BY <1>14, NullAssumption DEF Free, Pointers, NeverPointsAtFreedArray, Control, Pushes, TypeOK
  <2> QED BY <2>3, <2>4, <2>5
<1>15. CASE Restart
  <2>1. TypeOK'
    BY <1>15, BoundsAssumption DEF Restart, NoOp, TypeOK
  <2>2. Shapes' /\ Pointers' /\ Control'
    BY <1>15 DEF Restart, NoOp, Shapes, Pointers, NeverPointsAtFreedArray, Control, Pushes, Array
  <2> QED BY <2>1, <2>2
<1>16. CASE UNCHANGED vars
  BY <1>16 DEF vars, TypeOK, Shapes, Pointers, NeverPointsAtFreedArray, Control, Array
<1> QED
  BY <1>1, <1>2, <1>3, <1>4, <1>5, <1>6, <1>7, <1>8, <1>9, <1>10, <1>11, <1>12,
     <1>13, <1>14, <1>15, <1>16 DEF Next, CallStep

LEMMA CoreInvariant == Spec => []Core
  BY CoreInit, CoreNext, PTL DEF Spec

(* The state of a vector is well typed in every run, and the stored count  *)
(* never exceeds the space of its array.                                   *)
THEOREM TypeCorrect == Spec => []TypeOK
<1>1. Core => TypeOK
  BY DEF Core
<1> QED BY <1>1, CoreInvariant, PTL

(* In every run the vector points at an allocated array, never at one that *)
(* replace() or free() gave back.                                          *)
THEOREM PointersCorrect == Spec => []NeverPointsAtFreedArray
<1>1. Core => NeverPointsAtFreedArray
  BY DEF Core, Pointers
<1> QED BY <1>1, CoreInvariant, PTL

-----------------------------------------------------------------------------
(***************************************************************************)
(* What a step does to the content of the vector.                          *)
(***************************************************************************)
ArrayOK == vec \in used /\ vec \in Block /\ IsArray(Array) /\ WellFilled(Array)

LEMMA ArrayIsOK == Core /\ vec # Null => ArrayOK
  BY DEF ArrayOK, Core, TypeOK, Shapes, Pointers, NeverPointsAtFreedArray, Array

SameContent == /\ Filled' = Filled
               /\ \A i \in Nat : i < Filled => Array'.elements_[i] = Array.elements_[i]

(* A step that leaves the content and the acknowledgements alone; only a   *)
(* death does so at the last step of a push_back.                          *)
Keeps == /\ SameContent /\ acked' = acked /\ pc' # "count"
         /\ \/ pc # "count" /\ crashes' = crashes
            \/ crashes' = crashes + 1

(* The instant an element enters its slot. *)
Stores == /\ pc = "store" /\ pc' = "count"
          /\ vec # Null /\ UNCHANGED <<vec, op, acked, crashes, reply>>
          /\ Filled' = Filled + 1
          /\ Array'.nelem_ = Filled
          /\ Array'.elements_[Filled] = op.elem
          /\ \A i \in Nat : i < Filled => Array'.elements_[i] = Array.elements_[i]

(* A push_back returns. *)
Returns == /\ pc = "count" /\ pc' = "idle"
           /\ SameContent /\ UNCHANGED <<vec, crashes>>
           /\ acked' = acked \union {<<Array.nelem_, op.elem>>}

(* The vector is freed. *)
Empties == Free /\ Filled' = 0

(* The vector's array is kept as it is by a step that neither moves nor writes it. *)
LEMMA SameArray == vec' = vec /\ heap' = heap => SameContent
  BY DEF SameContent, Filled, Array

(* ... and by one that only corrects its count. *)
LEMMA SameAfterCheck ==
    ASSUME Core, vec # Null, vec' = vec, heap' = [heap EXCEPT ![vec] = Checked(Array)]
    PROVE  SameContent
<1>1. ArrayOK
  BY ArrayIsOK
<1>2. Array' = Checked(Array)
  BY <1>1 DEF Array, ArrayOK, Core, TypeOK
<1> QED BY <1>1, <1>2, CheckedKeepsElements DEF SameContent, Filled, ArrayOK

LEMMA ContentStep == Core /\ Next => Keeps \/ Stores \/ Returns \/ Empties
<1> SUFFICES ASSUME Core, Next PROVE Keeps \/ Stores \/ Returns \/ Empties
  OBVIOUS
<1>1. ASSUME NEW name \in Pushes, NEW e \in Elem, PushBack(name, e) PROVE Keeps
  BY <1>1, SameArray DEF PushBack, Keeps
<1>2. ASSUME NEW n \in ResizeSizes, Resize(n) PROVE Keeps
  BY <1>2, SameArray DEF Resize, Keeps
<1>3. CASE Reserve
  <2>1. PICK b \in Block \ used : vec' = b /\ heap' = [heap EXCEPT ![b] = NewArray(op.size)]
    BY <1>3 DEF Reserve
  <2>2. vec = Null /\ op.size \in Nat
    BY <1>3 DEF Reserve, Core, Control, TypeOK
  <2>3. Array' = NewArray(op.size) /\ vec' # Null
    BY <2>1, NullAssumption DEF Array, Core, TypeOK
  <2>4. Filled = 0 /\ Filled' = 0
    BY <2>2, <2>3, NewArrayIsEmpty DEF Filled
  <2>5. SameContent
    BY <2>4 DEF SameContent
  <2> QED BY <1>3, <2>5 DEF Reserve, Keeps, Finish
<1>4. CASE ReserveFails
  BY <1>4, SameArray DEF ReserveFails, Keeps, Finish
<1>5. CASE CheckSize
  <2>1. vec # Null
    BY <1>5 DEF CheckSize, Core, Control
  <2>2. SameContent
    BY <1>5, <2>1, SameArray, SameAfterCheck DEF CheckSize
  <2> QED BY <1>5, <2>2 DEF CheckSize, Keeps, Finish
<1>6. CASE Replace
  <2>1. vec # Null /\ ArrayOK /\ op.size \in Nat
    BY <1>6, ArrayIsOK DEF Replace, Core, Control, TypeOK
  <2>2. PICK b \in Block \ used :
          /\ vec' = b
          /\ heap' = [heap EXCEPT ![vec] = Checked(Array), ![b] = CopyArray(Array, op.size)]
    BY <1>6 DEF Replace
  <2>3. Array' = CopyArray(Array, op.size) /\ vec' # Null
    BY <2>1, <2>2, NullAssumption DEF Array, Core, TypeOK, ArrayOK
  <2>4. SameContent
    BY <1>6, <2>1, <2>3, CopyKeepsElements DEF SameContent, Filled, ArrayOK, Replace
  <2> QED BY <1>6, <2>4 DEF Replace, Keeps
<1>7. CASE ReplaceRejected
  <2>1. vec # Null
    BY <1>7 DEF ReplaceRejected, Core, Control
  <2>2. SameContent
    BY <1>7, <2>1, SameArray, SameAfterCheck DEF ReplaceRejected
  <2> QED BY <1>7, <2>2 DEF ReplaceRejected, Keeps, Finish
<1>8. CASE ReplaceFails
  BY <1>8, SameArray DEF ReplaceFails, Keeps, Finish
<1>9. CASE Release
  <2>1. vec # Null /\ vec \in Block /\ old # vec /\ vec' = vec
    BY <1>9 DEF Release, Core, Control, Pointers, NeverPointsAtFreedArray, TypeOK
  <2>2. Array' = Array
    BY <1>9, <2>1 DEF Release, FreedByReplace, Array, Core, TypeOK
  <2>3. SameContent
    BY <2>1, <2>2 DEF SameContent, Filled
  <2> QED BY <1>9, <2>3 DEF Release, Keeps, Finish
<1>10. CASE StoreElement
  <2>1. vec # Null /\ ArrayOK /\ op.elem \in Elem
    BY <1>10, ArrayIsOK DEF StoreElement, Core, Control
  <2> DEFINE C == Checked(Array)
             W == WithElement(C, op.elem)
  <2>2. /\ IsArray(C) /\ WellFilled(C) /\ CheckHolds(Array)
        /\ C.nelem_ = Scan(C) /\ C.allocatedSize_ = Array.allocatedSize_
        /\ Scan(C) = Scan(Array) /\ Scan(Array) \in Nat /\ Scan(Array) <= Array.allocatedSize_
        /\ C.elements_ = Array.elements_
    BY <2>1, CheckedKeepsElements DEF ArrayOK
  <2>3. CASE Scan(Array) = Array.allocatedSize_
    <3>1. SameContent
      BY <1>10, <2>1, <2>2, <2>3, SameAfterCheck DEF StoreElement
    <3> QED BY <1>10, <2>2, <2>3, <3>1 DEF StoreElement, Keeps, Finish
  <2>4. CASE Scan(Array) # Array.allocatedSize_
    <3>1. heap' = [heap EXCEPT ![vec] = W] /\ pc' = "count" /\ UNCHANGED <<op, reply>>
      BY <1>10, <2>2, <2>4 DEF StoreElement
    <3>2. Array' = W /\ vec' = vec
      BY <1>10, <2>1, <3>1 DEF StoreElement, Array, ArrayOK, Core, TypeOK
    <3>3. Scan(C) < C.allocatedSize_
      BY <2>1, <2>2, <2>4 DEF IsArray, ArrayOK
    <3>4. /\ Scan(W) = Scan(C) + 1 /\ W.nelem_ = Scan(C)
          /\ W.elements_[Scan(C)] = op.elem
          /\ \A i \in Nat : i < Scan(C) => W.elements_[i] = C.elements_[i]
      BY <2>1, <2>2, <3>3, StoreAddsOne
    <3>5. Stores
      BY <1>10, <2>1, <2>2, <3>1, <3>2, <3>4 DEF Stores, StoreElement, Filled
    <3> QED BY <3>5
  <2> QED BY <2>3, <2>4
<1>11. CASE ElementFails
  <2>1. vec # Null
    BY <1>11 DEF ElementFails, Core, Control
  <2>2. SameContent
    BY <1>11, <2>1, SameAfterCheck DEF ElementFails
  <2> QED BY <1>11, <2>2 DEF ElementFails, Keeps, Finish
<1>12. CASE UpdateNelem
  <2>1. vec # Null /\ ArrayOK /\ Scan(Array) = Array.nelem_ + 1
    BY <1>12, ArrayIsOK DEF UpdateNelem, Core, Control
  <2>2. Array' = WithCount(Array) /\ vec' = vec
    BY <1>12, <2>1 DEF UpdateNelem, Array, ArrayOK, Core, TypeOK
  <2>3. SameContent
    BY <2>1, <2>2, CountCatchesUp DEF SameContent, Filled, ArrayOK
  <2> QED BY <1>12, <2>3 DEF UpdateNelem, Returns, Finish
<1>13. CASE Size
  <2>1. SameContent
    BY <1>13, SameArray, SameAfterCheck DEF Size
  <2> QED BY <1>13, <2>1 DEF Size, Keeps
<1>14. CASE Free
  BY <1>14 DEF Free, Empties, Filled
<1>15. CASE Restart
  BY <1>15, SameArray DEF Restart, Keeps
<1> QED
  BY <1>1, <1>2, <1>3, <1>4, <1>5, <1>6, <1>7, <1>8, <1>9, <1>10, <1>11, <1>12,
     <1>13, <1>14, <1>15 DEF Next, CallStep

FilledOK == /\ Filled \in Nat
            /\ Filled # 0 => vec # Null /\ Filled = Scan(Array)
            /\ Content = [i \in 1..Filled |-> Array.elements_[i - 1]]

LEMMA FilledIsNat == Core => FilledOK
<1> SUFFICES ASSUME Core PROVE FilledOK
  OBVIOUS
<1> USE DEF FilledOK
<1>1. CASE vec = Null
  BY <1>1 DEF Filled, Content
<1>2. CASE vec # Null
  <2>1. Scan(Array) \in Nat
    BY <1>2, ArrayIsOK, ScanFindsEnd DEF ArrayOK, WellFilled
  <2> QED BY <1>2, <2>1 DEF Filled, Content
<1> QED BY <1>1, <1>2

LEMMA FilledIsNatNext == Core' => FilledOK'
  BY FilledIsNat, PTL

-----------------------------------------------------------------------------
(***************************************************************************)
(* Acknowledged elements.                                                  *)
(***************************************************************************)
LEMMA KeptNext == Core /\ Kept /\ [Next]_vars => Kept'
<1> SUFFICES ASSUME Core, Kept, [Next]_vars PROVE Kept'
  OBVIOUS
<1>1. FilledOK /\ FilledOK'
  BY CoreNext, FilledIsNat, FilledIsNatNext
<1>2. /\ Filled \in Nat /\ (Filled # 0 => vec # Null /\ Filled = Scan(Array))
      /\ Filled' \in Nat /\ (Filled' # 0 => vec' # Null /\ Filled' = Scan(Array'))
  BY <1>1 DEF FilledOK, Array
<1>3. \A p \in acked : /\ p[1] \in Nat /\ p[1] < Filled
                       /\ Array.elements_[p[1]] = p[2]
  BY DEF Kept, AckedElementsKept, Core, TypeOK, Filled
<1>4. SUFFICES /\ \A p \in acked' : /\ p[1] \in Nat /\ p[1] < Filled'
                                    /\ Array'.elements_[p[1]] = p[2]
               /\ pc' = "count" => \A p \in acked' : p[1] < Array'.nelem_
  BY <1>2 DEF Kept, AckedElementsKept
<1>5. CASE Keeps
  BY <1>2, <1>3, <1>5 DEF Keeps, SameContent
<1>6. CASE Stores
  BY <1>2, <1>3, <1>6 DEF Stores
<1>7. CASE Returns
  <2>1. vec # Null /\ Scan(Array) = Array.nelem_ + 1 /\ Array.elements_[Array.nelem_] = op.elem
    BY <1>7 DEF Returns, Core, Control
  <2>2. Array.nelem_ \in Nat
    BY <2>1, ArrayIsOK DEF ArrayOK, IsArray
  <2>3. Filled = Array.nelem_ + 1
    BY <2>1 DEF Filled
  <2> QED BY <1>2, <1>3, <1>7, <2>1, <2>2, <2>3 DEF Returns, SameContent
<1>8. CASE Empties
  BY <1>8 DEF Empties, Free
<1>9. CASE UNCHANGED vars
  BY <1>3, <1>9 DEF vars, Kept, Filled, Array
<1> QED BY <1>5, <1>6, <1>7, <1>8, <1>9, ContentStep

(* An element whose push_back returned stays in its slot through every     *)
(* growth of the array, every exception and every death of the process.    *)
THEOREM AckedElementsAreKept == Spec => []AckedElementsKept
<1>1. Init => Kept
  BY DEF Init, Kept, AckedElementsKept
<1>2. Kept => AckedElementsKept
  BY DEF Kept
<1> QED BY <1>1, <1>2, CoreInvariant, KeptNext, PTL DEF Spec

-----------------------------------------------------------------------------
(***************************************************************************)
(* The stored count.                                                       *)
(***************************************************************************)

(* What a step that only runs consistency_check leaves of the arrays.      *)
LEMMA HeapAfterCheck ==
    ASSUME Core, vec # Null, heap' = [heap EXCEPT ![vec] = Checked(Array)]
    PROVE  /\ ArrayOK
           /\ \A b \in Block : /\ b # vec => heap'[b] = heap[b]
                              /\ heap'[b].allocatedSize_ = heap[b].allocatedSize_
           /\ heap'[vec].nelem_ = Scan(heap'[vec])
           /\ Scan(heap'[vec]) = Scan(Array)
           /\ CheckHolds(Array)
<1>1. ArrayOK
  BY ArrayIsOK
<1>2. heap'[vec] = Checked(Array) /\ \A b \in Block \ {vec} : heap'[b] = heap[b]
  BY <1>1 DEF ArrayOK, Core, TypeOK
<1> QED BY <1>1, <1>2, CheckedKeepsElements DEF ArrayOK, Array

LEMMA BehindNext == Core /\ Behind /\ [Next]_vars => Behind'
<1> SUFFICES ASSUME Core, Behind, [Next]_vars PROVE Behind'
  OBVIOUS
<1> USE DEF Behind
<1>0. crashes \in Nat /\ used \in SUBSET Block /\ op.size \in Nat /\ DOMAIN heap = Block
  BY BoundsAssumption DEF Core, TypeOK
<1>1. ASSUME NEW name \in Pushes, NEW e \in Elem, PushBack(name, e) PROVE Behind'
  BY <1>1 DEF PushBack
<1>2. ASSUME NEW n \in ResizeSizes, Resize(n) PROVE Behind'
  BY <1>2 DEF Resize
<1>3. CASE Reserve
  <2>1. PICK b \in Block \ used : /\ used' = used \union {b}
                                 /\ heap' = [heap EXCEPT ![b] = NewArray(op.size)]
    BY <1>3 DEF Reserve
  <2>2. heap'[b] = NewArray(op.size) /\ \A c \in used : heap'[c] = heap[c]
    BY <1>0, <2>1
  <2>3. heap'[b].nelem_ = Scan(heap'[b])
    BY <1>0, <2>2, NewArrayIsEmpty
  <2> QED BY <1>3, <2>1, <2>2, <2>3 DEF Reserve
<1>4. CASE ReserveFails
  BY <1>4 DEF ReserveFails, Finish
<1>5. CASE CheckSize
  <2>1. vec # Null
    BY <1>5 DEF CheckSize, Core, Control
  <2>2. CheckHolds(Array)
    BY <2>1, ArrayIsOK, CheckedKeepsElements DEF ArrayOK
  <2> QED BY <1>0, <1>5, <2>1, <2>2, HeapAfterCheck DEF CheckSize
<1>6. CASE Replace
  <2>1. ArrayOK
    BY <1>6, ArrayIsOK DEF Replace, Core, Control
  <2>2. PICK b \in Block \ used :
          /\ used' = used \union {b}
          /\ heap' = [heap EXCEPT ![vec] = Checked(Array), ![b] = CopyArray(Array, op.size)]
    BY <1>6 DEF Replace
  <2>3. /\ heap'[b] = CopyArray(Array, op.size)
        /\ heap'[vec] = Checked(Array)
        /\ \A c \in used \ {vec} : heap'[c] = heap[c]
    BY <1>0, <2>1, <2>2 DEF ArrayOK
  <2>4. heap'[b].nelem_ = Scan(heap'[b]) /\ heap'[vec].nelem_ = Scan(heap'[vec])
    BY <1>0, <1>6, <2>1, <2>3, CopyKeepsElements, CheckedKeepsElements DEF ArrayOK, Replace
  <2> QED BY <1>6, <2>2, <2>3, <2>4 DEF Replace
<1>7. CASE ReplaceRejected
  <2>1. vec # Null
    BY <1>7 DEF ReplaceRejected, Core, Control
  <2> QED BY <1>0, <1>7, <2>1, HeapAfterCheck DEF ReplaceRejected, Finish
<1>8. CASE ReplaceFails
  BY <1>8 DEF ReplaceFails, Finish
<1>9. CASE Release
  <2>1. \A c \in used' : heap'[c] = heap[c] /\ c \in used
    BY <1>0, <1>9 DEF Release, FreedByReplace
  <2> QED BY <1>9, <2>1 DEF Release
<1>10. CASE StoreElement
  <2>1. vec # Null /\ CheckHolds(Array) /\ ArrayOK
    BY <1>10, ArrayIsOK, CheckedKeepsElements DEF StoreElement, Core, Control, ArrayOK
  <2>2. CASE Scan(Array) = Array.allocatedSize_
    BY <1>0, <1>10, <2>1, <2>2, HeapAfterCheck DEF StoreElement, Finish
  <2>3. CASE Scan(Array) # Array.allocatedSize_
    <3>1. pc' = "count" /\ vec' = vec /\ used' = used /\ crashes' = crashes
      BY <1>10, <2>1, <2>3 DEF StoreElement
    <3>2. \A c \in used \ {vec} : heap'[c] = heap[c]
      BY <1>0, <1>10, <2>1, <2>3 DEF StoreElement
    <3> QED BY <1>10, <3>1, <3>2 DEF StoreElement
  <2> QED BY <2>2, <2>3
<1>11. CASE ElementFails
  <2>1. vec # Null
    BY <1>11 DEF ElementFails, Core, Control
  <2> QED BY <1>0, <1>11, <2>1, HeapAfterCheck DEF ElementFails, Finish
<1>12. CASE UpdateNelem
  <2>1. ArrayOK /\ Scan(Array) = Array.nelem_ + 1
    BY <1>12, ArrayIsOK DEF UpdateNelem, Core, Control
  <2>2. heap'[vec] = WithCount(Array) /\ \A c \in used \ {vec} : heap'[c] = heap[c]
    BY <1>0, <1>12, <2>1 DEF UpdateNelem, ArrayOK
  <2>3. heap'[vec].nelem_ = Scan(heap'[vec])
    BY <2>1, <2>2, CountCatchesUp DEF ArrayOK
  <2> QED BY <1>12, <2>2, <2>3 DEF UpdateNelem, Finish
<1>13. CASE Size
  BY <1>0, <1>13, HeapAfterCheck DEF Size
<1>14. CASE Free
  <2>1. \A c \in used' : heap'[c] = heap[c] /\ c \in used
    BY <1>0, <1>14 DEF Free
  <2> QED BY <1>14, <2>1 DEF Free
<1>15. CASE Restart
  BY <1>0, <1>15 DEF Restart
<1>16. CASE UNCHANGED vars
  BY <1>16 DEF vars
<1> QED
  BY <1>1, <1>2, <1>3, <1>4, <1>5, <1>6, <1>7, <1>8, <1>9, <1>10, <1>11, <1>12,
     <1>13, <1>14, <1>15, <1>16 DEF Next, CallStep

(* In every run the filled slots of an array are its first ones and the    *)
(* stored count is right, or one behind after a death or before the last   *)
(* step of a push_back.                                                    *)
THEOREM CountIsRepairable == Spec => []CountLagsByAtMostOne
<1>1. Init => Behind
  BY DEF Init, Behind
<1>2. Core /\ Behind => CountLagsByAtMostOne
  <2> SUFFICES ASSUME Core, Behind, NEW b \in used
               PROVE  LET a == heap[b] IN
                      /\ \A i \in 0..(a.allocatedSize_ - 1) :
                             (i < Scan(a)) <=> (a.elements_[i] # Null)
                      /\ Scan(a) - a.nelem_ \in {0, 1}
                      /\ Scan(a) # a.nelem_ => crashes > 0 \/ pc = "count"
    BY DEF CountLagsByAtMostOne
  <2>1. FilledTo(heap[b], Scan(heap[b])) /\ heap[b].nelem_ \in Nat
    BY DEF Core, Shapes, WellFilled, TypeOK, IsArray
  <2> QED BY <2>1 DEF FilledTo, Behind
<1> QED BY <1>1, <1>2, CoreInvariant, BehindNext, PTL DEF Spec

-----------------------------------------------------------------------------
(***************************************************************************)
(* Growth makes room.                                                      *)
(***************************************************************************)
LEMMA RoomNext == 0 \notin ResizeSizes /\ Core /\ Room /\ [Next]_vars => Room'
<1> SUFFICES ASSUME 0 \notin ResizeSizes, Core, Room, [Next]_vars PROVE Room'
  OBVIOUS
<1> USE DEF Room
<1>0. used \in SUBSET Block /\ op.size \in Nat /\ DOMAIN heap = Block
  BY DEF Core, TypeOK
<1>1. ASSUME NEW name \in Pushes, NEW e \in Elem, PushBack(name, e) PROVE Room'
  BY <1>1 DEF PushBack, Array
<1>2. ASSUME NEW n \in ResizeSizes, Resize(n) PROVE Room'
  BY <1>2, SizesAssumption DEF Resize, Array, Pushes
<1>3. CASE Reserve
  <2>1. PICK b \in Block \ used : /\ used' = used \union {b}
                                 /\ heap' = [heap EXCEPT ![b] = NewArray(op.size)]
    BY <1>3 DEF Reserve
  <2>2. heap'[b] = NewArray(op.size) /\ \A c \in used : heap'[c] = heap[c]
    BY <1>0, <2>1
  <2>3. heap'[b].allocatedSize_ >= 1
    BY <1>0, <1>3, <2>2, NewArrayIsEmpty DEF Reserve
  <2> QED BY <1>3, <2>1, <2>2, <2>3 DEF Reserve, Finish, NoOp, Pushes
<1>4. CASE ReserveFails
  BY <1>4 DEF ReserveFails, Finish, NoOp, Pushes
<1>5. CASE CheckSize
  <2>1. vec # Null
    BY <1>5 DEF CheckSize, Core, Control
  <2>2. /\ ArrayOK /\ CheckHolds(Array) /\ Scan(Array) \in Nat /\ Scan(Array) <= Array.allocatedSize_
    BY <2>1, ArrayIsOK, CheckedKeepsElements DEF ArrayOK
  <2>3. /\ heap' = [heap EXCEPT ![vec] = Checked(Array)] /\ vec' = vec /\ used' = used /\ reply' = reply
        /\ op'.name = op.name
    BY <1>5, <2>2 DEF CheckSize, Core, TypeOK
  <2>4. /\ \A b \in used' : heap'[b].allocatedSize_ >= 1
        /\ Scan(Array') = Scan(Array) /\ Array'.allocatedSize_ = Array.allocatedSize_
        /\ Array.allocatedSize_ >= 1
    BY <1>0, <2>1, <2>2, <2>3, HeapAfterCheck DEF ArrayOK, Array
  <2>5. CASE Scan(Array) = Array.allocatedSize_
    <3>1. pc' = "grow" /\ op'.size = 2 * Scan(Array)
      BY <1>5, <2>2, <2>5 DEF CheckSize, GrownSize, Core, TypeOK
    <3> QED BY <2>2, <2>3, <2>4, <2>5, <3>1
  <2>6. CASE Scan(Array) # Array.allocatedSize_
    <3>1. pc' = "store"
      BY <1>5, <2>2, <2>6 DEF CheckSize
    <3>2. Scan(Array) < Array.allocatedSize_
      BY <2>2, <2>6 DEF ArrayOK, IsArray
    <3> QED BY <2>3, <2>4, <3>1, <3>2
  <2> QED BY <2>5, <2>6
<1>6. CASE Replace
  <2>1. ArrayOK
    BY <1>6, ArrayIsOK DEF Replace, Core, Control
  <2>2. PICK b \in Block \ used :
          /\ vec' = b
          /\ used' = used \union {b}
          /\ heap' = [heap EXCEPT ![vec] = Checked(Array), ![b] = CopyArray(Array, op.size)]
    BY <1>6 DEF Replace
  <2>3. /\ heap'[b] = CopyArray(Array, op.size) /\ Array' = CopyArray(Array, op.size)
        /\ heap'[vec] = Checked(Array)
        /\ \A c \in used \ {vec} : heap'[c] = heap[c]
    BY <1>0, <2>1, <2>2 DEF ArrayOK, Array
  <2>4. /\ heap'[vec].allocatedSize_ = heap[vec].allocatedSize_
        /\ Array'.allocatedSize_ = op.size /\ Scan(Array') = Scan(Array)
        /\ op.size > Scan(Array) /\ Scan(Array) \in Nat
    BY <1>0, <1>6, <2>1, <2>3, CopyKeepsElements, CheckedKeepsElements
    DEF ArrayOK, Replace, CopyFits, Array
  <2> QED BY <1>0, <1>6, <2>1, <2>2, <2>3, <2>4 DEF Replace, ArrayOK
<1>7. CASE ReplaceRejected
  <2>1. vec # Null
    BY <1>7 DEF ReplaceRejected, Core, Control
  <2> QED BY <1>0, <1>7, <2>1, HeapAfterCheck DEF ReplaceRejected, Finish, NoOp, Pushes
<1>8. CASE ReplaceFails
  BY <1>8 DEF ReplaceFails, Finish, NoOp, Pushes
<1>9. CASE Release
  <2>1. \A c \in used' : heap'[c] = heap[c] /\ c \in used
    BY <1>0, <1>9 DEF Release, FreedByReplace
  <2>2. vec # old /\ vec \in used /\ vec' = vec
    BY <1>9 DEF Release, Core, Control, Pointers, NeverPointsAtFreedArray
  <2>3. Array' = Array
    BY <1>0, <1>9, <2>2 DEF Release, FreedByReplace, Array
  <2> QED BY <1>9, <2>1, <2>3 DEF Release, Finish, NoOp, Pushes, Core, Control, TypeOK
<1>10. CASE StoreElement
  <2>1. vec # Null /\ CheckHolds(Array) /\ ArrayOK /\ Scan(Array) # Array.allocatedSize_
        /\ op.elem \in Elem
    <3>1. vec # Null /\ op.elem \in Elem /\ pc = "store"
      BY <1>10 DEF StoreElement, Core, Control
    <3>2. ArrayOK
      BY <3>1, ArrayIsOK
    <3> QED BY <3>1, <3>2, CheckedKeepsElements DEF ArrayOK
  <2> DEFINE C == Checked(Array)
             W == WithElement(C, op.elem)
  <2>2. heap' = [heap EXCEPT ![vec] = W] /\ UNCHANGED <<vec, used, op, reply>> /\ pc' = "count"
    BY <1>10, <2>1 DEF StoreElement
  <2>3. heap'[vec] = W /\ \A c \in used \ {vec} : heap'[c] = heap[c]
    BY <1>0, <2>1, <2>2 DEF ArrayOK
  <2>4. /\ IsArray(C) /\ WellFilled(C) /\ C.nelem_ = Scan(C) /\ Scan(C) <= C.allocatedSize_
        /\ C.allocatedSize_ = Array.allocatedSize_ /\ Scan(C) = Scan(Array) /\ Scan(C) \in Nat
    BY <2>1, CheckedKeepsElements DEF ArrayOK
  <2>5. Scan(C) < C.allocatedSize_
    BY <2>1, <2>4 DEF IsArray
  <2>6. W.allocatedSize_ = Array.allocatedSize_
    BY <2>1, <2>4, <2>5, StoreAddsOne
  <2> QED BY <2>1, <2>2, <2>3, <2>6 DEF ArrayOK, Array
<1>11. CASE ElementFails
  <2>1. vec # Null
    BY <1>11 DEF ElementFails, Core, Control
  <2> QED BY <1>0, <1>11, <2>1, HeapAfterCheck DEF ElementFails, Finish, NoOp, Pushes
<1>12. CASE UpdateNelem
  <2>1. ArrayOK /\ Scan(Array) = Array.nelem_ + 1
    BY <1>12, ArrayIsOK DEF UpdateNelem, Core, Control
  <2>2. heap'[vec] = WithCount(Array) /\ \A c \in used \ {vec} : heap'[c] = heap[c]
    BY <1>0, <1>12, <2>1 DEF UpdateNelem, ArrayOK
  <2>3. heap'[vec].allocatedSize_ = heap[vec].allocatedSize_
    BY <2>1, <2>2, CountCatchesUp DEF ArrayOK, Array
  <2> QED BY <1>12, <2>2, <2>3 DEF UpdateNelem, Finish, NoOp, Pushes
<1>13. CASE Size
  <2>1. op.name \notin Pushes /\ pc = "idle"
    BY <1>13 DEF Size, Core, Control, Pushes
  <2> QED BY <1>0, <1>13, <2>1, HeapAfterCheck DEF Size
<1>14. CASE Free
  <2>1. \A c \in used' : heap'[c] = heap[c] /\ c \in used
    BY <1>0, <1>14 DEF Free
  <2> QED BY <1>14, <2>1 DEF Free, Core, Control, Pushes
<1>15. CASE Restart
  BY <1>15 DEF Restart, NoOp, Pushes
<1>16. CASE UNCHANGED vars
  BY <1>16 DEF vars, Array
<1> QED
  BY <1>1, <1>2, <1>3, <1>4, <1>5, <1>6, <1>7, <1>8, <1>9, <1>10, <1>11, <1>12,
     <1>13, <1>14, <1>15, <1>16 DEF Next, CallStep

(* A program that never reserves an empty array never sees a push_back end *)
(* with a failed assertion or a full vector: doubling makes room, and what *)
(* consistency_check asserts holds whenever it runs, restarts included.    *)
THEOREM PushBackFits ==
    ASSUME 0 \notin ResizeSizes
    PROVE  Spec => PushBackAlwaysFits
<1>1. Init => Room
  BY DEF Init, Room, NoOp, Pushes
<1>2. Core /\ Room /\ [Next]_vars => Room'
  BY RoomNext
<1>3. Core /\ Room /\ [Next]_vars =>
        [op.name \in Pushes => reply' \notin {"AssertionFailed", "OutOfRange"}]_vars
  <2> SUFFICES ASSUME Core, Room, Next, op.name \in Pushes
               PROVE  reply' \notin {"AssertionFailed", "OutOfRange"}
    OBVIOUS
  <2>1. reply = "none" /\ pc # "idle"
    BY DEF Room, Core, Control, Pushes
  <2>2. ASSUME vec # Null PROVE CheckHolds(Array) /\ Scan(Array) \in Nat
    BY <2>2, ArrayIsOK, CheckedKeepsElements DEF ArrayOK
  <2>3. CASE CheckSize
    BY <2>1, <2>2, <2>3 DEF CheckSize, Core, Control
  <2>4. CASE ReplaceRejected
    BY <2>2, <2>4 DEF ReplaceRejected, Core, Control, Room, CopyFits, TypeOK
  <2>5. CASE StoreElement
    <3>1. vec # Null /\ ArrayOK /\ Scan(Array) < Array.allocatedSize_
      BY <2>5, ArrayIsOK DEF StoreElement, Core, Control, Room
    <3>2. Scan(Array) # Array.allocatedSize_
      BY <2>2, <3>1 DEF ArrayOK, IsArray
    <3> QED BY <2>1, <2>2, <2>5, <3>1, <3>2 DEF StoreElement
  <2>6. CASE ~(CheckSize \/ ReplaceRejected \/ StoreElement)
    BY <2>1, <2>6
    DEF Next, CallStep, PushBack, Resize, Reserve, ReserveFails, Replace, ReplaceFails, Release,
        ElementFails, UpdateNelem, Size, Free, Restart, Finish
  <2> QED BY <2>3, <2>4, <2>5, <2>6
<1> QED BY <1>1, <1>2, <1>3, CoreInvariant, PTL DEF Spec, PushBackAlwaysFits

-----------------------------------------------------------------------------
(***************************************************************************)
(* Lost arrays and unconfirmed elements.                                   *)
(***************************************************************************)
LEMMA OrphansNext == Core /\ OrphansOnlyByDeath /\ [Next]_vars => OrphansOnlyByDeath'
<1> SUFFICES ASSUME Core, OrphansOnlyByDeath, [Next]_vars PROVE OrphansOnlyByDeath'
  OBVIOUS
<1>1. used \subseteq Block /\ Null \notin used /\ IsFiniteSet(used)
  BY BlockAssumption, NullAssumption, FS_Subset DEF Core, TypeOK
<1>2. IsFiniteSet(Orphans)
  BY <1>1, FS_Subset DEF Orphans
<1>3. crashes \in Nat /\ Cardinality(Orphans) \in Nat
  BY <1>2, BoundsAssumption, FS_CardinalityType DEF Core, TypeOK
<1>4. CASE Restart
  <2>1. Orphans' \subseteq Orphans \union {old}
    BY <1>4 DEF Restart, Orphans
  <2>2. /\ IsFiniteSet(Orphans \union {old})
        /\ Cardinality(Orphans \union {old}) <= Cardinality(Orphans) + 1
    BY <1>2, <1>3, FS_AddElement
  <2>3. Cardinality(Orphans') <= Cardinality(Orphans \union {old}) /\ Cardinality(Orphans') \in Nat
    BY <2>1, <2>2, FS_Subset, FS_CardinalityType
  <2>4. Cardinality(Orphans \union {old}) \in Nat
    BY <2>2, FS_CardinalityType
  <2> QED BY <1>3, <1>4, <2>2, <2>3, <2>4 DEF Restart, OrphansOnlyByDeath
<1>5. CASE ~Restart
  <2>1. Orphans' = Orphans /\ crashes' = crashes
    <3>1. CASE Reserve
      BY <1>1, <3>1 DEF Reserve, Orphans, Core, Control, Pointers
    <3>2. CASE Replace
      BY <1>1, <3>2 DEF Replace, Orphans, Core, Pointers
    <3>3. CASE Release
      BY <1>1, <3>3 DEF Release, FreedByReplace, Orphans
    <3>4. CASE Free
      BY <1>1, <3>4 DEF Free, Orphans
    <3>5. CASE ~(Reserve \/ Replace \/ Release \/ Free)
      BY <1>5, <3>5
      DEF Next, CallStep, vars, Orphans, PushBack, Resize, ReserveFails, CheckSize, ReplaceRejected,
          ReplaceFails, StoreElement, ElementFails, UpdateNelem, Size
    <3> QED BY <3>1, <3>2, <3>3, <3>4, <3>5
  <2> QED BY <2>1 DEF OrphansOnlyByDeath
<1> QED BY <1>4, <1>5

(* In every run the arrays nobody can reach are at most one per death of   *)
(* the process: exceptions never lose one.                                 *)
THEOREM OrphansCounted == Spec => []OrphansOnlyByDeath
<1>1. Init => OrphansOnlyByDeath
  BY FS_EmptySet DEF Init, OrphansOnlyByDeath, Orphans
<1> QED BY <1>1, CoreInvariant, OrphansNext, PTL DEF Spec

LEMMA ConfirmedNext == Core /\ Kept /\ Confirmed /\ [Next]_vars => Confirmed'
<1> SUFFICES ASSUME Core, Kept, Confirmed, [Next]_vars PROVE Confirmed'
  OBVIOUS
<1>1. Filled \in Nat /\ crashes \in Nat /\ Cardinality(acked) \in Nat /\ IsFiniteSet(acked)
  BY FilledIsNat, FS_CardinalityType, BoundsAssumption DEF FilledOK, Core, TypeOK, Confirmed
<1>2. CASE Keeps
  BY <1>1, <1>2 DEF Keeps, SameContent, Confirmed
<1>3. CASE Stores
  BY <1>1, <1>3 DEF Stores, Confirmed
<1>4. CASE Returns
  <2>1. \A p \in acked : p[1] < Array.nelem_
    BY <1>4 DEF Returns, Kept
  <2>2. Array.nelem_ \in Nat
    BY <1>4, ArrayIsOK DEF Returns, Core, Control, ArrayOK, IsArray
  <2>3. <<Array.nelem_, op.elem>> \notin acked
    BY <2>1, <2>2
  <2>4. /\ IsFiniteSet(acked')
        /\ Cardinality(acked') = Cardinality(acked) + 1
    BY <1>1, <1>4, <2>3, FS_AddElement DEF Returns
  <2> QED BY <1>1, <1>4, <2>4 DEF Returns, SameContent, Confirmed
<1>5. CASE Empties
  BY <1>1, <1>5, FS_EmptySet DEF Empties, Free, Confirmed
<1>6. CASE UNCHANGED vars
  BY <1>6 DEF vars, Confirmed, Filled, Array
<1> QED BY <1>2, <1>3, <1>4, <1>5, <1>6, ContentStep

(* In every run the vector holds no element beyond those whose push_back   *)
(* returned, the one being returned, and one for each death.               *)
THEOREM NoDuplicates == Spec => []UnconfirmedOnlyByDeath
<1>1. Init => Kept /\ Confirmed
  BY FS_EmptySet DEF Init, Kept, AckedElementsKept, Confirmed, Filled
<1>2. Core /\ Confirmed => UnconfirmedOnlyByDeath
  <2> SUFFICES ASSUME Core, Confirmed PROVE UnconfirmedOnlyByDeath
    OBVIOUS
  <2>1. Filled \in Nat /\ Content = [i \in 1..Filled |-> Array.elements_[i - 1]]
    BY FilledIsNat DEF FilledOK
  <2>2. Len(Content) = Filled
    BY <2>1
  <2> QED BY <2>2 DEF Confirmed, UnconfirmedOnlyByDeath
<1> QED BY <1>1, <1>2, CoreInvariant, KeptNext, ConfirmedNext, PTL DEF Spec

-----------------------------------------------------------------------------
(***************************************************************************)
(* The vector is an append-only log.                                       *)
(***************************************************************************)

(* A step that keeps the filled slots keeps the log. *)
LEMMA SameLog == FilledOK /\ FilledOK' /\ SameContent => Content' = Content
<1> SUFFICES ASSUME FilledOK, FilledOK', SameContent PROVE Content' = Content
  OBVIOUS
<1>1. Filled \in Nat /\ Filled' = Filled
  BY DEF FilledOK, SameContent
<1>2. \A i \in 1..Filled : Array'.elements_[i - 1] = Array.elements_[i - 1]
  BY <1>1 DEF SameContent
<1>3. /\ Content = [i \in 1..Filled |-> Array.elements_[i - 1]]
      /\ Content' = [i \in 1..Filled' |-> Array'.elements_[i - 1]]
  BY DEF FilledOK, Array
<1> QED BY <1>1, <1>2, <1>3

(* The elements of the log are elements. *)
LEMMA ContentIsSequence == Core => Content \in Seq(Elem)
<1> SUFFICES ASSUME Core PROVE Content \in Seq(Elem)
  OBVIOUS
<1>1. FilledOK
  BY FilledIsNat
<1>2. ASSUME NEW i \in 1..Filled PROVE Array.elements_[i - 1] \in Elem
  <2>1. vec # Null /\ Filled = Scan(Array) /\ ArrayOK
    BY <1>1, <1>2, ArrayIsOK DEF FilledOK
  <2>2. FilledTo(Array, Filled) /\ IsArray(Array)
    BY <2>1 DEF ArrayOK, WellFilled
  <2> QED BY <1>1, <1>2, <2>2 DEF FilledOK, FilledTo, IsArray
<1>3. Content = [i \in 1..Filled |-> Array.elements_[i - 1]] /\ Filled \in Nat
  BY <1>1 DEF FilledOK
<1> QED BY <1>2, <1>3

(* Storing an element appends it. *)
LEMMA StoreAppends == Core /\ Core' /\ Stores => Content' = Append(Content, op.elem)
<1> SUFFICES ASSUME Core, Core', Stores PROVE Content' = Append(Content, op.elem)
  OBVIOUS
<1>1. FilledOK /\ FilledOK' /\ Content \in Seq(Elem)
  BY FilledIsNat, FilledIsNatNext, ContentIsSequence
<1>2. /\ Content = [i \in 1..Filled |-> Array.elements_[i - 1]] /\ Filled \in Nat
      /\ Content' = [i \in 1..(Filled + 1) |-> Array'.elements_[i - 1]]
  BY <1>1 DEF FilledOK, Array, Stores
<1>3. /\ \A i \in 1..Filled : Array'.elements_[i - 1] = Array.elements_[i - 1]
      /\ Array'.elements_[(Filled + 1) - 1] = op.elem
  BY <1>2 DEF Stores
<1>4. Len(Content) = Filled
  BY <1>2
<1>5. Append(Content, op.elem) =
        [i \in 1..(Filled + 1) |-> IF i <= Filled THEN Content[i] ELSE op.elem]
  BY <1>1, <1>2, <1>4
<1>6. ASSUME NEW i \in 1..(Filled + 1)
      PROVE  Array'.elements_[i - 1] = IF i <= Filled THEN Content[i] ELSE op.elem
  <2>1. CASE i <= Filled
    BY <1>2, <1>3, <2>1
  <2>2. CASE ~(i <= Filled)
    <3>1. i = Filled + 1
      BY <1>2, <2>2
    <3> QED BY <1>3, <2>2, <3>1
  <2> QED BY <2>1, <2>2
<1> QED BY <1>2, <1>5, <1>6

LEMMA RefinementInit == Init => Abstract!Init
  BY DEF Init, Abstract!Init, Content, AbstractStatus, AbstractReply, NoOp, Pushes, Errors

LEMMA RefinementNext == Core /\ Core' /\ [Next]_vars => [Abstract!Next]_(Abstract!vars)
<1> SUFFICES ASSUME Core, Core', [Next]_vars
             PROVE  Abstract!Next \/ UNCHANGED Abstract!vars
  OBVIOUS
<1> USE DEF AbstractStatus, AbstractReply, Pushes, Errors, NoOp
<1>1. FilledOK /\ FilledOK'
  BY FilledIsNat, FilledIsNatNext
<1>2. ASSUME UNCHANGED vars PROVE UNCHANGED Abstract!vars
  BY <1>2 DEF vars, Abstract!vars, Content, Array
<1>3. ASSUME Stores PROVE Abstract!Store
  BY <1>3, StoreAppends DEF Stores, Abstract!Store, Core, Control
<1>4. ASSUME Empties PROVE Abstract!Free
  BY <1>4 DEF Empties, Free, Abstract!Free, Content, Core, Control
<1>5. ASSUME Returns, Next PROVE Abstract!Return
  <2>1. Content' = Content
    BY <1>1, <1>5, SameLog DEF Returns
  <2>2. CASE UpdateNelem
    BY <2>1, <2>2 DEF UpdateNelem, Finish, Abstract!Return, Core, Control
  <2>3. CASE Restart
    BY <1>5, <2>3, BoundsAssumption DEF Restart, Returns, Core, TypeOK
  <2>4. CASE ~(UpdateNelem \/ Restart)
    BY <1>5, <2>4
    DEF Returns, Next, CallStep, PushBack, Resize, Reserve, ReserveFails, CheckSize, Replace,
        ReplaceRejected, ReplaceFails, Release, StoreElement, ElementFails, Size, Free, Finish
  <2> QED BY <2>2, <2>3, <2>4
<1>6. ASSUME Keeps, Next PROVE Abstract!Next \/ UNCHANGED Abstract!vars
  <2>1. Content' = Content
    BY <1>1, <1>6, SameLog DEF Keeps
  <2>2. ASSUME NEW name \in Pushes, NEW e \in Elem, PushBack(name, e) PROVE Abstract!Call(e)
    BY <2>1, <2>2 DEF PushBack, Abstract!Call, Core, Control
  <2>3. ASSUME NEW n \in ResizeSizes, Resize(n) PROVE Abstract!Maintain
    BY <2>1, <2>3 DEF Resize, Abstract!Maintain, Core, Control, TypeOK
  <2>4. CASE Restart
    BY <2>1, <2>4 DEF Restart, Abstract!Restart, Abstract!Next
  <2>5. CASE Size
    BY <2>1, <2>5 DEF Size, Abstract!Maintain, Abstract!Next, Core, Control, TypeOK
  <2>6. ASSUME op'.name = op.name, op'.elem = op.elem, reply' = reply, ~Restart
        PROVE  UNCHANGED Abstract!vars
    <3>1. crashes' = crashes /\ crashes \in Nat
      BY <1>6, <2>6, BoundsAssumption
      DEF Core, TypeOK, Next, CallStep, PushBack, Resize, Reserve, ReserveFails, CheckSize, Replace, ReplaceRejected,
          ReplaceFails, Release, StoreElement, ElementFails, UpdateNelem, Size, Free
    <3>2. pc # "count" /\ pc' # "count"
      BY <1>6, <3>1 DEF Keeps
    <3> QED BY <2>1, <2>6, <3>2 DEF Abstract!vars
  <2>7. ASSUME NEW r \in Errors, Finish(r), pc \notin {"idle", "count"}
        PROVE  Abstract!Throw \/ Abstract!Maintain
    <3>1. CASE op.name \in {"push_back_ctr", "push_back_elem"}
      BY <2>1, <2>7, <3>1 DEF Finish, Abstract!Throw, Core, Control, TypeOK
    <3>2. CASE op.name \notin {"push_back_ctr", "push_back_elem"}
      BY <2>1, <2>7, <3>2 DEF Finish, Abstract!Maintain, Core, Control, TypeOK
    <3> QED BY <3>1, <3>2
  <2>8. ASSUME Finish("ok"), op.name = "resize" PROVE Abstract!Maintain
    BY <2>1, <2>8 DEF Finish, Abstract!Maintain, Core, Control, TypeOK
  <2>9. CASE Reserve \/ ReserveFails
    BY <2>6, <2>7, <2>8, <2>9 DEF Reserve, ReserveFails, Restart, Abstract!Next, Core, TypeOK
  <2>10. CASE CheckSize
    <3>1. ~Restart /\ pc = "size"
      BY <2>10, BoundsAssumption DEF CheckSize, Restart, Core, TypeOK
    <3> QED BY <2>6, <2>7, <2>10, <3>1 DEF CheckSize, Abstract!Next, Core, TypeOK
  <2>11. CASE Replace \/ ReplaceRejected \/ ReplaceFails
    BY <2>6, <2>7, <2>11
    DEF Replace, ReplaceRejected, ReplaceFails, Restart, Abstract!Next, Core, TypeOK
  <2>12. CASE Release
    BY <2>6, <2>8, <2>12 DEF Release, Restart, Abstract!Next, Core, TypeOK
  <2>13. CASE StoreElement \/ ElementFails
    BY <1>6, <2>7, <2>13 DEF StoreElement, ElementFails, Keeps, Abstract!Next
  <2>14. CASE UpdateNelem
    BY <1>6, <2>14, BoundsAssumption DEF UpdateNelem, Keeps, Core, TypeOK
  <2>15. CASE Free
    BY <2>15 DEF Free, Abstract!Free, Abstract!Next, Content, Core, Control
  <2> QED BY <1>6, <2>2, <2>3, <2>4, <2>5, <2>9, <2>10, <2>11, <2>12, <2>13, <2>14, <2>15
          DEF Next, CallStep, Abstract!Next
<1> QED BY <1>2, <1>3, <1>4, <1>5, <1>6, ContentStep DEF Abstract!Next

(* Every run of the vector, with its growth, its repairs, its exceptions   *)
(* and its restarts, is a run of the append-only log.                      *)
THEOREM Refinement == Spec => ImplementsAppendOnlyVector
<1>1. Init => Abstract!Init
  BY RefinementInit
<1>2. Core /\ Core' /\ [Next]_vars => [Abstract!Next]_(Abstract!vars)
  BY RefinementNext
<1> QED BY <1>1, <1>2, CoreInvariant, PTL DEF Spec, Abstract!Spec, ImplementsAppendOnlyVector
=============================================================================
