------------------------- MODULE PersistentPODVector -------------------------
(***************************************************************************)
(* PersistentPODVector<T> (PersistentPODVector.h): like PersistentVector,  *)
(* but the elements are plain values stored in the array itself.  There is *)
(* no null value to recover the count from: an element exists once nelem_  *)
(* covers it.  A value can be wider than a word, so a death can leave it   *)
(* half written; the slots a constructor does not fill hold whatever the   *)
(* memory held.  Both are written Junk here.                               *)
(***************************************************************************)
EXTENDS Integers, Sequences, FiniteSets

CONSTANTS Value,        \* the values that are appended
          Junk,         \* the content of a slot nobody has finished writing
          Block,        \* the places of the pool where an array can be put
          Null,         \* OID_NULL
          ResizeSizes,  \* the sizes a program passes to resize()
          MaxElems,     \* bound: no push_back starts on a vector this long
          MaxCrashes    \* bound on the deaths of the process

ASSUME PODNullAssumption == Null \notin Block /\ Null \notin Value /\ Junk \notin Value
ASSUME PODSizesAssumption == ResizeSizes \subseteq Nat
ASSUME PODBoundsAssumption == MaxElems \in Nat /\ MaxCrashes \in Nat

VARIABLES vec,      \* the PersistentPtr to the array
          heap,     \* the array stored at each block
          used,     \* the blocks the allocator holds as allocated
          pc,       \* where the call being executed stands
          op,       \* its name, its value and the size it wants the array to have
          old,      \* oid_tmp of replace_ctr
          reply,    \* how the last call ended
          crashes   \* history: how many times the process died

podVars == <<vec, heap, used, pc, op, old, reply, crashes>>

-----------------------------------------------------------------------------
(* The constructor leaves the slots uninitialised. *)
NewPODArray(n) == [nelem_ |-> 0,
                   allocatedSize_ |-> n,
                   elements_ |-> [i \in 0..(n - 1) |-> Junk]]

CopyPODFits(source, n) == n > source.nelem_
CopyPODArray(source, n) ==
    [nelem_ |-> source.nelem_,
     allocatedSize_ |-> n,
     elements_ |-> [i \in 0..(n - 1) |->
                        IF i < source.nelem_ THEN source.elements_[i] ELSE Junk]]

full(a) == a.nelem_ = a.allocatedSize_

(* Slip: the value goes to the slot before the next one. *)
LastSlot(a) == IF a.nelem_ = 0 THEN 0 ELSE a.nelem_ - 1

NextSlot(a) == a.nelem_
WithValue(a, v) == [a EXCEPT !.elements_[NextSlot(a)] = v]

Incremented(a) == [a EXCEPT !.nelem_ = a.nelem_ + 1]

-----------------------------------------------------------------------------
PODNoOp == [name |-> "none", value |-> Null, size |-> 0]
PODErrors == {"AllocationError", "AssertionFailed", "OutOfRange"}
PODArray == heap[vec]

(* What size() and operator[] show of the vector. *)
PODContent == IF vec = Null THEN <<>>
              ELSE [i \in 1..PODArray.nelem_ |-> PODArray.elements_[i - 1]]

PODInit == /\ vec = Null
           /\ heap = [b \in Block |-> NewPODArray(0)]
           /\ used = {}
           /\ pc = "idle"
           /\ op = PODNoOp
           /\ old = Null
           /\ reply = "none"
           /\ crashes = 0

PODFinish(r) == /\ pc' = "idle"
                /\ op' = PODNoOp
                /\ reply' = r

(* push_back(value) is called. *)
PODPushBack(v) ==
    /\ pc = "idle"
    /\ Len(PODContent) < MaxElems
    /\ op' = [name |-> "push_back", value |-> v, size |-> 1]
    /\ pc' = IF vec = Null THEN "reserve" ELSE "size"
    /\ reply' = "none"
    /\ UNCHANGED <<vec, heap, used, old, crashes>>

(* resize(new_size) is called. *)
PODResize(n) ==
    /\ pc = "idle"
    /\ op' = [name |-> "resize", value |-> Null, size |-> n]
    /\ pc' = IF vec = Null THEN "reserve" ELSE "grow"
    /\ reply' = "none"
    /\ UNCHANGED <<vec, heap, used, old, crashes>>

(* allocate(op.size) of a null vector. *)
PODReserve ==
    /\ pc = "reserve"
    /\ \E b \in Block \ used :
          /\ vec' = b
          /\ used' = used \union {b}
          /\ heap' = [heap EXCEPT ![b] = NewPODArray(op.size)]
    /\ IF op.name = "resize" THEN PODFinish("ok")
       ELSE pc' = "size" /\ UNCHANGED <<op, reply>>
    /\ UNCHANGED <<old, crashes>>

(* The allocator finds no memory for the array, the first or a larger one. *)
PODAllocationFails ==
    /\ pc \in {"reserve", "grow"}
    /\ PODFinish("AllocationError")
    /\ UNCHANGED <<vec, heap, used, old, crashes>>

(* full(): a full array is to be replaced by one of twice its size. *)
PODCheckFull ==
    /\ pc = "size"
    /\ IF full(PODArray)
       THEN pc' = "grow" /\ op' = [op EXCEPT !.size = 2 * PODArray.nelem_]
       ELSE pc' = "store" /\ UNCHANGED op
    /\ UNCHANGED <<vec, heap, used, old, reply, crashes>>

(* replace by a copy of op.size slots: the allocator publishes it.         *)
PODReplace ==
    /\ pc = "grow"
    /\ CopyPODFits(PODArray, op.size)
    /\ \E b \in Block \ used :
          /\ vec' = b
          /\ used' = used \union {b}
          /\ heap' = [heap EXCEPT ![b] = CopyPODArray(PODArray, op.size)]
    /\ old' = vec
    /\ pc' = "release"
    /\ UNCHANGED <<op, reply, crashes>>

(* The assertion of the copying constructor escapes. *)
PODReplaceRejected ==
    /\ pc = "grow"
    /\ ~CopyPODFits(PODArray, op.size)
    /\ PODFinish("AssertionFailed")
    /\ UNCHANGED <<vec, heap, used, old, crashes>>

(* ::pmemobj_free(&oid_tmp). *)
PODRelease ==
    /\ pc = "release"
    /\ used' = used \ {old}
    /\ heap' = [heap EXCEPT ![old] = NewPODArray(0)]
    /\ old' = Null
    /\ IF op.name = "resize" THEN PODFinish("ok")
       ELSE pc' = "store" /\ UNCHANGED <<op, reply>>
    /\ UNCHANGED <<vec, crashes>>

(* Slip: the count is updated before the value is stored. *)
PODBeginStoreCounted ==
    /\ pc = "store"
    /\ IF full(PODArray) THEN PODFinish("OutOfRange") /\ UNCHANGED heap
       ELSE /\ heap' = [heap EXCEPT ![vec] = Incremented(WithValue(PODArray, Junk))]
            /\ pc' = "write"
            /\ UNCHANGED <<op, reply>>
    /\ UNCHANGED <<vec, used, old, crashes>>

(* elements_[nelem_] = value begins: until it ends the slot is half written. *)
PODBeginStore ==
    /\ pc = "store"
    /\ IF full(PODArray) THEN PODFinish("OutOfRange") /\ UNCHANGED heap
       ELSE /\ heap' = [heap EXCEPT ![vec] = WithValue(PODArray, Junk)]
            /\ pc' = "write"
            /\ UNCHANGED <<op, reply>>
    /\ UNCHANGED <<vec, used, old, crashes>>

(* The value is whole and persisted. *)
PODEndStore ==
    /\ pc = "write"
    /\ heap' = [heap EXCEPT ![vec] = WithValue(PODArray, op.value)]
    /\ pc' = "count"
    /\ UNCHANGED <<vec, used, op, old, reply, crashes>>

(* ++nelem_, persisted. *)
PODCount ==
    /\ pc = "count"
    /\ heap' = [heap EXCEPT ![vec] = Incremented(PODArray)]
    /\ pc' = "return"
    /\ UNCHANGED <<vec, used, op, old, reply, crashes>>

PODReturn ==
    /\ pc = "return"
    /\ PODFinish("ok")
    /\ UNCHANGED <<vec, heap, used, old, crashes>>

(* free() of the vector's pointer. *)
PODFree ==
    /\ pc = "idle"
    /\ vec # Null
    /\ used' = used \ {vec}
    /\ heap' = [heap EXCEPT ![vec] = NewPODArray(0)]
    /\ vec' = Null
    /\ reply' = "ok"
    /\ UNCHANGED <<pc, op, old, crashes>>

(* The process dies and a new one opens the pool. *)
PODRestart ==
    /\ crashes < MaxCrashes
    /\ crashes' = crashes + 1
    /\ pc' = "idle"
    /\ op' = PODNoOp
    /\ old' = Null
    /\ reply' = "none"
    /\ UNCHANGED <<vec, heap, used>>

PODNext == \/ \E v \in Value : PODPushBack(v)
           \/ \E n \in ResizeSizes : PODResize(n)
           \/ PODReserve \/ PODAllocationFails
           \/ PODCheckFull
           \/ PODReplace \/ PODReplaceRejected
           \/ PODRelease
           \/ PODBeginStore \/ PODEndStore
           \/ PODCount \/ PODReturn
           \/ PODFree
           \/ PODRestart

PODSpec == PODInit /\ [][PODNext]_podVars

-----------------------------------------------------------------------------
IsPODArray(a) ==
    /\ a = [nelem_ |-> a.nelem_,
            allocatedSize_ |-> a.allocatedSize_,
            elements_ |-> a.elements_]
    /\ a.allocatedSize_ \in Nat
    /\ a.nelem_ \in 0 .. a.allocatedSize_
    /\ a.elements_ \in [0..(a.allocatedSize_ - 1) -> Value \union {Junk}]

(* The type invariant, with the assertion of size() and full() that the    *)
(* count does not exceed the space.                                        *)
PODTypeOK ==
    /\ vec \in Block \union {Null}
    /\ DOMAIN heap = Block
    /\ \A b \in Block : IsPODArray(heap[b])
    /\ used \in SUBSET Block
    /\ pc \in {"idle", "reserve", "size", "grow", "release", "store", "write",
               "count", "return"}
    /\ op \in [name : {"none", "push_back", "resize"},
               value : Value \union {Null}, size : Nat]
    /\ old \in Block \union {Null}
    /\ reply \in {"none", "ok"} \union PODErrors
    /\ crashes \in 0..MaxCrashes

(* A reader never sees a slot nobody finished writing: not one a growth    *)
(* left uninitialised, not one a death cut in two, in no allocated array.  *)
(* This is what "it is considered not to have happened yet" relies on      *)
(* (PersistentPODVector.h, push_back).                                     *)
CountedValuesAreWhole ==
    /\ PODTypeOK
    /\ \A b \in used : \A i \in 0..(heap[b].nelem_ - 1) : heap[b].elements_[i] # Junk

PODAbstractStatus == IF op.name # "push_back" THEN "idle"
                     ELSE IF pc = "return" THEN "stored" ELSE "pending"
PODAbstractReply == IF reply \in PODErrors THEN "thrown" ELSE reply

PODAbstract == INSTANCE AppendOnlyVector
                   WITH Elem <- Value,
                        NoElem <- Null,
                        log <- PODContent,
                        status <- PODAbstractStatus,
                        arg <- op.value,
                        reply <- PODAbstractReply

(* The vector of values keeps the same promise as the vector of pointers:  *)
(* it is an append-only log, and a value is in it from ++nelem_ on.        *)
PODImplementsAppendOnlyVector == PODAbstract!Spec
=============================================================================
