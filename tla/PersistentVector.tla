-------------------------- MODULE PersistentVector --------------------------
(***************************************************************************)
(* PersistentVector<T> and PersistentVectorData<T> (PersistentVector.h):   *)
(* an extensible array of PersistentPtrs whose data lives in a persistent  *)
(* pool.  One process uses the vector (the library does no locking); the   *)
(* process can die between any two durable effects of a call, and a new    *)
(* process then opens the pool and carries on with what it finds there.    *)
(*                                                                         *)
(* An action is one durable effect, with the volatile work around it: an   *)
(* atomic ::pmemobj_alloc or ::pmemobj_free, or a store of one word that   *)
(* is persisted at once.  The state that a death loses is pc, op and old;  *)
(* all the rest is in the pool or is a history variable.                   *)
(***************************************************************************)
EXTENDS Integers, Sequences, FiniteSets

CONSTANTS Elem,         \* the objects whose pointers are appended
          Block,        \* the places of the pool where an array can be put
          Null,         \* OID_NULL
          ResizeSizes,  \* the sizes a program passes to resize()
          MaxElems,     \* bound: no push_back starts on a vector this long
          MaxCrashes    \* bound on the deaths of the process

ASSUME NullAssumption == Null \notin Elem /\ Null \notin Block
ASSUME SizesAssumption == ResizeSizes \subseteq Nat
ASSUME BoundsAssumption == MaxElems \in Nat /\ MaxCrashes \in Nat
ASSUME BlockAssumption == IsFiniteSet(Block)

VARIABLES vec,      \* the PersistentPtr to the array (the vector is that pointer)
          heap,     \* the array stored at each block
          used,     \* the blocks the allocator holds as allocated
          pc,       \* where the call being executed stands
          op,       \* its name, its element and the size it wants the array to have
          old,      \* oid_tmp of replace_ctr: the array that is being replaced
          reply,    \* how the last call ended
          acked,    \* history: <<slot, element>> of every push_back that returned
          crashes   \* history: how many times the process died

vars == <<vec, heap, used, pc, op, old, reply, acked, crashes>>

(***************************************************************************)
(* PersistentVectorData: the array and its pure operations.                *)
(***************************************************************************)
NewArray(n) == [nelem_ |-> 0,
                allocatedSize_ |-> n,
                elements_ |-> [i \in 0..(n - 1) |-> Null]]

(* What consistency_check() leaves in nelem_: the first slot at or after   *)
(* nelem_ that is null, or the end of the array.                           *)
IsScanOf(n, a) == /\ n \in a.nelem_ .. a.allocatedSize_
                  /\ \A i \in a.nelem_ .. (n - 1) : a.elements_[i] # Null
                  /\ n < a.allocatedSize_ => a.elements_[n] = Null

Scan(a) == IF a.nelem_ >= a.allocatedSize_ THEN a.nelem_
           ELSE CHOOSE n \in a.nelem_ .. a.allocatedSize_ : IsScanOf(n, a)

(* The assertions of consistency_check() and of size() and full().         *)
CheckHolds(a) == /\ a.nelem_ # 0 => a.elements_[a.nelem_ - 1] # Null
                 /\ Scan(a) <= a.allocatedSize_

(* Slip: consistency_check() finds the end but does not store it. *)
CheckedWithoutUpdate(a) == a

(* The array once consistency_check() has run. *)
Checked(a) == [a EXCEPT !.nelem_ = Scan(a)]

(* Slip: the last element is not copied. *)
CopyArrayShort(source, n) ==
    [nelem_ |-> Scan(source),
     allocatedSize_ |-> n,
     elements_ |-> [i \in 0..(n - 1) |->
                        IF i < Scan(source) - 1 THEN source.elements_[i] ELSE Null]]

(* Slip: the copy starts with the count of an empty array. *)
CopyArrayUncounted(source, n) ==
    [nelem_ |-> 0,
     allocatedSize_ |-> n,
     elements_ |-> [i \in 0..(n - 1) |->
                        IF i < Scan(source) THEN source.elements_[i] ELSE Null]]

(* The copying constructor, which takes the size of its source first. *)
CopyFits(source, n) == n > Scan(source)
CopyArray(source, n) ==
    [nelem_ |-> Scan(source),
     allocatedSize_ |-> n,
     elements_ |-> [i \in 0..(n - 1) |->
                        IF i < Scan(source) THEN source.elements_[i] ELSE Null]]

(* Slip: push_back counts the element that consistency_check() counts too. *)
WithCountTwice(a) == [a EXCEPT !.nelem_ = a.nelem_ + 2]

(* elements_[nelem_] = e, and update_nelem(nelem_ + 1) after it. *)
WithElement(a, e) == [a EXCEPT !.elements_[a.nelem_] = e]
WithCount(a) == [a EXCEPT !.nelem_ = a.nelem_ + 1]

(* Slip: the full array is replaced by one of its own size. *)
GrownSizeSame(a) == Scan(a)

(* The size push_back asks of resize() when the array is full. *)
GrownSize(a) == 2 * Scan(a)

-----------------------------------------------------------------------------
Pushes == {"push_back_ctr", "push_back_elem"}
NoOp == [name |-> "none", elem |-> Null, size |-> 0]
Errors == {"AllocationError", "AssertionFailed", "OutOfRange"}

Array == heap[vec]

(* The elements a reader of the vector finds, and finds again after a restart. *)
Content == IF vec = Null THEN <<>>
           ELSE [i \in 1..Scan(Array) |-> Array.elements_[i - 1]]

Init == /\ vec = Null
        /\ heap = [b \in Block |-> NewArray(0)]
        /\ used = {}
        /\ pc = "idle"
        /\ op = NoOp
        /\ old = Null
        /\ reply = "none"
        /\ acked = {}
        /\ crashes = 0

(* The call ends, by returning ("ok") or with an exception. *)
Finish(r) == /\ pc' = "idle"
             /\ op' = NoOp
             /\ reply' = r

(* push_back_ctr(constructor) and push_back_elem(elem) are called. *)
PushBack(name, e) ==
    /\ pc = "idle"
    /\ Len(Content) < MaxElems
    /\ op' = [name |-> name, elem |-> e, size |-> 1]
    /\ pc' = IF vec = Null THEN "reserve" ELSE "size"
    /\ reply' = "none"
    /\ UNCHANGED <<vec, heap, used, old, acked, crashes>>

(* resize(new_size) is called. *)
Resize(n) ==
    /\ pc = "idle"
    /\ op' = [name |-> "resize", elem |-> Null, size |-> n]
    /\ pc' = IF vec = Null THEN "reserve" ELSE "grow"
    /\ reply' = "none"
    /\ UNCHANGED <<vec, heap, used, old, acked, crashes>>

(* allocate(op.size): the allocator publishes a new array in the pointer,  *)
(* or finds no memory.                                                     *)
Reserve ==
    /\ pc = "reserve"
    /\ \E b \in Block \ used :
          /\ vec' = b
          /\ used' = used \union {b}
          /\ heap' = [heap EXCEPT ![b] = NewArray(op.size)]
    /\ IF op.name = "resize" THEN Finish("ok")
       ELSE pc' = "size" /\ UNCHANGED <<op, reply>>
    /\ UNCHANGED <<old, acked, crashes>>

ReserveFails ==
    /\ pc = "reserve"
    /\ Finish("AllocationError")
    /\ UNCHANGED <<vec, heap, used, old, acked, crashes>>

(* size() == allocated_size(), or full(): consistency_check() corrects the *)
(* count, and a full array is to be replaced by one of twice its size.     *)
CheckSize ==
    /\ pc = "size"
    /\ IF CheckHolds(Array)
       THEN /\ heap' = [heap EXCEPT ![vec] = Checked(Array)]
            /\ IF Scan(Array) = Array.allocatedSize_
               THEN pc' = "grow" /\ op' = [op EXCEPT !.size = GrownSize(Array)]
               ELSE pc' = "store" /\ UNCHANGED op
            /\ UNCHANGED reply
       ELSE Finish("AssertionFailed") /\ UNCHANGED heap
    /\ UNCHANGED <<vec, used, old, acked, crashes>>

(* replace by a copy of op.size slots: the allocator builds and publishes  *)
(* it in the vector's pointer; the constructor asserts that it fits.       *)
Replace ==
    /\ pc = "grow"
    /\ CheckHolds(Array) /\ CopyFits(Array, op.size)
    /\ \E b \in Block \ used :
          /\ vec' = b
          /\ used' = used \union {b}
          /\ heap' = [heap EXCEPT ![vec] = Checked(Array),
                                  ![b] = CopyArray(Array, op.size)]
    /\ old' = vec
    /\ pc' = "release"
    /\ UNCHANGED <<op, reply, acked, crashes>>

(* The assertion of the constructor escapes: nothing is published, and the *)
(* only trace is the count that source.size() corrected.                   *)
ReplaceRejected ==
    /\ pc = "grow"
    /\ ~(CheckHolds(Array) /\ CopyFits(Array, op.size))
    /\ heap' = IF CheckHolds(Array) THEN [heap EXCEPT ![vec] = Checked(Array)] ELSE heap
    /\ Finish("AssertionFailed")
    /\ UNCHANGED <<vec, used, old, acked, crashes>>

ReplaceFails ==
    /\ pc = "grow"
    /\ Finish("AllocationError")
    /\ UNCHANGED <<vec, heap, used, old, acked, crashes>>

(* Slips: replace_ctr frees oid_, which is the new array, or frees nothing. *)
FreedIsThePublished == vec
FreedIsNothing == Null

(* ::pmemobj_free(&oid_tmp), the last step of replace_ctr. *)
FreedByReplace == old
Release ==
    /\ pc = "release"
    /\ used' = used \ {FreedByReplace}
    /\ heap' = [heap EXCEPT ![FreedByReplace] = NewArray(0)]
    /\ old' = Null
    /\ IF op.name = "resize" THEN Finish("ok")
       ELSE pc' = "store" /\ UNCHANGED <<op, reply>>
    /\ UNCHANGED <<vec, acked, crashes>>

(* PersistentVectorData::push_back and push_back_elem up to the instant    *)
(* the pointer of the element is in its slot.                              *)
StoreElement ==
    /\ pc = "store"
    /\ IF CheckHolds(Array)
       THEN IF Scan(Array) = Array.allocatedSize_
            THEN /\ heap' = [heap EXCEPT ![vec] = Checked(Array)]
                 /\ Finish("OutOfRange")
            ELSE /\ heap' = [heap EXCEPT ![vec] = WithElement(Checked(Array), op.elem)]
                 /\ pc' = "count"
                 /\ UNCHANGED <<op, reply>>
       ELSE Finish("AssertionFailed") /\ UNCHANGED heap
    /\ UNCHANGED <<vec, used, old, acked, crashes>>

(* Slip: the slot keeps the pointer of an element whose construction failed. *)
ElementFailsInSlot ==
    /\ pc = "store"
    /\ op.name = "push_back_ctr"
    /\ CheckHolds(Array) /\ Scan(Array) # Array.allocatedSize_
    /\ heap' = [heap EXCEPT ![vec] = WithElement(Checked(Array), op.elem)]
    /\ Finish("AllocationError")
    /\ UNCHANGED <<vec, used, old, acked, crashes>>

(* The element of push_back_ctr cannot be allocated or constructed. *)
ElementFails ==
    /\ pc = "store"
    /\ op.name = "push_back_ctr"
    /\ CheckHolds(Array) /\ Scan(Array) # Array.allocatedSize_
    /\ heap' = [heap EXCEPT ![vec] = Checked(Array)]
    /\ Finish("AllocationError")
    /\ UNCHANGED <<vec, used, old, acked, crashes>>

(* update_nelem(nelem_ + 1), and push_back returns. *)
UpdateNelem ==
    /\ pc = "count"
    /\ heap' = [heap EXCEPT ![vec] = WithCount(Array)]
    /\ acked' = acked \union {<<Array.nelem_, op.elem>>}
    /\ Finish("ok")
    /\ UNCHANGED <<vec, used, old, crashes>>

(* size() and full() correct the count whenever they are called. *)
Size ==
    /\ pc = "idle"
    /\ vec # Null
    /\ IF CheckHolds(Array)
       THEN /\ heap' = [heap EXCEPT ![vec] = Checked(Array)]
            /\ reply' = "ok"
       ELSE UNCHANGED heap /\ reply' = "AssertionFailed"
    /\ UNCHANGED <<vec, used, pc, op, old, acked, crashes>>

(* free() of the vector's pointer: the array goes, the pointer is null. *)
Free ==
    /\ pc = "idle"
    /\ vec # Null
    /\ used' = used \ {vec}
    /\ heap' = [heap EXCEPT ![vec] = NewArray(0)]
    /\ vec' = Null
    /\ acked' = {}
    /\ reply' = "ok"
    /\ UNCHANGED <<pc, op, old, crashes>>

(* The process dies, wherever it is, and a new one opens the pool. *)
Restart ==
    /\ crashes < MaxCrashes
    /\ crashes' = crashes + 1
    /\ pc' = "idle"
    /\ op' = NoOp
    /\ old' = Null
    /\ reply' = "none"
    /\ UNCHANGED <<vec, heap, used, acked>>

(* What the program does, short of dying. *)
CallStep == \/ \E name \in Pushes, e \in Elem : PushBack(name, e)
            \/ \E n \in ResizeSizes : Resize(n)
            \/ Reserve \/ ReserveFails
            \/ CheckSize
            \/ Replace \/ ReplaceRejected \/ ReplaceFails
            \/ Release
            \/ StoreElement \/ ElementFails
            \/ UpdateNelem
            \/ Size
            \/ Free

Next == CallStep \/ Restart

Spec == Init /\ [][Next]_vars

-----------------------------------------------------------------------------
(***************************************************************************)
(* Properties.                                                             *)
(***************************************************************************)
IsArray(a) == /\ a = [nelem_ |-> a.nelem_,
                      allocatedSize_ |-> a.allocatedSize_,
                      elements_ |-> a.elements_]
              /\ a.allocatedSize_ \in Nat
              /\ a.nelem_ \in 0 .. a.allocatedSize_
              /\ a.elements_ \in [0..(a.allocatedSize_ - 1) -> Elem \union {Null}]

(* The type invariant; it includes that the count never exceeds the space, *)
(* which size() and full() assert.                                         *)
TypeOK ==
    /\ vec \in Block \union {Null}
    /\ DOMAIN heap = Block
    /\ \A b \in Block : IsArray(heap[b])
    /\ used \in SUBSET Block
    /\ pc \in {"idle", "reserve", "size", "grow", "release", "store", "count"}
    /\ op \in [name : Pushes \union {"none", "resize"},
               elem : Elem \union {Null}, size : Nat]
    /\ old \in Block \union {Null}
    /\ reply \in {"none", "ok"} \union Errors
    /\ acked \in SUBSET (Nat \X Elem)
    /\ crashes \in 0..MaxCrashes

(* An element whose push_back returned stays in the slot it was given,     *)
(* whatever growth, failed allocation or death of the process comes after  *)
(* (push_back, the copying constructor and consistency_check together).    *)
AckedElementsKept ==
    \A p \in acked : /\ vec # Null
                     /\ p[1] < Scan(Array)
                     /\ Array.elements_[p[1]] = p[2]

(* In every allocated array the filled slots are the first ones, and the   *)
(* stored count is behind them by at most the one element whose push_back  *)
(* was between its store and update_nelem: what consistency_check relies   *)
(* on, and what makes its assertion hold at every call.                    *)
CountLagsByAtMostOne ==
    \A b \in used :
        LET a == heap[b] IN
        /\ \A i \in 0..(a.allocatedSize_ - 1) :
               (i < Scan(a)) <=> (a.elements_[i] # Null)
        /\ Scan(a) - a.nelem_ \in {0, 1}
        /\ Scan(a) # a.nelem_ => crashes > 0 \/ pc = "count"

(* The vector never points at an array that was freed, nor does replace    *)
(* free the array it has just published.                                   *)
NeverPointsAtFreedArray ==
    /\ vec # Null => vec \in used
    /\ old # Null => old \in used /\ old # vec
    /\ pc = "release" => old # Null

(* An array nobody can reach exists only if a death hit replace_ctr        *)
(* between publishing the copy and freeing the original: one per death,    *)
(* and none because of an exception.                                       *)
Orphans == used \ {vec, old}
OrphansOnlyByDeath == Cardinality(Orphans) <= crashes

(* A push_back that did not return leaves at most one element behind, and  *)
(* only if the process died: a program that retries after an exception     *)
(* never finds the element twice.                                          *)
UnconfirmedOnlyByDeath ==
    Len(Content) <= Cardinality(acked) + crashes + (IF pc = "count" THEN 1 ELSE 0)

(* push_back grows a full array by doubling it, which makes room: neither  *)
(* the assertion of the copying constructor, nor those of                  *)
(* consistency_check, nor OutOfRange ever ends a push_back.                *)
PushBackAlwaysFits ==
    [][op.name \in Pushes => reply' \notin {"AssertionFailed", "OutOfRange"}]_vars

(***************************************************************************)
(* The vector implements the append-only log: an element is in the log     *)
(* from the instant its pointer is in its slot.                            *)
(***************************************************************************)
AbstractStatus == IF op.name \notin Pushes THEN "idle"
                  ELSE IF pc = "count" THEN "stored" ELSE "pending"
AbstractReply == IF reply \in Errors THEN "thrown" ELSE reply

Abstract == INSTANCE AppendOnlyVector
                WITH NoElem <- Null,
                     log <- Content,
                     status <- AbstractStatus,
                     arg <- op.elem,
                     reply <- AbstractReply

(* Growth, repair of the count and restarts are invisible: the vector is   *)
(* an append-only log (see AppendOnlyVector).                              *)
ImplementsAppendOnlyVector == Abstract!Spec
=============================================================================
