------------------------ MODULE PersistentVectorPower ------------------------
(***************************************************************************)
(* PersistentVector on a machine that can lose its power.  A store reaches *)
(* the CPU's view of the pool at once and the persistent medium when it is *)
(* flushed by ::pmemobj_persist; until then the loss of power keeps it or  *)
(* loses it, word by word.  What the code flushes:                         *)
(*   - update_nelem flushes nelem_, push_back_elem flushes the slot;       *)
(*   - the allocator makes its own effects durable: the allocation, the    *)
(*     pointer it publishes, a free;                                       *)
(*   - pmem_constructor flushes the constructed object when build() did    *)
(*     not return zero, which is when nothing will be published.  The      *)
(*     words written by a constructor that succeeded are not flushed.      *)
(***************************************************************************)
EXTENDS PersistentVector

VARIABLE media      \* the arrays as the persistent medium holds them

powerVars == <<vars, media>>

(* Memory the pool has not used yet is zero on the medium. *)
Unwritten(a) == [nelem_ |-> 0,
                 allocatedSize_ |-> 0,
                 elements_ |-> [i \in DOMAIN a.elements_ |-> Null]]

(* What the medium holds of an array after pmem_constructor built it. *)
AfterConstructor(a) == Unwritten(a)

(* The words a step changed in a live array are flushed by that step. *)
Flushed(m, a, b) ==
    [nelem_ |-> IF a.nelem_ # b.nelem_ THEN b.nelem_ ELSE m.nelem_,
     allocatedSize_ |-> m.allocatedSize_,
     elements_ |-> [i \in DOMAIN b.elements_ |->
                       IF a.elements_[i] # b.elements_[i] THEN b.elements_[i]
                       ELSE m.elements_[i]]]

Medium ==
    media' = [b \in Block |->
                IF b \in used' \ used THEN AfterConstructor(heap'[b])
                ELSE IF b \in used' THEN Flushed(media[b], heap[b], heap'[b])
                ELSE heap'[b]]

(* Every word of a is, in r, as the CPU saw it or as the medium holds it. *)
Mixtures(a, m) ==
    {[nelem_ |-> n, allocatedSize_ |-> s, elements_ |-> e] :
        n \in {a.nelem_, m.nelem_},
        s \in {a.allocatedSize_, m.allocatedSize_},
        e \in {f \in [DOMAIN a.elements_ -> Elem \union {Null}] :
                 \A i \in DOMAIN f : f[i] \in {a.elements_[i], m.elements_[i]}}}

PowerFailure ==
    /\ crashes < MaxCrashes
    /\ crashes' = crashes + 1
    /\ heap' \in {h \in [Block -> UNION {Mixtures(heap[b], media[b]) : b \in Block}] :
                    \A b \in Block : h[b] \in Mixtures(heap[b], media[b])}
    /\ media' = heap'
    /\ pc' = "idle"
    /\ op' = NoOp
    /\ old' = Null
    /\ reply' = "none"
    /\ UNCHANGED <<vec, used, acked>>

PowerInit == Init /\ media = heap
PowerNext == (Next /\ Medium) \/ PowerFailure
PowerSpec == PowerInit /\ [][PowerNext]_powerVars

(* README.md promises consistency over arbitrary power failures: an        *)
(* element whose push_back returned is still there when the power is back. *)
AckedElementsSurvivePowerFailure == AckedElementsKept
=============================================================================
