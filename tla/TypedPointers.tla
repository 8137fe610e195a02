---------------------------- MODULE TypedPointers ----------------------------
(***************************************************************************)
(* PersistentPtr<T> between several pools: what it means in whatever place *)
(* and in whatever run a pool is mapped, and the type tags that are stored *)
(* with the objects and checked when a pointer is resolved.                *)
(*                                                                         *)
(* A program keeps PersistentPtrs in the roots of its pools (the slots)    *)
(* and in variables.  It frees an object only once, and does not resolve a *)
(* null pointer or one into a pool that is closed (libpmemobj would follow *)
(* a null address).  Copies of the pointer to a freed object can be left.  *)
(*                                                                         *)
(* AtomicConstructor has the interruptions and failures of an allocation,  *)
(* which is one step here.                                                 *)
(***************************************************************************)
EXTENDS Naturals

CONSTANTS Pool,         \* the pools, by their uuid
          Slot,         \* the pointers in the roots
          Variable,     \* the pointers in volatile memory
          Offset,       \* where an object can lie in a pool
          Base,         \* the addresses at which a pool can be mapped
          Type,         \* the C++ types
          None,
          PoolOf,       \* the pool in which each slot lies
          ObjectType,   \* the T of each PersistentPtr<T>
          type_id,      \* PersistentType<T>::type_id
          Accepted,     \* the tags that validate_type_id of T accepts
          Built,        \* <<S, T>>: an S is constructed in a PersistentPtr<T>
          Converted,    \* <<T, S>>: a PersistentPtr<T> is turned into one of S
          MaxObjects    \* bound on the objects ever allocated

Cell == Slot \union Variable

ASSUME CellAssumption == Slot \intersect Variable = {} /\ PoolOf \in [Slot -> Pool]
ASSUME TypeAssumption == /\ ObjectType \in [Cell -> Type]
                         /\ type_id \in [Type -> Nat]
                         /\ Accepted \in [Type -> SUBSET Nat]
                         /\ \A T \in Type : type_id[T] \in Accepted[T]
ASSUME BuiltAssumption == \A b \in Built : type_id[b[1]] \in Accepted[b[2]]
ASSUME TypedNoneAssumption == None \notin Pool \union Base \union Offset
ASSUME ObjectsAssumption == MaxObjects \in Nat

VARIABLES base,     \* the address at which each pool is mapped
          memory,   \* the object at each offset of each pool, and its tag
          oid_,     \* the pool uuid and the offset each pointer holds
          reply,    \* how the last call ended
          count,    \* history: how many objects were allocated
          meant     \* history: the object that was put in each pointer

vars == <<base, memory, oid_, reply, count, meant>>

-----------------------------------------------------------------------------
OID_NULL == [uuid |-> None, off |-> None]
Oid == {OID_NULL} \union [uuid : Pool, off : Offset]
Nothing == [object |-> 0, tag |-> 0]

null(p) == p.off = None
IsOpen(p) == base[p] # None
Stored(p) == memory[p.uuid][p.off]

(* Slip: the offset is taken in the pool that holds the pointer. *)
getInOwnPool(c) ==
    [base |-> base[IF c \in Slot THEN PoolOf[c] ELSE oid_[c].uuid], off |-> oid_[c].off]

(* get(): the address of the object, by pmemobj_direct. *)
get(c) == [base |-> base[oid_[c].uuid], off |-> oid_[c].off]

(* What the process finds at an address. *)
At(address) ==
    IF \E p \in Pool : base[p] = address.base
    THEN memory[CHOOSE p \in Pool : base[p] = address.base][address.off]
    ELSE Nothing

(* Slip: pointers are compared by their offsets. *)
EqualOffsets(p, q) == p.off = q.off

(* operator==. *)
Equal(p, q) == p.off = q.off /\ p.uuid = q.uuid

validate_type_id(T, tag) == tag \in Accepted[T]

(* What valid() of a PersistentPtr<T> can answer: of a freed object, either. *)
Valid(T, p) ==
    IF Stored(p) = Nothing THEN BOOLEAN ELSE {validate_type_id(T, Stored(p).tag)}

(* The pointers the program can reach, and those it can resolve. *)
Reachable(c) == c \in Slot => IsOpen(PoolOf[c])
Resolvable(c) == Reachable(c) /\ ~null(oid_[c]) /\ IsOpen(oid_[c].uuid)

IsLive(o) == \E p \in Pool, off \in Offset : memory[p][off].object = o

-----------------------------------------------------------------------------
Init == /\ base = [p \in Pool |-> None]
        /\ memory = [p \in Pool |-> [off \in Offset |-> Nothing]]
        /\ oid_ = [c \in Cell |-> OID_NULL]
        /\ reply = "none"
        /\ count = 0
        /\ meant = [c \in Cell |-> 0]

Open(p, b) ==
    /\ ~IsOpen(p) /\ \A q \in Pool : base[q] # b
    /\ base' = [base EXCEPT ![p] = b]
    /\ reply' = "none"
    /\ UNCHANGED <<memory, oid_, count, meant>>

Close(p) ==
    /\ IsOpen(p)
    /\ base' = [base EXCEPT ![p] = None]
    /\ reply' = "none"
    /\ UNCHANGED <<memory, oid_, count, meant>>

Put(c, p, o) == /\ oid_' = [oid_ EXCEPT ![c] = p]
                /\ meant' = [meant EXCEPT ![c] = o]

Refuse(r) == reply' = r /\ UNCHANGED <<base, memory, oid_, count, meant>>

(* pmemobj_alloc puts a new object in a pool, and its oid in the pointer;  *)
(* the tag is the one of the constructor, which AtomicConstructorCast      *)
(* passes through.  The object the pointer had is freed after that.        *)
NewObject(c, p, S, before) ==
    /\ count < MaxObjects
    /\ count' = count + 1
    /\ \E off \in Offset :
          /\ before[p][off] = Nothing
          /\ memory' = [q \in Pool |-> [o \in Offset |->
                          IF q = p /\ o = off
                          THEN [object |-> count', tag |-> type_id[S]]
                          ELSE IF ~null(oid_[c]) /\ q = oid_[c].uuid /\ o = oid_[c].off
                          THEN Nothing ELSE memory[q][o]]]
          /\ Put(c, [uuid |-> p, off |-> off], count')
    /\ reply' = "ok"
    /\ UNCHANGED base

(* allocate_ctr(pool, constructor), allocate_ctr(constructor). *)
Allocate(c, p, S) ==
    /\ Reachable(c) /\ IsOpen(p)
    /\ <<S, ObjectType[c]>> \in Built
    /\ \/ ~null(oid_[c]) /\ Refuse("AssertionFailed")
       \/ null(oid_[c]) /\ NewObject(c, p, S, memory)
       \/ null(oid_[c]) /\ Refuse("AllocationError")
AllocateHere(c, S) ==
    \/ c \in Slot /\ Allocate(c, PoolOf[c], S)
    \/ c \in Variable /\ Refuse("SeriousBug")

(* Slip: the old object is freed before the new one is allocated. *)
ReplaceFreeingFirst(c, p, S) ==
    /\ Resolvable(c) /\ IsOpen(p) /\ IsLive(meant[c])
    /\ <<S, ObjectType[c]>> \in Built
    /\ NewObject(c, p, S, [memory EXCEPT ![oid_[c].uuid][oid_[c].off] = Nothing])

(* replace_ctr(pool, constructor), of a pointer to an object that is there. *)
Replace(c, p, S) ==
    /\ Resolvable(c) /\ IsOpen(p) /\ IsLive(meant[c])
    /\ <<S, ObjectType[c]>> \in Built
    /\ NewObject(c, p, S, memory) \/ Refuse("AllocationError")

(* free(). *)
Free(c) ==
    /\ Resolvable(c) /\ IsLive(meant[c])
    /\ memory' = [memory EXCEPT ![oid_[c].uuid][oid_[c].off] = Nothing]
    /\ Put(c, OID_NULL, 0)
    /\ reply' = "ok"
    /\ UNCHANGED <<base, count>>

Nullify(c) ==
    /\ Reachable(c)
    /\ Put(c, OID_NULL, 0)
    /\ reply' = "ok"
    /\ UNCHANGED <<base, memory, count>>

(* setPersist() of a slot, and the assignment to a variable. *)
Copy(c, d) ==
    /\ Reachable(c) /\ Reachable(d) /\ ObjectType[c] = ObjectType[d]
    /\ Put(c, oid_[d], meant[d])
    /\ reply' = "ok"
    /\ UNCHANGED <<base, memory, count>>
setPersist(s, d) == s \in Slot /\ Copy(s, d)
Assign(v, d) == v \in Variable /\ Copy(v, d)

(* as<S>() validates the tag for the type that is converted, not for S. *)
as(v, d) ==
    /\ v \in Variable /\ Resolvable(d)
    /\ <<ObjectType[d], ObjectType[v]>> \in Converted
    /\ \E ok \in Valid(ObjectType[d], oid_[d]) :
          IF ok THEN /\ Put(v, oid_[d], meant[d])
                     /\ reply' = "converted"
                     /\ UNCHANGED <<base, memory, count>>
                ELSE Refuse("SeriousBug")

(* forced_cast<S>() validates nothing. *)
forced_cast(v, d) ==
    /\ v \in Variable /\ Reachable(d)
    /\ <<ObjectType[d], ObjectType[v]>> \in Converted
    /\ Put(v, oid_[d], meant[d])
    /\ reply' = "ok"
    /\ UNCHANGED <<base, memory, count>>

(* The process dies; what it had in its variables is gone. *)
Die ==
    /\ base' = [p \in Pool |-> None]
    /\ oid_' = [c \in Cell |-> IF c \in Slot THEN oid_[c] ELSE OID_NULL]
    /\ meant' = [c \in Cell |-> IF c \in Slot THEN meant[c] ELSE 0]
    /\ reply' = "none"
    /\ UNCHANGED <<memory, count>>

Next == \/ \E p \in Pool, b \in Base : Open(p, b)
        \/ \E p \in Pool : Close(p)
        \/ \E c \in Cell, p \in Pool, S \in Type : Allocate(c, p, S) \/ Replace(c, p, S)
        \/ \E c \in Cell, S \in Type : AllocateHere(c, S)
        \/ \E c \in Cell : Free(c) \/ Nullify(c)
        \/ \E c, d \in Cell : setPersist(c, d) \/ Assign(c, d) \/ as(c, d) \/ forced_cast(c, d)
        \/ Die

Spec == Init /\ [][Next]_vars

-----------------------------------------------------------------------------
(***************************************************************************)
(* Properties.                                                             *)
(***************************************************************************)
TypeOK ==
    /\ base \in [Pool -> Base \union {None}]
    /\ memory \in [Pool -> [Offset -> [object : 0..count, tag : Nat]]]
    /\ oid_ \in [Cell -> Oid]
    /\ reply \in {"none", "ok", "converted", "AssertionFailed", "SeriousBug",
                  "AllocationError"}
    /\ count \in 0..MaxObjects
    /\ meant \in [Cell -> 0..count]

(* A pointer leads to the object that was put in it as long as that object *)
(* is not freed, and passes the check of its type: whichever pool either   *)
(* of them is in, wherever the pools are mapped in this run of the program *)
(* (PersistentPtr::get, valid, and the tag the constructor stored).        *)
PointersResolve ==
    /\ TypeOK
    /\ \A c \in Cell : (Resolvable(c) /\ IsLive(meant[c])) =>
          /\ Valid(ObjectType[c], oid_[c]) = {TRUE}
          /\ At(get(c)).object = meant[c]

(* Two pointers are equal exactly if they lead to the same object, of the  *)
(* objects that are not freed, or are both null: an offset that occurs in  *)
(* two pools, or is used again, does not make them equal.                  *)
EqualIsSame ==
    \A c, d \in Cell :
        (\A e \in {c, d} : meant[e] = 0 \/ IsLive(meant[e])) =>
            (Equal(oid_[c], oid_[d]) <=> meant[c] = meant[d])

(* A pointer that is replaced differs from every copy of what it was, as   *)
(* the test of PersistentPtr expects: the place of the old object is given *)
(* away only after the new one has its own (PersistentPtr.h:341-352).      *)
ReplacedDiffers ==
    [][\A c \in Cell : (~null(oid_[c]) /\ meant'[c] > count) =>
           ~Equal(oid_[c], oid_'[c])]_vars
=============================================================================
