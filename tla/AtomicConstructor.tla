--------------------------- MODULE AtomicConstructor ---------------------------
(***************************************************************************)
(* PersistentPtr::allocate, replace, free, nullify and setPersist, the     *)
(* functors AtomicConstructor they are given, and pmem_constructor, which  *)
(* libpmemobj's allocator calls back.  The make() of an object can call    *)
(* allocate and replace on the object's own members, so that calls nest;   *)
(* the stack of the thread is a sequence of frames, one for each call that *)
(* is inside the allocator.                                                *)
(*                                                                         *)
(* What is in the pool: the blocks, the pointers of the root object and    *)
(* those of the objects.  What a death of the process takes: the stack, a  *)
(* pointer on it, and the reservations of blocks, which libpmemobj keeps   *)
(* in volatile memory until it publishes a block.                          *)
(***************************************************************************)
EXTENDS Naturals, Sequences, FiniteSets

CONSTANTS Block,         \* the places for objects in the pool
          Root,          \* the root object
          Slot,          \* its PersistentPtrs
          Member,        \* the PersistentPtrs of every other object
          Null,          \* OID_NULL
          MaxCrashes     \* bound on the deaths of the process

ASSUME PlacesAssumption == /\ Root \notin Block /\ Null \notin Block /\ Null # Root
                           /\ Slot \cap Member = {}
                           /\ "stack" \notin Block \union {Root}
                           /\ IsFiniteSet(Block)
ASSUME BoundAssumption == MaxCrashes \in Nat

VARIABLES state,   \* what the allocator holds of each block
          made,    \* the blocks whose make() returned
          ptr,     \* oid_ of every PersistentPtr
          stack,   \* the calls inside the allocator, outermost first
          exc,     \* the exception thrown in the innermost make()
          reply,   \* how the last call of the program ended
          crashes  \* history: how many times the process died

pool == <<state, made, ptr>>
vars == <<pool, stack, exc, reply, crashes>>

-----------------------------------------------------------------------------
(* PersistentPool::allocate returns a pointer that is not in the pool. *)
Ret == <<"stack", "ret">>
RootPlace == {Root} \X Slot
ProgramPlace == RootPlace \union {Ret}
MemberPlaces(b) == {b} \X Member
Place == ProgramPlace \union (Block \X Member)

Idle == stack = <<>>
Top == stack[Len(stack)]
Making == ~Idle /\ Top.stage = "make" /\ exc = "none"
Pop == SubSeq(stack, 1, Len(stack) - 1)

HasMembers(b) == \E p \in MemberPlaces(b) : ptr[p] # Null

(* The pointers that the code running now can use: the program's, or the   *)
(* members of the object being made.                                       *)
CanUse(p) == \/ Idle /\ p \in ProgramPlace
             \/ Making /\ p \in MemberPlaces(Top.blk)

(* The pointers that somebody can follow, and what the discipline of the   *)
(* program is: when it frees or replaces an object, it has no other        *)
(* pointer that it would follow to it.  (A copy that is kept but never     *)
(* followed again is null here.)                                           *)
Frames == {stack[n] : n \in 1..Len(stack)}
InFrames == {f.blk : f \in {g \in Frames : g.stage = "make"}}
LivePlaces == ProgramPlace
                 \union UNION {MemberPlaces(b) : b \in {c \in Block : state[c] = "used"} \union InFrames}
Sole(p) == \A q \in LivePlaces \ {p} : ptr[q] # ptr[p]

Init == /\ state = [b \in Block |-> "free"]
        /\ made = {}
        /\ ptr = [p \in Place |-> Null]
        /\ stack = <<>>
        /\ exc = "none"
        /\ reply = "none"
        /\ crashes = 0

(* An exception leaves allocate or replace. *)
Raise(e) == IF Idle THEN reply' = e /\ UNCHANGED exc
                    ELSE exc' = e /\ UNCHANGED reply

(* The constructor of an object makes its pointers null. *)
Nullified(b) == [p \in Place |-> IF p \in MemberPlaces(b) THEN Null ELSE ptr[p]]

(* Slip: the pointer is set before the object is made. *)
ReservePublishing(b, p) ==
    /\ state[b] = "free"
    /\ state' = [state EXCEPT ![b] = "used"]
    /\ ptr' = [Nullified(b) EXCEPT ![p] = b]
    /\ stack' = Append(stack, [blk |-> b, place |-> p, old |-> ptr[p], stage |-> "make"])
    /\ reply' = "none"
    /\ UNCHANGED <<made, exc, crashes>>

(* pmemobj_alloc reserves a block for the pointer p and calls the functor. *)
Reserve(b, p) ==
    /\ state[b] = "free"
    /\ state' = [state EXCEPT ![b] = "reserved"]
    /\ ptr' = Nullified(b)
    /\ stack' = Append(stack, [blk |-> b, place |-> p, old |-> ptr[p], stage |-> "make"])
    /\ reply' = "none"
    /\ UNCHANGED <<made, exc, crashes>>

Allocate(p, b) == CanUse(p) /\ ptr[p] = Null /\ Reserve(b, p)
Replace(p, b) == CanUse(p) /\ ptr[p] # Null /\ Sole(p) /\ Reserve(b, p)

(* allocate of a pointer that is not null and replace of one that is fail  *)
(* their assertions; without a pool, both refuse a pointer on the stack.   *)
Refused(p) == /\ CanUse(p)
              /\ Raise("other")
              /\ UNCHANGED <<pool, stack, crashes>>

(* libpmemobj finds no memory. *)
Exhausted(p) == /\ CanUse(p)
                /\ Raise("AllocationError")
                /\ UNCHANGED <<pool, stack, crashes>>

(* make() throws, or catches what a nested call threw. *)
MakeThrows(e) == /\ Making
                 /\ exc' = e
                 /\ UNCHANGED <<pool, stack, reply, crashes>>
MakeCatches == /\ ~Idle /\ exc # "none"
               /\ exc' = "none"
               /\ UNCHANGED <<pool, stack, reply, crashes>>

(* The frame is left by an exception. *)
Unwind(e) == /\ stack' = Pop
             /\ IF Len(stack) = 1 THEN reply' = e /\ exc' = "none"
                                  ELSE exc' = e /\ UNCHANGED reply

(* Slip: build() does not tell the allocator that make() failed. *)
BuildSucceedsAnyway ==
    /\ ~Idle /\ exc = "AllocationError"
    /\ state' = [state EXCEPT ![Top.blk] = "used"]
    /\ made' = made \union {Top.blk}
    /\ ptr' = [ptr EXCEPT ![Top.place] = Top.blk]
    /\ Unwind("AllocationError")
    /\ UNCHANGED crashes

(* Slip: the reservation is not cancelled. *)
BuildFailsHolding ==
    /\ ~Idle /\ exc = "AllocationError"
    /\ Unwind("AllocationError")
    /\ UNCHANGED <<pool, crashes>>

(* build() turns the exception into a failure of pmemobj_alloc, which      *)
(* cancels the reservation; allocate_ctr or replace_ctr throws it anew.    *)
BuildFails ==
    /\ ~Idle /\ exc = "AllocationError"
    /\ state' = [state EXCEPT ![Top.blk] = "free"]
    /\ Unwind("AllocationError")
    /\ UNCHANGED <<made, ptr, crashes>>

(* Any other exception goes through build() and the C frames of            *)
(* libpmemobj, where it has no defined meaning.  If it comes out, the      *)
(* reservation is not cancelled, and holds the block until the pool is     *)
(* opened again; otherwise the process ends, as in Restart.                *)
ForeignUnwinds ==
    /\ ~Idle /\ exc = "other"
    /\ Unwind("other")
    /\ UNCHANGED <<pool, crashes>>

(* Slip: replace does not free what it replaced. *)
PublishOnly ==
    /\ Making
    /\ state' = [state EXCEPT ![Top.blk] = "used"]
    /\ made' = made \union {Top.blk}
    /\ ptr' = [ptr EXCEPT ![Top.place] = Top.blk]
    /\ stack' = Pop
    /\ reply' = IF Len(stack) = 1 THEN "ok" ELSE reply
    /\ UNCHANGED <<exc, crashes>>

(* make() returns, and pmemobj_alloc publishes the block in the pointer,   *)
(* all in one step.                                                        *)
MakeReturns ==
    /\ Making
    /\ state' = [state EXCEPT ![Top.blk] = "used"]
    /\ made' = made \union {Top.blk}
    /\ ptr' = [ptr EXCEPT ![Top.place] = Top.blk]
    /\ IF Top.old = Null
       THEN stack' = Pop /\ reply' = IF Len(stack) = 1 THEN "ok" ELSE reply
       ELSE stack' = [stack EXCEPT ![Len(stack)].stage = "release"] /\ UNCHANGED reply
    /\ UNCHANGED <<exc, crashes>>

(* replace_ctr frees the object it replaced. *)
Release ==
    /\ ~Idle /\ Top.stage = "release"
    /\ state' = [state EXCEPT ![Top.old] = "free"]
    /\ made' = made \ {Top.old}
    /\ stack' = Pop
    /\ reply' = IF Len(stack) = 1 THEN "ok" ELSE reply
    /\ UNCHANGED <<ptr, exc, crashes>>

(* Slip: the object is freed and the pointer to it stays. *)
FreeOnly(p) ==
    /\ CanUse(p) /\ ptr[p] # Null /\ Sole(p)
    /\ state' = [state EXCEPT ![ptr[p]] = "free"]
    /\ made' = made \ {ptr[p]}
    /\ UNCHANGED <<ptr, stack, exc, reply, crashes>>

(* Free frees the object and makes the pointer null in one step; it does   *)
(* not look at the members of the object.                                  *)
Free(p) ==
    /\ CanUse(p) /\ ptr[p] # Null /\ Sole(p)
    /\ state' = [state EXCEPT ![ptr[p]] = "free"]
    /\ made' = made \ {ptr[p]}
    /\ ptr' = [ptr EXCEPT ![p] = Null]
    /\ UNCHANGED <<stack, exc, reply, crashes>>

(* Nullify forgets the object; so does a pointer that goes out of scope.   *)
Nullify(p) ==
    /\ CanUse(p) /\ ptr[p] # Null
    /\ ptr' = [ptr EXCEPT ![p] = Null]
    /\ UNCHANGED <<state, made, stack, exc, reply, crashes>>

(* setPersist makes a pointer of the program a copy of another, as the     *)
(* copy constructor does for one on the stack; both lead to the object.    *)
Keep(p, q) ==
    /\ Idle /\ p \in ProgramPlace /\ q \in ProgramPlace
    /\ ptr' = [ptr EXCEPT ![p] = ptr[q]]
    /\ UNCHANGED <<state, made, stack, exc, reply, crashes>>

(* The process dies and a new one opens the pool. *)
Restart ==
    /\ crashes < MaxCrashes
    /\ crashes' = crashes + 1
    /\ state' = [b \in Block |-> IF state[b] = "used" THEN "used" ELSE "free"]
    /\ ptr' = [ptr EXCEPT ![Ret] = Null]
    /\ stack' = <<>>
    /\ exc' = "none"
    /\ reply' = "none"
    /\ UNCHANGED made

Next == \/ \E p \in Place, b \in Block : Allocate(p, b) \/ Replace(p, b)
        \/ \E p \in Place : \/ Refused(p) \/ Exhausted(p)
                            \/ Free(p) \/ Nullify(p)
                            \/ \E q \in Place : Keep(p, q)
        \/ \E e \in {"AllocationError", "other"} : MakeThrows(e)
        \/ MakeCatches \/ BuildFails \/ ForeignUnwinds
        \/ MakeReturns \/ Release
        \/ Restart

Spec == Init /\ [][Next]_vars

-----------------------------------------------------------------------------
(***************************************************************************)
(* What can be reached.                                                    *)
(***************************************************************************)
Targets(places) == {ptr[p] : p \in places} \ {Null}

(* The blocks that lead on from a set of them. *)
Closure(from) ==
    LET level[n \in 0..Cardinality(Block)] ==
            IF n = 0 THEN from
            ELSE level[n - 1] \union Targets(UNION {MemberPlaces(b) : b \in level[n - 1]})
    IN level[Cardinality(Block)]

(* What every reader finds, and where. *)
Reachable == Closure(Targets(RootPlace))
Visible == [p \in RootPlace \union UNION {MemberPlaces(b) : b \in Reachable} |-> ptr[p]]

(* The objects that neither the program nor a call can get to any more. *)
Released == {f.old : f \in {g \in Frames : g.stage = "release"}}
Found == Closure(Targets(ProgramPlace)
                    \union {f.blk : f \in Frames} \union Released)
Lost == {b \in Block : state[b] = "used"} \ Found

(* The blocks that are reserved for a call that has ended. *)
Held == {b \in Block : state[b] = "reserved"} \ InFrames

-----------------------------------------------------------------------------
(***************************************************************************)
(* Properties.                                                             *)
(***************************************************************************)
Exception == {"AllocationError", "other"}

TypeOK ==
    /\ state \in [Block -> {"free", "reserved", "used"}]
    /\ made \subseteq Block
    /\ ptr \in [Place -> Block \union {Null}]
    /\ stack \in Seq([blk : Block, place : Place, old : Block \union {Null},
                       stage : {"make", "release"}])
    /\ \A f \in Frames : f.stage = "release" => f.old # Null
    /\ exc \in Exception \union {"none"}
    /\ reply \in Exception \union {"none", "ok"}
    /\ crashes \in 0..MaxCrashes

(* Through every nesting, failure, replacement and death, a pointer that   *)
(* can be followed leads to an allocated object (allocate_ctr,             *)
(* replace_ctr, free), and only copies that the program made with          *)
(* setPersist or on its stack lead to the same one: an object has each of  *)
(* the objects its make() allocated to itself.                             *)
PointersOwn ==
    /\ TypeOK
    /\ \A p, q \in LivePlaces :
          ptr[p] # Null => /\ state[ptr[p]] = "used"
                           /\ (p # q /\ ptr[p] = ptr[q] => p \in ProgramPlace /\ q \in ProgramPlace)

(* README.md: publication is the last action of construction.  Nobody can  *)
(* get to an object whose make() has not returned.                         *)
PublishedAreComplete == Closure(Targets(ProgramPlace)) \subseteq made

(* PersistentPtr.h: "if anything fails in the chain of construction, the   *)
(* original object is left unchanged".  While a call is inside the         *)
(* allocator, a reader of the pool sees a change only at the one step at   *)
(* which the outermost call succeeds, and none if the call throws.         *)
OnlySuccessShows ==
    [][~Idle /\ Visible' # Visible
          => /\ Len(stack) = 1
             /\ (stack' = <<>> => reply' = "ok")]_vars

(* AtomicConstructor.h:61-63: an AllocationError that is allowed to escape *)
(* unwinds the chain of allocations.  It leaves nothing behind, unless a   *)
(* make() fails after it has allocated members.  Apart from that, objects  *)
(* get out of reach only by a death, and by a program that overwrites the  *)
(* last pointer to one, or frees the owner of a pointer that is not null.  *)
OnlyLapsesStrand ==
    [][\/ Lost' \subseteq Lost
       \/ Restart
       \/ (BuildFails \/ ForeignUnwinds) /\ HasMembers(Top.blk)
       \/ Release /\ HasMembers(Top.old)
       \/ \E p \in Place : /\ ptr[p] # Null /\ Sole(p)
                           /\ \/ Nullify(p)
                              \/ \E q \in Place : Keep(p, q)
                              \/ Free(p) /\ HasMembers(ptr[p])]_vars

(* A block is held by a reservation nobody will end only by an exception   *)
(* that build() does not catch (AtomicConstructor.h:73-75).                *)
OnlyForeignHolds == [][Held' \subseteq Held \/ exc = "other"]_vars
=============================================================================
