------------------------ MODULE TypedPointersProofs ------------------------
(***************************************************************************)
(* Proofs about TypedPointers, for every number of pools, cells, places,   *)
(* addresses and types: pointers lead to what was put in them.             *)
(***************************************************************************)
EXTENDS TypedPointers, TLAPS

(***************************************************************************)
(* The inductive invariant.                                                *)
(***************************************************************************)

(* A pointer is null exactly if nothing was put in it. *)
NullMeansNone == \A c \in Cell : null(oid_[c]) <=> meant[c] = 0

(* A place without an object is empty, and no object is in two places. *)
OnePlaceEach ==
    \A p, q \in Pool, o, l \in Offset :
        /\ memory[p][o].object = 0 => memory[p][o] = Nothing
        /\ memory[p][o].object = memory[q][l].object /\ memory[p][o].object # 0
               => p = q /\ o = l

(* A pointer holds the place of the object it is meant for, if that object *)
(* is still somewhere.                                                     *)
PlaceIsHeld ==
    \A c \in Cell, p \in Pool, o \in Offset :
        meant[c] # 0 /\ memory[p][o].object = meant[c] => oid_[c] = [uuid |-> p, off |-> o]

(* No two pools are mapped at one address. *)
OwnAddresses == \A p, q \in Pool : base[p] = base[q] /\ base[p] # None => p = q

Places == TypeOK /\ NullMeansNone /\ OnePlaceEach /\ PlaceIsHeld /\ OwnAddresses

(* The tag stored with an object is one that the pointers to it accept. *)
TagIsAccepted ==
    \A c \in Cell, p \in Pool, o \in Offset :
        meant[c] # 0 /\ memory[p][o].object = meant[c]
            => memory[p][o].tag \in Accepted[ObjectType[c]]

(* The program converts pointers only to a type that accepts every tag the *)
(* type converted accepts: to a base, as a C++ conversion of pointers does *)
(* without a cast.  as<S>() itself does not check it.                      *)
ConversionsGoUp == \A c \in Converted : Accepted[c[1]] \subseteq Accepted[c[2]]

-----------------------------------------------------------------------------
(***************************************************************************)
(* The kinds of step.                                                      *)
(***************************************************************************)

(* The pointers and the objects are left alone. *)
Rests == UNCHANGED <<memory, oid_, count, meant>>

(* c becomes a copy of d. *)
Copies(c, d) == Put(c, oid_[d], meant[d]) /\ UNCHANGED <<base, memory, count>>

(* c becomes null. *)
Clears(c) == Put(c, OID_NULL, 0) /\ UNCHANGED <<base, memory, count>>

(* A new object for c is put at off in p; its old one is freed. *)
OldPlace(c, q, o) == ~null(oid_[c]) /\ q = oid_[c].uuid /\ o = oid_[c].off
Allocates(c, p, off, S) ==
    /\ <<S, ObjectType[c]>> \in Built
    /\ null(oid_[c]) \/ IsLive(meant[c])
    /\ count < MaxObjects
    /\ count' = count + 1
    /\ memory[p][off] = Nothing
    /\ memory' = [q \in Pool |-> [o \in Offset |->
                      IF q = p /\ o = off THEN [object |-> count + 1, tag |-> type_id[S]]
                      ELSE IF OldPlace(c, q, o) THEN Nothing ELSE memory[q][o]]]
    /\ Put(c, [uuid |-> p, off |-> off], count + 1)
    /\ UNCHANGED base

(* Every step is one of these. *)
LEMMA StepKinds ==
    ASSUME Next
    PROVE  \/ Rests /\ UNCHANGED base
           \/ \E p \in Pool, b \in Base : Open(p, b)
           \/ \E p \in Pool : Close(p)
           \/ \E c, d \in Cell : /\ Copies(c, d)
                                 /\ \/ ObjectType[c] = ObjectType[d]
                                    \/ <<ObjectType[d], ObjectType[c]>> \in Converted
           \/ \E c \in Cell : Clears(c)
           \/ \E c \in Cell : Free(c)
           \/ \E c \in Cell, p \in Pool, off \in Offset, S \in Type : Allocates(c, p, off, S)
           \/ Die
<1>1. ASSUME NEW c \in Cell, NEW p \in Pool, NEW S \in Type, NewObject(c, p, S, memory),
             <<S, ObjectType[c]>> \in Built, null(oid_[c]) \/ IsLive(meant[c])
      PROVE  \E off \in Offset : Allocates(c, p, off, S)
  <2>1. PICK off \in Offset :
          /\ memory[p][off] = Nothing
          /\ memory' = [q \in Pool |-> [o \in Offset |->
                          IF q = p /\ o = off
                          THEN [object |-> count', tag |-> type_id[S]]
                          ELSE IF ~null(oid_[c]) /\ q = oid_[c].uuid /\ o = oid_[c].off
                          THEN Nothing ELSE memory[q][o]]]
          /\ Put(c, [uuid |-> p, off |-> off], count')
    BY <1>1 DEF NewObject
  <2>2. count < MaxObjects /\ count' = count + 1 /\ base' = base
    BY <1>1 DEF NewObject
  <2>3. memory' = [q \in Pool |-> [o \in Offset |->
                      IF q = p /\ o = off THEN [object |-> count + 1, tag |-> type_id[S]]
                      ELSE IF OldPlace(c, q, o) THEN Nothing ELSE memory[q][o]]]
    BY <2>1, <2>2 DEF OldPlace
  <2>4. Put(c, [uuid |-> p, off |-> off], count + 1)
    BY <2>1, <2>2
  <2> QED BY <1>1, <2>1, <2>2, <2>3, <2>4 DEF Allocates
<1>2. ASSUME NEW c \in Cell, NEW p \in Pool, NEW S \in Type, Allocate(c, p, S)
      PROVE  \/ Rests /\ UNCHANGED base
             \/ \E off \in Offset : Allocates(c, p, off, S)
  BY <1>1, <1>2 DEF Allocate, Refuse, Rests
<1>3. ASSUME NEW c \in Cell, NEW p \in Pool, NEW S \in Type, Replace(c, p, S)
      PROVE  \/ Rests /\ UNCHANGED base
             \/ \E off \in Offset : Allocates(c, p, off, S)
  BY <1>1, <1>3 DEF Replace, Refuse, Rests
<1>4. ASSUME NEW c \in Cell, NEW S \in Type, AllocateHere(c, S)
      PROVE  \/ Rests /\ UNCHANGED base
             \/ \E p \in Pool, off \in Offset : Allocates(c, p, off, S)
  BY <1>2, <1>4, CellAssumption DEF AllocateHere, Refuse, Rests
<1>5. ASSUME NEW c \in Cell, NEW d \in Cell,
             setPersist(c, d) \/ Assign(c, d) \/ as(c, d) \/ forced_cast(c, d)
      PROVE  \/ Rests /\ UNCHANGED base
             \/ /\ Copies(c, d)
                /\ \/ ObjectType[c] = ObjectType[d]
                   \/ <<ObjectType[d], ObjectType[c]>> \in Converted
  <2>1. CASE setPersist(c, d) \/ Assign(c, d)
    BY <2>1 DEF setPersist, Assign, Copy, Copies
  <2>2. CASE as(c, d)
    BY <2>2 DEF as, Refuse, Rests, Copies
  <2>3. CASE forced_cast(c, d)
    BY <2>3 DEF forced_cast, Copies
  <2> QED BY <1>5, <2>1, <2>2, <2>3
<1>6. ASSUME NEW c \in Cell, Nullify(c) PROVE Clears(c)
  BY <1>6 DEF Nullify, Clears
<1> QED BY <1>2, <1>3, <1>4, <1>5, <1>6 DEF Next

-----------------------------------------------------------------------------
(***************************************************************************)
(* What the invariant says of a pointer.                                   *)
(***************************************************************************)

(* A null pointer is OID_NULL, and any other is a place in a pool. *)
LEMMA PointerIsPlace ==
    ASSUME TypeOK, NEW c \in Cell
    PROVE  \/ oid_[c] = OID_NULL /\ null(oid_[c])
           \/ /\ ~null(oid_[c])
              /\ oid_[c].uuid \in Pool /\ oid_[c].off \in Offset
              /\ oid_[c] = [uuid |-> oid_[c].uuid, off |-> oid_[c].off]
BY TypedNoneAssumption DEF TypeOK, Oid, OID_NULL, null

(* A pointer to an object that is not freed holds its place. *)
LEMMA LiveIsAtPlace ==
    ASSUME Places, NEW c \in Cell, meant[c] # 0, IsLive(meant[c])
    PROVE  /\ ~null(oid_[c])
           /\ oid_[c].uuid \in Pool /\ oid_[c].off \in Offset
           /\ memory[oid_[c].uuid][oid_[c].off].object = meant[c]
<1>1. PICK p \in Pool, o \in Offset : memory[p][o].object = meant[c]
  BY DEF IsLive
<1>2. oid_[c] = [uuid |-> p, off |-> o]
  BY <1>1 DEF Places, PlaceIsHeld
<1> QED BY <1>1, <1>2, TypedNoneAssumption DEF null

-----------------------------------------------------------------------------
(* The initial state satisfies the invariant. *)
LEMMA PlacesInit == Init => Places /\ TagIsAccepted
<1> SUFFICES ASSUME Init PROVE Places /\ TagIsAccepted
  OBVIOUS
<1>1. TypeOK
  BY ObjectsAssumption DEF Init, TypeOK, Oid, OID_NULL, Nothing
<1>2. NullMeansNone /\ OnePlaceEach /\ PlaceIsHeld /\ OwnAddresses /\ TagIsAccepted
  BY DEF Init, NullMeansNone, OnePlaceEach, PlaceIsHeld, OwnAddresses, TagIsAccepted,
         null, OID_NULL, Nothing
<1> QED BY <1>1, <1>2 DEF Places

(* Opening a pool, closing it and dying keep the addresses apart. *)
LEMMA AddressesNext == OwnAddresses /\ TypeOK /\ [Next]_vars => OwnAddresses'
<1> SUFFICES ASSUME OwnAddresses, TypeOK, [Next]_vars PROVE OwnAddresses'
  OBVIOUS
<1>1. ASSUME NEW p \in Pool, NEW b \in Base, Open(p, b) PROVE OwnAddresses'
  BY <1>1 DEF Open, OwnAddresses, TypeOK
<1>2. ASSUME NEW p \in Pool, Close(p) PROVE OwnAddresses'
  BY <1>2 DEF Close, OwnAddresses, TypeOK
<1>3. CASE Die
  BY <1>3 DEF Die, OwnAddresses
<1>4. CASE UNCHANGED base
  BY <1>4 DEF OwnAddresses
<1> QED BY <1>1, <1>2, <1>3, <1>4, StepKinds DEF vars, Copies, Clears, Free, Allocates

(* Every call leaves pointers, objects and replies of their types. *)
LEMMA TypeNext == TypeOK /\ [Next]_vars => TypeOK'
<1> SUFFICES ASSUME TypeOK, [Next]_vars PROVE TypeOK'
  OBVIOUS
<1> DEFINE Replies == {"none", "ok", "converted", "AssertionFailed", "SeriousBug",
                       "AllocationError"}
<1>1. reply' \in Replies
  BY DEF TypeOK, Next, vars, Open, Close, Allocate, AllocateHere, Replace, NewObject, Refuse,
         Free, Nullify, setPersist, Assign, Copy, as, forced_cast, Die
<1>2. CASE Rests /\ UNCHANGED base
  BY <1>1, <1>2 DEF Rests, TypeOK
<1>3. ASSUME NEW p \in Pool, NEW b \in Base, Open(p, b) PROVE TypeOK'
  BY <1>1, <1>3 DEF Open, TypeOK
<1>4. ASSUME NEW p \in Pool, Close(p) PROVE TypeOK'
  BY <1>1, <1>4 DEF Close, TypeOK
<1>5. ASSUME NEW c \in Cell, NEW d \in Cell, Copies(c, d) PROVE TypeOK'
  BY <1>1, <1>5 DEF Copies, Put, TypeOK
<1>6. ASSUME NEW c \in Cell, Clears(c) PROVE TypeOK'
  BY <1>1, <1>6 DEF Clears, Put, TypeOK, Oid
<1>7. ASSUME NEW c \in Cell, Free(c) PROVE TypeOK'
  <2>1. oid_[c].uuid \in Pool /\ oid_[c].off \in Offset
    BY <1>7, PointerIsPlace DEF Free, Resolvable
  <2>2. Nothing \in [object : 0..count, tag : Nat]
    BY DEF TypeOK, Nothing
  <2>3. memory' \in [Pool -> [Offset -> [object : 0..count, tag : Nat]]]
    BY <1>7, <2>1, <2>2 DEF Free, TypeOK
  <2> QED BY <1>1, <1>7, <2>3 DEF Free, Put, TypeOK, Oid
<1>8. ASSUME NEW c \in Cell, NEW p \in Pool, NEW off \in Offset, NEW S \in Type,
             Allocates(c, p, off, S)
      PROVE  TypeOK'
  <2>1. count' \in 0..MaxObjects /\ 0..count \subseteq 0..count'
    BY <1>8, ObjectsAssumption DEF Allocates, TypeOK
  <2>2. /\ [object |-> count + 1, tag |-> type_id[S]] \in [object : 0..count', tag : Nat]
        /\ Nothing \in [object : 0..count', tag : Nat]
    BY <1>8, <2>1, TypeAssumption DEF Allocates, TypeOK, Nothing
  <2>3. memory' \in [Pool -> [Offset -> [object : 0..count', tag : Nat]]]
    BY <1>8, <2>1, <2>2 DEF Allocates, TypeOK
  <2>4. meant' \in [Cell -> 0..count']
    BY <1>8, <2>1 DEF Allocates, Put, TypeOK
  <2>5. oid_' \in [Cell -> Oid]
    BY <1>8 DEF Allocates, Put, TypeOK, Oid
  <2> QED BY <1>1, <1>8, <2>1, <2>3, <2>4, <2>5 DEF Allocates, TypeOK
<1>9. CASE Die
  BY <1>1, <1>9 DEF Die, TypeOK, Oid
<1>10. CASE UNCHANGED vars
  BY <1>1, <1>10 DEF vars, TypeOK
<1> QED BY <1>2, <1>3, <1>4, <1>5, <1>6, <1>7, <1>8, <1>9, <1>10, StepKinds

(* Places are given, copied and given back, and pointers follow them.      *)
LEMMA PlacesNext == Places /\ [Next]_vars => Places'
<1> SUFFICES ASSUME Places, [Next]_vars PROVE Places'
  OBVIOUS
<1>0. TypeOK' /\ OwnAddresses'
  BY TypeNext, AddressesNext DEF Places
<1> SUFFICES NullMeansNone' /\ OnePlaceEach' /\ PlaceIsHeld'
  BY <1>0 DEF Places
<1> USE DEF NullMeansNone, OnePlaceEach, PlaceIsHeld
<1>1. CASE UNCHANGED <<memory, oid_, count, meant>>
  BY <1>1 DEF Places
<1>2. ASSUME NEW c \in Cell, NEW d \in Cell, Copies(c, d)
      PROVE  NullMeansNone' /\ OnePlaceEach' /\ PlaceIsHeld'
  <2>1. \A e \in Cell : \/ oid_'[e] = oid_[e] /\ meant'[e] = meant[e]
                        \/ oid_'[e] = oid_[d] /\ meant'[e] = meant[d]
    BY <1>2 DEF Copies, Put, Places, TypeOK
  <2>2. memory' = memory
    BY <1>2 DEF Copies
  <2> QED BY <2>1, <2>2 DEF Places
<1>3. ASSUME NEW c \in Cell, Clears(c)
      PROVE  NullMeansNone' /\ OnePlaceEach' /\ PlaceIsHeld'
  <2>1. \A e \in Cell : \/ oid_'[e] = oid_[e] /\ meant'[e] = meant[e]
                        \/ oid_'[e] = OID_NULL /\ meant'[e] = 0
    BY <1>3 DEF Clears, Put, Places, TypeOK
  <2>2. memory' = memory
    BY <1>3 DEF Clears
  <2> QED BY <2>1, <2>2 DEF Places, null, OID_NULL
<1>4. ASSUME NEW c \in Cell, Free(c)
      PROVE  NullMeansNone' /\ OnePlaceEach' /\ PlaceIsHeld'
  <2>1. \A e \in Cell : \/ oid_'[e] = oid_[e] /\ meant'[e] = meant[e]
                        \/ oid_'[e] = OID_NULL /\ meant'[e] = 0
    BY <1>4 DEF Free, Put, Places, TypeOK
  <2>2. \A p \in Pool, o \in Offset : memory'[p][o] \in {memory[p][o], Nothing}
    BY <1>4 DEF Free, Places, TypeOK
  <2>3. Nothing.object = 0
    BY DEF Nothing
  <2>4. NullMeansNone'
    BY <2>1 DEF Places, null, OID_NULL
  <2>5. OnePlaceEach'
    BY <2>2, <2>3 DEF Places
  <2>6. PlaceIsHeld'
    BY <2>1, <2>2, <2>3 DEF Places
  <2> QED BY <2>4, <2>5, <2>6
<1>5. ASSUME NEW c \in Cell, NEW p \in Pool, NEW off \in Offset, NEW S \in Type,
             Allocates(c, p, off, S)
      PROVE  NullMeansNone' /\ OnePlaceEach' /\ PlaceIsHeld'
  <2>1. count \in Nat
    BY ObjectsAssumption DEF Places, TypeOK
  <2>2. /\ oid_'[c] = [uuid |-> p, off |-> off] /\ meant'[c] = count + 1
        /\ \A e \in Cell \ {c} : oid_'[e] = oid_[e] /\ meant'[e] = meant[e]
    BY <1>5 DEF Allocates, Put, Places, TypeOK
  <2>3. \A q \in Pool, o \in Offset :
            memory'[q][o] = IF q = p /\ o = off
                            THEN [object |-> count + 1, tag |-> type_id[S]]
                            ELSE IF OldPlace(c, q, o) THEN Nothing ELSE memory[q][o]
    BY <1>5 DEF Allocates
  <2>4. Nothing.object = 0
    BY DEF Nothing
  <2>5. /\ \A e \in Cell : meant[e] \in Nat /\ meant[e] <= count
        /\ \A q \in Pool, o \in Offset :
              memory[q][o].object \in Nat /\ memory[q][o].object <= count
    BY <2>1 DEF Places, TypeOK
  <2>6. NullMeansNone'
    BY <2>1, <2>2, TypedNoneAssumption DEF Places, null
  <2>7. \A q \in Pool, o \in Offset :
            \/ q = p /\ o = off /\ memory'[q][o].object = count + 1
            \/ ~(q = p /\ o = off) /\ memory'[q][o] = Nothing
            \/ ~(q = p /\ o = off) /\ memory'[q][o] = memory[q][o]
    BY <2>3
  <2>8. OnePlaceEach'
    BY <2>1, <2>4, <2>5, <2>7 DEF Places
  <2>9. PlaceIsHeld'
    BY <2>1, <2>2, <2>4, <2>5, <2>7 DEF Places
  <2> QED BY <2>6, <2>8, <2>9
<1>6. CASE Die
  <2>1. \A e \in Cell : \/ oid_'[e] = oid_[e] /\ meant'[e] = meant[e]
                        \/ oid_'[e] = OID_NULL /\ meant'[e] = 0
    BY <1>6 DEF Die
  <2>2. memory' = memory
    BY <1>6 DEF Die
  <2> QED BY <2>1, <2>2 DEF Places, null, OID_NULL
<1> QED BY <1>1, <1>2, <1>3, <1>4, <1>5, <1>6, StepKinds DEF vars, Rests, Open, Close

(* The tag of the constructor is one its pointer accepts, and the types a  *)
(* pointer goes through accept it as well.                                 *)
LEMMA TagsNext ==
    ConversionsGoUp /\ Places /\ TagIsAccepted /\ [Next]_vars => TagIsAccepted'
<1> SUFFICES ASSUME ConversionsGoUp, Places, TagIsAccepted, [Next]_vars
             PROVE  TagIsAccepted'
  OBVIOUS
<1> USE DEF TagIsAccepted
<1>1. CASE UNCHANGED <<memory, oid_, count, meant>>
  BY <1>1
<1>2. ASSUME NEW c \in Cell, NEW d \in Cell, Copies(c, d),
             \/ ObjectType[c] = ObjectType[d]
             \/ <<ObjectType[d], ObjectType[c]>> \in Converted
      PROVE  TagIsAccepted'
  <2>1. memory' = memory /\ \A e \in Cell : meant'[e] = IF e = c THEN meant[d] ELSE meant[e]
    BY <1>2 DEF Copies, Put, Places, TypeOK
  <2>2. Accepted[ObjectType[d]] \subseteq Accepted[ObjectType[c]]
    <3>1. ASSUME NEW x \in Converted PROVE Accepted[x[1]] \subseteq Accepted[x[2]]
      BY DEF ConversionsGoUp
    <3> QED BY <1>2, <3>1
  <2> QED BY <2>1, <2>2
<1>3. ASSUME NEW c \in Cell, Clears(c) PROVE TagIsAccepted'
  BY <1>3 DEF Clears, Put, Places, TypeOK
<1>4. ASSUME NEW c \in Cell, Free(c) PROVE TagIsAccepted'
  <2>1. \A p \in Pool, o \in Offset : memory'[p][o] \in {memory[p][o], Nothing}
    BY <1>4 DEF Free, Places, TypeOK
  <2>2. \A e \in Cell : meant'[e] \in {meant[e], 0}
    BY <1>4 DEF Free, Put, Places, TypeOK
  <2> QED BY <2>1, <2>2 DEF Nothing
<1>5. ASSUME NEW c \in Cell, NEW p \in Pool, NEW off \in Offset, NEW S \in Type,
             Allocates(c, p, off, S)
      PROVE  TagIsAccepted'
  <2>1. count \in Nat
    BY ObjectsAssumption DEF Places, TypeOK
  <2>2. meant'[c] = count + 1 /\ \A e \in Cell \ {c} : meant'[e] = meant[e]
    BY <1>5 DEF Allocates, Put, Places, TypeOK
  <2>3. \A q \in Pool, o \in Offset :
            \/ memory'[q][o] = [object |-> count + 1, tag |-> type_id[S]]
            \/ memory'[q][o] = Nothing
            \/ memory'[q][o] = memory[q][o]
    BY <1>5 DEF Allocates
  <2>4. /\ \A e \in Cell : meant[e] \in Nat /\ meant[e] <= count
        /\ \A q \in Pool, o \in Offset :
              memory[q][o].object \in Nat /\ memory[q][o].object <= count
    BY <2>1 DEF Places, TypeOK
  <2>5. type_id[S] \in Accepted[ObjectType[c]]
    <3>1. <<S, ObjectType[c]>> \in Built
      BY <1>5 DEF Allocates
    <3>2. ASSUME NEW x \in Built PROVE type_id[x[1]] \in Accepted[x[2]]
      BY BuiltAssumption
    <3> QED BY <3>1, <3>2
  <2>6. ASSUME NEW e \in Cell, NEW q \in Pool, NEW o \in Offset,
               meant'[e] # 0, memory'[q][o].object = meant'[e]
        PROVE  memory'[q][o].tag \in Accepted[ObjectType[e]]
    <3>1. CASE memory'[q][o] = [object |-> count + 1, tag |-> type_id[S]]
      BY <2>1, <2>2, <2>4, <2>5, <2>6, <3>1
    <3>2. CASE memory'[q][o] = Nothing
      BY <2>6, <3>2 DEF Nothing
    <3>3. CASE memory'[q][o] = memory[q][o]
      BY <2>1, <2>2, <2>4, <2>6, <3>3
    <3> QED BY <2>3, <3>1, <3>2, <3>3
  <2> QED BY <2>6
<1>6. CASE Die
  BY <1>6 DEF Die
<1> QED BY <1>1, <1>2, <1>3, <1>4, <1>5, <1>6, StepKinds DEF vars, Rests, Open, Close

(* The places invariant holds in every run, whatever is converted. *)
THEOREM PlacesInvariant == Spec => []Places
BY PlacesInit, PlacesNext, PTL DEF Spec

-----------------------------------------------------------------------------
(* A program that converts pointers to a base only finds, through every    *)
(* pointer it can resolve, the object that was put in it, with a tag its   *)
(* type accepts: in any pool, mapped anywhere, in any run (PersistentPtr's *)
(* get and valid, and the constructor's store of the tag).                 *)
THEOREM PointersAlwaysResolve ==
    ASSUME ConversionsGoUp
    PROVE  Spec => []PointersResolve
<1>1. Places /\ TagIsAccepted => PointersResolve
  <2> SUFFICES ASSUME Places, TagIsAccepted, NEW c \in Cell,
                      Resolvable(c), IsLive(meant[c])
               PROVE  /\ Valid(ObjectType[c], oid_[c]) = {TRUE}
                      /\ At(get(c)).object = meant[c]
    BY DEF PointersResolve, Places
  <2> DEFINE p == oid_[c].uuid
             o == oid_[c].off
  <2>1. meant[c] # 0
    BY DEF Resolvable, Places, NullMeansNone
  <2>2. p \in Pool /\ o \in Offset /\ memory[p][o].object = meant[c] /\ base[p] # None
    BY <2>1, LiveIsAtPlace DEF Resolvable, IsOpen
  <2>3. Valid(ObjectType[c], oid_[c]) = {TRUE}
    <3>1. Stored(oid_[c]) # Nothing
      BY <2>1, <2>2 DEF Stored, Nothing
    <3>2. validate_type_id(ObjectType[c], Stored(oid_[c]).tag) = TRUE
      BY <2>1, <2>2 DEF TagIsAccepted, Stored, validate_type_id
    <3> QED BY <3>1, <3>2 DEF Valid
  <2>4. At(get(c)) = memory[p][o]
    <3>1. \A q \in Pool : base[q] = base[p] => q = p
      BY <2>2 DEF Places, OwnAddresses
    <3>2. (CHOOSE q \in Pool : base[q] = base[p]) = p
      BY <2>2, <3>1
    <3>3. get(c) = [base |-> base[p], off |-> o]
      BY DEF get
    <3>4. get(c).base = base[p] /\ get(c).off = o
      BY <3>3
    <3> QED BY <2>2, <3>2, <3>4 DEF At
  <2> QED BY <2>2, <2>3, <2>4
<1>2. Places /\ TagIsAccepted /\ [Next]_vars => TagIsAccepted'
  BY TagsNext
<1> QED BY <1>1, <1>2, PlacesInit, PlacesNext, PTL DEF Spec

(* In every run operator== tells two pointers apart exactly if they are    *)
(* meant for different objects that are still there, or one of them is     *)
(* null: an offset that occurs in two pools, or is used again, is no       *)
(* reason to call them equal.                                              *)
THEOREM EqualPointersAreSame == Spec => []EqualIsSame
<1>1. Places => EqualIsSame
  <2> SUFFICES ASSUME Places, NEW c \in Cell, NEW d \in Cell,
                      meant[c] = 0 \/ IsLive(meant[c]), meant[d] = 0 \/ IsLive(meant[d])
               PROVE  Equal(oid_[c], oid_[d]) <=> meant[c] = meant[d]
    BY DEF EqualIsSame
  <2>1. ASSUME NEW e \in Cell, meant[e] = 0 PROVE oid_[e] = OID_NULL
    BY <2>1, PointerIsPlace DEF Places, NullMeansNone
  <2>2. CASE meant[c] = 0 /\ meant[d] = 0
    BY <2>1, <2>2 DEF Equal
  <2>3. CASE meant[c] = 0 /\ meant[d] # 0
    BY <2>1, <2>3, LiveIsAtPlace DEF Equal, null, OID_NULL
  <2>4. CASE meant[c] # 0 /\ meant[d] = 0
    BY <2>1, <2>4, LiveIsAtPlace DEF Equal, null, OID_NULL
  <2>5. CASE meant[c] # 0 /\ meant[d] # 0
    <3>1. /\ oid_[c].uuid \in Pool /\ oid_[c].off \in Offset
          /\ memory[oid_[c].uuid][oid_[c].off].object = meant[c]
          /\ oid_[d].uuid \in Pool /\ oid_[d].off \in Offset
          /\ memory[oid_[d].uuid][oid_[d].off].object = meant[d]
      BY <2>5, LiveIsAtPlace
    <3> QED BY <2>5, <3>1 DEF Equal, Places, OnePlaceEach
  <2> QED BY <2>2, <2>3, <2>4, <2>5
<1> QED BY <1>1, PlacesInvariant, PTL

(* In every run replace_ctr gives the new object a place of its own before *)
(* it frees the old one: no copy of the old pointer equals the new one.    *)
THEOREM ReplacedAlwaysDiffers == Spec => ReplacedDiffers
<1>1. Places /\ [Next]_vars =>
        [\A c \in Cell : (~null(oid_[c]) /\ meant'[c] > count) =>
             ~Equal(oid_[c], oid_'[c])]_vars
  <2> SUFFICES ASSUME Places, Next, NEW c \in Cell, ~null(oid_[c]), meant'[c] > count
               PROVE  ~Equal(oid_[c], oid_'[c])
    OBVIOUS
  <2>1. count \in Nat /\ \A e \in Cell : meant[e] \in Nat /\ meant[e] <= count
    BY ObjectsAssumption DEF Places, TypeOK
  <2>2. PICK d \in Cell, p \in Pool, off \in Offset, S \in Type : Allocates(d, p, off, S)
    <3>1. CASE Rests \/ \E p \in Pool, b \in Base : Open(p, b)
      BY <2>1, <3>1 DEF Rests, Open
    <3>2. CASE \E p \in Pool : Close(p)
      BY <2>1, <3>2 DEF Close
    <3>3. CASE \E e, d \in Cell : Copies(e, d)
      BY <2>1, <3>3 DEF Copies, Put, Places, TypeOK
    <3>4. CASE \E e \in Cell : Clears(e) \/ Free(e)
      <4>1. PICK e \in Cell : meant' = [meant EXCEPT ![e] = 0]
        BY <3>4 DEF Clears, Free, Put
      <4> QED BY <2>1, <4>1 DEF Places, TypeOK
    <3>5. CASE Die
      BY <2>1, <3>5 DEF Die
    <3> QED BY <3>1, <3>2, <3>3, <3>4, <3>5, StepKinds
  <2>3. d = c /\ oid_'[c] = [uuid |-> p, off |-> off]
    BY <2>1, <2>2 DEF Allocates, Put, Places, TypeOK
  <2>4. meant[c] # 0 /\ IsLive(meant[c])
    BY <2>2, <2>3 DEF Allocates, Places, NullMeansNone
  <2>5. memory[oid_[c].uuid][oid_[c].off].object = meant[c]
    BY <2>4, LiveIsAtPlace
  <2>6. memory[p][off].object = 0
    BY <2>2 DEF Allocates, Nothing
  <2> QED BY <2>3, <2>4, <2>5, <2>6 DEF Equal
<1> QED BY <1>1, PlacesInvariant, PTL DEF Spec, ReplacedDiffers
=============================================================================
