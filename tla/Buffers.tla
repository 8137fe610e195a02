------------------------------- MODULE Buffers -------------------------------
(***************************************************************************)
(* The objects whose size is known only when they are made:                *)
(* PersistentBuffer, PersistentString and the array of a PersistentVector. *)
(* The functor says how many bytes it wants, the allocator gives at least  *)
(* that, rounded up, and the constructor then writes what it has to write. *)
(*                                                                         *)
(* The pool is a row of cells.  A cell holds a byte of a buffer or a word  *)
(* of the bookkeeping, so that sizeof is counted in cells: a size_t is one *)
(* and a PersistentPtr two.                                                *)
(***************************************************************************)
EXTENDS Integers, Sequences

CONSTANTS Char,       \* the characters that strings and buffers are made of
          Nul,        \* the null character
          Unwritten,  \* what a cell holds that nobody wrote
          MaxText,    \* bound: the length of a string or of a buffer's data
          MaxArray,   \* bound: the elements an array is made for
          BufferArgs, \* the types the programs pass to allocate for a buffer
          Width,      \* 2^w: size_t arithmetic is modulo Width
          Granule,    \* the allocator's sizes are multiples of this
          PoolCells   \* bound: the cells of the pool

ASSUME CellsAssumption == {Nul, Unwritten} \cap Int = {} /\ Nul # Unwritten
ASSUME SizesAssumption == /\ {MaxText, MaxArray, PoolCells} \subseteq Nat
                          /\ {Width, Granule} \subseteq Nat \ {0}
                          /\ MaxText + 2 < Width /\ 2 * MaxArray + 2 < Width
(* The smallest block of libpmemobj, with its header of 16 bytes taken off, *)
(* is larger than an array of one element, which is 32.                    *)
ASSUME BlocksAssumption == Granule >= 4

VARIABLES mem,     \* the cells of the pool
          objects  \* the live objects, with a history of the bytes asked for
                   \* and of what was stored in them

vars == <<mem, objects>>

-----------------------------------------------------------------------------
Cell == 0..(PoolCells - 1)
At(c) == IF c \in Cell THEN mem[c] ELSE Nul
Texts == UNION {[1..n -> Char \union {Nul}] : n \in 0..MaxText}

(* sizeof of the three classes, with char data_[0] and elements_[1]. *)
sizeof == [PersistentBuffer |-> 1, PersistentString |-> 1, PersistentVectorData |-> 4]

(* PersistentBuffer::data_size and PersistentVectorData::data_size. *)
data_size(length) == (sizeof.PersistentBuffer + length) % Width

vector_data_size(max_size) ==
    (sizeof.PersistentVectorData + ((max_size - 1) % Width) * 2) % Width

(* Slip: the null character is not counted. *)
string_size_without_nul(str) == data_size(Len(str))

(* What AtomicConstructorN::size() answers.  The specialisations are for   *)
(* (const void*, size_t), (std::string) and (size_t); any other argument   *)
(* types get the size of the class.                                        *)
string_size(str) == data_size(Len(str) + 1)
buffer_size(args, length) ==
    IF args = "const void*, size_t" THEN data_size(length) ELSE sizeof.PersistentBuffer
array_size(args, max_size) ==
    IF args = "size_t" THEN vector_data_size(max_size) ELSE sizeof.PersistentVectorData

(* What the allocator gives, and where it finds place. *)
RoundUp(size) == ((size + Granule - 1) \div Granule) * Granule
Taken == UNION {o.at..(o.at + o.room - 1) : o \in objects}
Places(room) == {at \in Cell : /\ at % Granule = 0 /\ at + room <= PoolCells
                               /\ at..(at + room - 1) \cap Taken = {}}

(* The memory after a sequence of cells was written at an address. *)
Written(at, cells) ==
    [c \in Cell |-> IF c - at + 1 \in DOMAIN cells THEN cells[c - at + 1] ELSE mem[c]]

Allocated(at, kind, size, cells) ==
    /\ at \in Places(RoundUp(size))
    /\ mem' = Written(at, cells)
    /\ objects' = objects \union
          {[kind |-> kind, at |-> at, asked |-> size, room |-> RoundUp(size), stored |-> cells]}

Init == /\ mem = [c \in Cell |-> Unwritten]
        /\ objects = {}

(* allocate(data, length) of a PersistentPtr<PersistentBuffer>: length_,   *)
(* then the bytes; with a null pointer for data the memory is left as it   *)
(* was found.                                                              *)
AllocateBuffer(at, args, bytes) ==
    Allocated(at, "PersistentBuffer", buffer_size(args, Len(bytes)),
              <<Len(bytes)>> \o bytes)

AllocateBlank(at, args, length) ==
    Allocated(at, "PersistentBuffer", buffer_size(args, length),
              <<length>> \o [n \in 1..length |-> At(at + n)])

(* allocate(str) of a PersistentPtr<PersistentString>. *)
AllocateString(at, str) ==
    Allocated(at, "PersistentString", string_size(str), <<Len(str) + 1>> \o Append(str, Nul))

(* elements_[1] is a member of a class type: its default constructor makes *)
(* the first element null, also where max_size is 0.                       *)
Constructed(max_size) == IF max_size = 0 THEN 1 ELSE max_size

(* allocate(max_size) of a vector's array: nelem_, allocatedSize_, and the *)
(* elements, made null.  push_back asks for one element with an int.       *)
AllocateArray(at, args, max_size) ==
    /\ args = "int" => max_size = 1
    /\ Allocated(at, "PersistentVectorData", array_size(args, max_size),
                 <<0, max_size>> \o [n \in 1..(2 * Constructed(max_size)) |-> 0])

(* replace(source, max_size): the counted elements are copied, and the     *)
(* rest made null.  The smaller array is freed after that (Free).          *)
CopyArray(at, source, max_size) ==
    LET nelem == mem[source.at] IN
    /\ source.kind = "PersistentVectorData"
    /\ max_size > nelem
    /\ Allocated(at, "PersistentVectorData", vector_data_size(max_size),
                 <<nelem, max_size>> \o
                 [n \in 1..(2 * max_size) |->
                     IF n <= 2 * nelem THEN At(source.at + 1 + n) ELSE 0])

(* Slip: an element is stored in the slot after its own. *)
StoreElementPastSlot(o, value) ==
    LET n == mem[o.at] IN
    /\ o.kind = "PersistentVectorData"
    /\ n < mem[o.at + 1]
    /\ LET cells == [o.stored EXCEPT ![1] = n + 1, ![3 + 2 * n] = value, ![4 + 2 * n] = value]
       IN /\ mem' = [Written(o.at + 2 + 2 * (n + 1), <<value, value>>) EXCEPT ![o.at] = n + 1]
          /\ objects' = (objects \ {o}) \union {[o EXCEPT !.stored = cells]}

(* push_back into an array with place: the element, then the count. *)
StoreElement(o, value) ==
    LET n == mem[o.at] IN
    /\ o.kind = "PersistentVectorData"
    /\ n < mem[o.at + 1]
    /\ LET cells == [o.stored EXCEPT ![1] = n + 1, ![3 + 2 * n] = value, ![4 + 2 * n] = value]
       IN /\ mem' = [Written(o.at + 2 + 2 * n, <<value, value>>) EXCEPT ![o.at] = n + 1]
          /\ objects' = (objects \ {o}) \union {[o EXCEPT !.stored = cells]}

(* free(): what the block then holds is nobody's business. *)
Free(o) ==
    /\ objects' = objects \ {o}
    /\ mem' = [c \in Cell |-> IF c \in o.at..(o.at + o.room - 1) THEN Unwritten ELSE mem[c]]

Next == \/ \E at \in Cell :
              \/ \E args \in BufferArgs, bytes \in Texts : AllocateBuffer(at, args, bytes)
              \/ \E args \in BufferArgs, n \in 0..MaxText : AllocateBlank(at, args, n)
              \/ \E str \in Texts : AllocateString(at, str)
              \/ \E args \in {"int", "size_t"}, n \in 0..MaxArray : AllocateArray(at, args, n)
        \/ \E o \in objects : \/ StoreElement(o, 1) \/ Free(o)
                              \/ \E at \in Cell, n \in 1..MaxArray : CopyArray(at, o, n)

Spec == Init /\ [][Next]_vars

-----------------------------------------------------------------------------
(***************************************************************************)
(* Reading: PersistentBuffer::size, data; PersistentString's comparisons.  *)
(***************************************************************************)
buffer_length(o) == mem[o.at]
size(s) == buffer_length(s) - 1

(* What C finds at s.c_str(): the characters before the first null. *)
c_str(s) ==
    LET end == CHOOSE n \in 0..PoolCells : /\ At(s.at + 1 + n) = Nul
                                           /\ \A j \in 0..(n - 1) : At(s.at + 1 + j) # Nul
    IN [n \in 1..end |-> At(s.at + n)]

(* ::strncmp(s.c_str(), t.c_str(), n) == 0 *)
strncmp_equal(s, t, n) ==
    \A k \in 1..n : (\A j \in 1..(k - 1) : At(s.at + j) # Nul) => At(s.at + k) = At(t.at + k)

(* operator==(const std::string&) *)
EqualsText(s, str) == size(s) = Len(str) /\ c_str(s) = str

(* Slip: a string that is longer than the other is compared to its end. *)
EqualsOneShort(s, t) == strncmp_equal(s, t, size(s) - 1)

(* operator==(const PersistentString&): both sizes are those of s. *)
Equals(s, t) ==
    LET lsize == size(s)
        rsize == size(s)
    IN lsize = rsize /\ strncmp_equal(s, t, lsize)

-----------------------------------------------------------------------------
(***************************************************************************)
(* Properties.                                                             *)
(***************************************************************************)
Strings == {o \in objects : o.kind = "PersistentString"}
TextOf(s) == SubSeq(s.stored, 2, Len(s.stored) - 1)
Printable(str) == \A n \in DOMAIN str : str[n] # Nul
Begins(str, longer) == /\ Len(str) <= Len(longer)
                       /\ \A n \in DOMAIN str : longer[n] = str[n]

(* An array made by resize(0).                                             *)
IsEmptyArray(o) == o.kind = "PersistentVectorData" /\ o.stored[2] = 0

TypeOK ==
    /\ mem \in [Cell -> Char \union {Nul, Unwritten} \union Nat]
    /\ \A o \in objects : /\ o.kind \in DOMAIN sizeof
                          /\ o.at \in Cell /\ o.at + o.room <= PoolCells
                          /\ \A p \in objects \ {o} : \/ o.at + o.room <= p.at
                                                      \/ p.at + p.room <= o.at
                          /\ o.kind = "PersistentVectorData" => mem[o.at] <= mem[o.at + 1]

(* "The amount of memory that needs to be allocated to store this"         *)
(* (PersistentVector.h:56): a functor asks for what its constructor        *)
(* writes, to the cell, with the null character of a string and the int of *)
(* push_back's allocate(1).  The one exception is an array of no elements: *)
(* data_size(0) takes the element away that elements_[1] has, and that     *)
(* element's constructor still writes it.  The objects lie in the pool,    *)
(* one beside the other.                                                   *)
AsksForWhatItWrites ==
    /\ TypeOK
    /\ \A o \in objects :
          Len(o.stored) = IF IsEmptyArray(o) THEN o.asked + 2 ELSE o.asked

(* test_persistent_buffer.cc: space is allocated "to store the data, and   *)
(* to store the size of the data".  An object holds what was stored in it, *)
(* whatever was made, filled, copied and freed around it since: what an    *)
(* array of no elements writes beyond its size stays in its block.         *)
ContentsIntact ==
    \A o \in objects : \A n \in DOMAIN o.stored :
        o.at + n - 1 \in Cell => mem[o.at + n - 1] = o.stored[n]

(* A string equals exactly the text it was made of, among those without a  *)
(* null character inside, though its length, its characters and the null   *)
(* that ends them are read back from the pool (PersistentString.cc:79-84). *)
(* Two strings are compared with the length of the left one for both       *)
(* (PersistentString.cc:68-77): it equals exactly the strings that begin   *)
(* with it, of which those of its own length are its equals.               *)
EqualityIsExact ==
    \A s \in Strings : Printable(TextOf(s)) =>
        /\ \A str \in Texts : EqualsText(s, str) <=> TextOf(s) = str
        /\ \A t \in Strings : Equals(s, t) <=> Begins(TextOf(s), TextOf(t))
=============================================================================
