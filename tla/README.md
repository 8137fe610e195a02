# A model of pmem in TLA+

pmem is a C++ library of ECMWF for objects that live in persistent memory: typed
persistent pointers, vectors, buffers and strings over libpmemobj, pools that hold
them, and, in `src/src/pmem/tree`, a tree of data built from them. It does without
transactions. Every change of a pool is meant to be one atomic operation, the last of
which publishes a pointer, so that a process that dies, or a machine that loses its
power, leaves a pool that the next process can use. This directory models that claim,
checks it with TLC on small instances, and proves its safety with TLAPS for all.
Paths below are relative to `src/`.

## The system

| component | state it keeps | operations | what makes it correct |
|---|---|---|---|
| `PersistentPtr` (`src/pmem/PersistentPtr.{h,cc}`) | one `PMEMoid`, in the pool or on the stack | `allocate*`, `replace*`, `free`, `nullify`, `setPersist`, `get`, `as`, comparisons | allocation and publication are one step; a failed replacement changes nothing; the replaced object, and only it, is freed; typed access finds the type it asks for |
| `AtomicConstructor` (`AtomicConstructor.h`, `AtomicConstructorCast.h`) and `pmem_constructor` | none of its own | `make`, `build`, `size`, `type_id` | runs inside the allocator; a failed `make` leaves nothing allocated; what it built is durable before it is published |
| `PersistentVector` (`PersistentVector.h`) | a pointer to an array: `nelem_`, `allocatedSize_`, `elements_` | `push_back*`, `push_back_elem`, `resize`, `size`, `full`, `operator[]`, `consistency_check` | an append-only log: elements stay in their slots through growth, failure and death; the count, stored after the element, can be repaired |
| `PersistentPODVector` (`PersistentPODVector.h`) | the same, with values instead of pointers | `push_back`, `resize`, `size`, `full`, `operator[]` | an append-only log in which the count is the commit: no unfinished value is ever visible |
| `PersistentPool` (`PersistentPool.{h,cc}`) | handle, path, size | create, open, `close`, `remove`, `getRoot`, `allocate`, `uuid` | an open pool is registered and has a constructed root; whoever maps a pool unmaps it |
| `PoolRegistry` (`PoolRegistry.{h,cc}`) | map from handle to pool object, under a mutex | `registerPool`, `deregisterPool`, `poolFromPointer` | holds exactly the open pools; an address leads to the pool that holds it |
| `PersistentBuffer`, `PersistentString` | a length and bytes, written once | constructors, comparisons, `operator[]` | the allocation has place for the bytes; a string equals the text it was made of |
| `PersistentMutex` | a `PMEMmutex` in the pool | `lock`, `unlock` | one thread at a time; free again after a restart, whoever died with it; for programs, the repository itself does not use it |
| `PersistentType` | a type tag per class | `validate_type_id` | a pointer passes the check of its type in every run |
| tree: `TreeSchema`, `TreeRoot`, `TreeNode`, `TreeObject`, `TreePool` | `node_`, `schema_`; per node `items_`, `data_`, `value_`, `key_` | `addNode`, `allocateNested`, `allocateLeaf`, `lookup`, `printTree`, `processInsertKey` | an insert-only map from complete keys to data; a branch appears at once or not at all |
| `TreeTool` | a process per command, over one pool file | create or open, insert, look up, requests of a file | what is printed is what some run stored; a run that reports no error has done what it was told |
| `TreeMultIO` | none | not compiled by any `CMakeLists.txt` | |

How they interact. `PersistentVector` *is* a `PersistentPtr` to its array; it grows by
`replace`, whose constructor copies the old array inside libpmemobj's allocator. A
`TreeNode` holds a vector of pointers to nodes and a pointer to a buffer. `TreeRoot` and
`TreeNode` find their pool with `PoolRegistry::poolFromPointer(this)` and allocate
through `PersistentPool::allocate`, that is into a pointer on the stack. libpmemobj
calls back: `pmemobj_alloc` and `pmemobj_root_construct` call `pmem_constructor`, which
calls `build` and `make`.

What is hard here. The library does no locking (README.md:91), except in the registry;
it leaves that to the program, and provides `PersistentMutex` for it. So apart from the
registry and that mutex the interleavings that matter are those of one thread with
*death*: the process can stop between any two durable effects, all it had on its stack
is gone, and the next process finds only what is in the pool. The second difficulty is
partial failure: each allocation may fail, in the middle of a call that has already
changed the pool. The third is power: what the processor stored is not yet on the medium.

## Modules

| module | models | extends |
|---|---|---|
| `AppendOnlyVector` | what a vector promises: a log | |
| `PersistentVector` | `PersistentVector<T>` and its array, with `allocate`, `replace`, `free` | instantiates `AppendOnlyVector` |
| `PersistentVectorPower` | the same with a volatile cache and losses of power | `PersistentVector` |
| `PersistentVectorProofs` | theorems | `PersistentVector` |
| `PersistentPODVector` | `PersistentPODVector<T>` | instantiates `AppendOnlyVector` |
| `PoolRegistry` | `PersistentPool`, `PoolRegistry`, several threads | |
| `PoolRegistryProofs` | theorems | `PoolRegistry` |
| `InsertOnlyMap` | what the tree promises: a map | |
| `Tree` | `TreeObject`, `TreeRoot`, `TreeNode`, `TreeSchema`: insertion | instantiates `InsertOnlyMap` |
| `TreeProofs` | theorems: the shape of the tree, its assertions, what is stored and what is left behind | `Tree` |
| `TreeLookup` | `lookup` | `Tree` |
| `TreeTool` | `TreeTool::run`, `TreePool`, the root with its schema, over many processes | `TreeLookup` |
| `TreeToolProofs` | theorems: lookups, and the runs of the tool | `TreeTool`, `TreeProofs` |
| `AtomicConstructor` | `allocate`, `replace`, `free` of nested objects, `make`, `build`, `pmem_constructor` | |
| `AtomicConstructorProofs` | theorems | `AtomicConstructor` |
| `TypedPointers` | `PersistentPtr<T>` within and between pools, type tags, `AtomicConstructorCast` | |
| `TypedPointersProofs` | theorems | `TypedPointers` |
| `Buffers` | `PersistentBuffer`, `PersistentString`, the array of a `PersistentVector`: the sizes that their functors ask for, and what is written | |
| `PlainDataProofs` | theorems about values, buffers and strings | `PersistentPODVector`, `Buffers` |
| `LockedVector` | threads that share a vector under a `PersistentMutex` | `PersistentVector` |
| `LockedVectorProofs` | theorems | `LockedVector`, instantiates `PersistentVectorProofs` |
| `MC*` | small instances | |

### PersistentVector

`vec` is the vector's own `PMEMoid`, `heap` the arrays (fields named as in
`PersistentVectorData`), `used` the allocator's book-keeping. These are in the pool.
`pc`, `op` and `old` (`oid_tmp` of `replace_ctr`) are on the stack, and `Restart`, the
death of the process, resets exactly these. An action is one durable effect with the
volatile work before it:

| action | code |
|---|---|
| `PushBack`, `Resize` | the call, up to its first durable effect |
| `Reserve`, `ReserveFails` | `allocate_ctr`: `pmemobj_alloc` builds and publishes in one step |
| `CheckSize` | `size() == allocated_size()` or `full()`, with the repair of the count |
| `Replace`, `ReplaceFails`, `ReplaceRejected` | `pmemobj_alloc` of `replace_ctr` with the copying constructor and its assertion |
| `Release` | `pmemobj_free(&oid_tmp)` |
| `StoreElement`, `ElementFails` | `consistency_check`, then the pointer in its slot: allocated there by `push_back`, stored and flushed by `push_back_elem` |
| `UpdateNelem` | `update_nelem(nelem_ + 1)` and the return |
| `Size`, `Free`, `Restart` | `size()`/`full()`, `free()`, death and reopening |

`Scan` is the loop of `consistency_check`, stated by its result. Abstractions: an element
is a model value; a pointer is stored in one step; a block has no size, and a free block
can always be found or not found, at the allocator's whim.

`PersistentVectorPower` adds `media`, what would be read after a loss of power, and lets
each word that was not flushed be old or new. `pmem_constructor` flushes an object when
`build` did *not* return zero, so `AfterConstructor` leaves a published object unwritten
on the medium.

### PersistentPODVector

The same calls. A value may be wider than a word: `PODBeginStore` leaves the slot `Junk`,
`PODEndStore` completes it, `PODCount` (`++nelem_`) commits it. The slots that a
constructor leaves uninitialised are `Junk` too.

### PoolRegistry

Objects, files, addresses (`Handle`) and reader threads. `registerPool`, `deregisterPool`
and `poolFromPointer` hold `registryMutex` throughout and are single actions; the calls
of libpmemobj around them are separate ones, so every interleaving of constructors,
`close`, `remove` and lookups of different objects is explored. libpmemobj is external:
it refuses a file that is mapped, may reuse an address after unmapping, and keeps an
unlinked file until it is unmapped. An assertion in a constructor ends the object
without running its destructor (`Vanish`). `::pmemobj_root_construct` returns, with a root or
without (`ConstructRoot`), or does not return: `build()` catches `AllocationError` only
(`AtomicConstructor.h:73-75`), and any other exception of the root's `make` leaves the
constructor of the pool (`RootThrows`). A pool that such a constructor leaves behind stays
mapped, and no object will ever close it (`Stranded`); `StrandedOnlyByConstructors` says which
do that, and that the assertion of `registerPool` is not among them.

### Tree

`heap` is the sequence of objects ever allocated (no code of the tree frees one), an
address is a position in it. `TreeNode`'s members keep their names. An insertion is
`AddNode` (`TreeObject::addNode`, `processInsertKey`, `TreeRoot::addNode`), `CheckRoot`,
one `Visit` per level of `TreeNode::addNode`, then `allocateNested`, bottom up:
`AllocateBlob`, `AllocateLeaf`, and for each remaining pair `AllocateNode` and
`PushIntoNew`; `Link` makes the branch part of the tree, `Return` returns. The `items_`
are logs, as `AppendOnlyVector` promises and `PersistentVector` is proved to deliver.
`Content` maps each complete key to the datum that the scans of `addNode` lead to.
`lookup` is a recursive function (`Gathered` walks the items, `Selects` is its test of one),
compared, for every request, with a definition by paths.
Abstractions: the pool is open and found; a string fits in `FixedString<12>`; a buffer's
bytes fit in its allocation (see the hazards).

### TreeTool

A run of the tool is a process: `Start`, then `Create` (`pmemobj_create`) and
`ConstructRoot`, or `Open`, then `GetRoot` (`pool->root()`, and the `TreeObject` that reads
the schema), an insertion and a lookup if the command line has them, and the requests of
a file one after the other, of which those that are neither insertions nor lookups are passed
over (`OtherRequest`). `proc` is where it stands; `file`, `root`, `schema_` and the
tree are in the pool. `Inserting` takes the steps of `Tree`'s insertion, `Printed` is the
set of the data in the leaves that `TreeLookup`'s `lookup` returns. `Die` can come at any point,
and any number of runs follow each other. A creation that is interrupted before its root,
or finds no memory for the schema, leaves a file whose root is zeros: `valid()` is only
logged, and every later run ends in `GetRoot` by following the null `schema_`.
`OpenedPoolsStayUsable` says that this is the only time at which a pool is lost: a run that
got past the root of a pool is followed only by runs that do. `given` and `tried` are
history. Options, files and JSON are chosen nondeterministically;
`pmemobj_create` leaves a pool or no file.

### AtomicConstructor

`stack` holds a frame for each call that is inside libpmemobj's allocator: `Reserve` enters
it and calls `make`, which may allocate and replace the members of the object being made,
throw, or catch what a nested call threw; `MakeReturns` publishes, `BuildFails` cancels,
`ForeignUnwinds` is an exception that `build()` lets through, `Release` is the free at the
end of `replace_ctr`. A death takes the stack and the reservations, not what was
published. A `make` touches the members of its own object only.

The program's pointers are those of the root and one on its stack. `Keep` is `setPersist` of
one of them (`PersistentPtr.h:409-414`), or the copy of one to or from the stack: the pointer
it is copied from keeps its value, so that several lead to one object, as
`test_persistent_ptr.cc:205-209` has it. The code does not count the pointers to an object;
freeing or replacing one leaves its copies dangling. That is the program's business, and the
model has a discipline for it, `Sole`: a program frees or replaces an object through the only
pointer it still follows to it. (A stale copy that is kept and only compared, as `p1` and `p2`
are in `test_persistent_ptr.cc:239-245`, is no pointer the program follows; here it is null.)
`PointersOwn` therefore says of the program's pointers that they lead to allocated objects, and
of the members of objects that nobody shares them.

### TypedPointers

`base` is where each pool is mapped (none: closed), `memory` the objects with their tags,
`oid_` the two words of each pointer: the slots in the roots of the pools and variables,
which a death takes. `as`, `forced_cast`, `setPersist`, `get`, `null`, `Equal` are the
code's. A program of the model frees an object once and follows no null pointer, nor one
into a closed pool, for which libpmemobj takes the process down. Stale copies of
pointers exist, and their check may answer anything. Allocation and replacement are one
step each: `AtomicConstructor` has what happens inside. `MCTypedPointers` has a type and
a type derived from it, whose tag the base accepts.

### Buffers

The pool is a row of cells, and `sizeof` is counted in them. Each functor asks for the
size that its specialisation of `size()` computes, modulo `Width`, for the types of the
arguments; the allocator rounds up; the constructor writes. The functors are those of
`PersistentBuffer` (its argument types are `BufferArgs`, which the runs name), of
`PersistentString` from a `std::string`, of the array of a `PersistentVector` from a size (a
`size_t`, or the `int` of `push_back`'s `allocate(1)`), and the copying one by which that array
grows (`CopyArray`). `objects` remembers what was asked for and what was stored. The
comparisons of strings read the cells back. `PersistentPODVectorData` asks by the same
arithmetic and is not repeated here.

An array made by `resize(0)` asks for 16 bytes, since `data_size(0)` takes off the element that
`elements_[1]` has; but that element is a member of a class type, so it is made null all the
same, in the 16 bytes that follow. `AsksForWhatItWrites` names this exception. What saves the
neighbour is that libpmemobj's smallest block is larger than an array of one element, 32
bytes (`BlocksAssumption`, and `Granule` in the runs): `ContentsIntact` relies on it.

### LockedVector

`pc`, `op` and `old` of `PersistentVector` become the registers of the thread `running`;
`Switch` changes the thread before any step, so every action of the vector is reused as it
is. `mutex_` lies in the pool and survives `Die`. Its record has the run of the pool it was
last locked in: a mutex of an earlier run is free (`IsFree`), which is what the comment
in `PersistentMutex.h` relies on ("This is dealt with for us inside the libpmemobj
library"). The threads are a program's; each holds an `eckit::AutoLock` around its calls.

## Runs

The type invariant of a module is a conjunct of the invariant that needs it most
(`PointersOwn`, `PointersResolve`, `AsksForWhatItWrites`, `SiblingsDiffer`,
`OkIsTrue`, `CountedValuesAreWhole`) where it is not checked by its own name.

Bounds are constants of the modules: `MaxElems`, `MaxCrashes`, `MaxObjects`, `MaxRequests`,
`MaxText`, `MaxArray`, `PoolCells`, and the sizes of the sets. Each is named where it guards
an action.

| run | what it asks | instance |
|---|---|---|
| `vector` | is it an append-only log; do acknowledged elements stay, is the count repairable, are orphans and duplicates due to deaths only; does a push_back always fit | 2 elements, 4 blocks, resize to 1 or 3, 4 elements long (three growths), 2 deaths |
| `vector_power` | do acknowledged elements survive a loss of power? **No** | 1 element, 1 failure |
| `pod_vector` | the log, and no unfinished value visible | 2 values, 3 blocks, resize to 0 or 3, 1 death |
| `registry` | do registry, objects and mappings agree; who leaves a pool mapped without an object | 2 objects, 2 files, 2 addresses, 1 reader, 1 death |
| `tree` | is it an insert-only map, without failed assertions; siblings, acknowledged data, garbage, lookups; does every call end | schema of 2 keys, 2 values, 2 data, 7 objects, 1 death |
| `tool` | is what any run of the tool prints what some run stored; is "no error" true; does a pool that was usable stay so; does every run end | 1 key, 2 values, 2 data, 4 objects, a request per file, 1 death |
| `tool_insert` | are insertions in a request file done? **No** | 1 key, 1 value |
| `constructor` | do pointers lead to whole objects, and members to objects of their own; does a failure show; what is left behind, and why | 5 blocks, 2 root pointers, 2 members per object, 1 death |
| `typed` | does a pointer lead to its object and pass its type, wherever the pools are; is equality identity | 2 pools, 2 offsets and 2 addresses, 2 slots, 2 variables, 2 types, 2 objects |
| `buffers` | does each functor ask for what is written; do contents stay; with what do strings compare equal | 2 characters, texts of up to 2, arrays of up to 2, 12 cells in blocks of 4 |
| `buffers_char` | with the argument types the tree passes, do contents stay? **No** | 1 character, texts of up to 4, 8 cells in blocks of 4 |
| `locked` | is the shared vector that of one process; is the mutex exclusive; does somebody's turn come | 2 threads, 2 elements, 3 blocks, 3 elements long, 1 death |

Why these are enough. The vector doubles: with four elements it grows from 1 to 2 to 4
and is asked for more, and resizing to 3 gives arrays that doubling does not. Four blocks
are two live arrays and one orphan per death. Two objects, files and addresses are what
it takes for an address or a path to be reused while its former owner is still closing.
In the tree two values at two levels give a branch made from the root, one that shares
the first level and one that does not; seven objects hold the first branch (four) with
either a second one (three) or the garbage of a failed one; two data tell a leaf that is
kept from one that is overwritten. In the runs of the tool a path
has one level, so an insertion makes two objects, and four hold two runs' insertions or one and
the garbage of another.
Five blocks hold an object with two members, and a replacement with one. Two objects in two
pools let an offset occur in both, and be used again; two addresses let two pools change
places. Twelve cells hold three objects, so that one has neighbours on both sides, and a block of four holds
an array of no or of one element, a longer one needing two blocks: the write of an array of no elements
ends exactly where its block does. Of two
threads one holds the mutex while the other waits for it, or calls `size()` in between.
Elements, blocks and the like are interchangeable, and declared symmetric in the runs that
ask for no liveness.

Fairness. `EveryCallEnds` needs weak fairness of `Step`, the steps of the call being
executed, and `EveryRunEnds` of `ToolStep`, those of the tool: one thread executes them and
waits for nobody, so it continues as long as it is scheduled. `SomeThreadGetsIn` needs that
every thread is scheduled again and again (weak fairness of `Switch`) for long enough to
take a step (strong fairness of the steps of a call it has begun, and of `unlock`, since
others run in between: the scope of an `AutoLock` ends), and that a free mutex for which
a thread that runs is waiting is taken in the end (strong fairness of `lock`, as a whole:
a particular thread can starve). No fairness is assumed of the program (it need not call), of
deaths, or of the allocator (it may fail always). `CHECK_DEADLOCK FALSE` is set for the
vectors, the pools and the buffers, where the bounds on length, places and deaths stop the program.

The three disagreements between code and documents that the runs of kind *violation* show
are in `PROJECT.json` under `findings`, with the lines they contradict. Others were met
while modelling, and are in the passing runs as the exceptions their properties make:

- A death between the publication of the larger array and the free of the smaller one, whose
  pointer is on the stack (`PersistentPtr.h:352`), leaves an array that nobody can reach,
  though README.md:64 wants every object reachable: `OrphansOnlyByDeath` counts these.
- After `resize(0)` of a null vector twice the space is no more space, and every
  `push_back` fails the assertion of `PersistentVector.h:192`: `PushBackAlwaysFits` is checked
  and proved for programs that do not resize to zero.
- `PersistentPool.cc:101` does not look at what `::pmemobj_root_construct` returns, though
  "the root element will always exist" (`PersistentPool.cc:161`). A pool whose creation found no
  memory, or was interrupted before its root, can never be used: no run of the tool gets past
  its root, and none makes it anew. `OpenedPoolsStayUsable` says that pools that were
  usable once are not lost this way.
- An exception other than `AllocationError` in the root's `make` leaves the new pool mapped
  without an object, and this process can neither close it nor open it again
  (`AtomicConstructor.h:73-75`, `PersistentPool.cc:101`): `StrandedOnlyByConstructors`, and
  `LookupFailsOnlyInWindow` for addresses within it.
- An array of no elements writes its first element beyond what it asked for
  (`PersistentVector.h:102`, 176-178, 206, where line 56 speaks of "the amount of memory that needs
  to be allocated"): `AsksForWhatItWrites`.
- An insertion that fails in the middle of `allocateNested` (`TreeNode.cc:136`), and a `make`
  that fails after it has allocated a member (`AtomicConstructor.h:73`), leave objects behind,
  though the chain of allocations is said to unwind: `GarbageOnlyByFailure` and
  `OnlyLapsesStrand` say that nothing else does.
- `TreeRoot.cc:87` stores `node_` without flushing it (`TODO: PERSIST THIS`).
- `operator==` of two `PersistentString`s takes its own size for both, so a string equals the
  longer ones that begin with it (`PersistentString.cc:71`): `EqualityIsExact` says so.
- `as<S>()` validates the tag for the type it converts from (`PersistentPtr.h:257`), so a
  conversion down a hierarchy is not checked: `Converted` has conversions to a base only.

## Proofs

What TLC checks on a small instance is proved here for any sets of elements, blocks,
objects, threads and values, any schema and any bounds: every safety property of every
passing run, refinements and action properties included.
The assumptions are those the modules name (`NullAssumption`, `BlockAssumption`,
`SchemaAssumption` and the like: a null is no object, sizes are naturals, there are finitely
many blocks), which TLC evaluates in every run, and the hypotheses below. `MaxElems`,
`MaxObjects`, `MaxCrashes` and `MaxRequests` are arbitrary naturals, so they restrict
nothing. `Width`, `Granule` and `PoolCells` are arbitrary too; `SizesAssumption` wants that the
size of the longest text or array that is asked for does not wrap around (on a `size_t` of 64
bits, that nobody holds a string or asks for an array of 2^64 bytes).

Hypotheses of theorems, and why the code wants them:

- `PushBackFits`: no program resizes to zero. After `resize(0)` the property is false (above).
- `PointersAlwaysResolve`: `ConversionsGoUp`, that is, a program converts pointers to a base
  only. `as<S>()` does not check S (`PersistentPtr.h:257`), so the code cannot do without it.
- `AssertionsHold` and `TreeRefinement`: the schema has a key. With an empty one the first
  `addNode` fails its assertion; the other theorems about the tree hold even so.
- `BuffersInvariant` and the three theorems that rest on it: buffers are made from a `const
  void*` and a `size_t`, the only arguments that `size()` is specialised for
  (`PersistentBuffer.h:69`; the functors of `test_persistent_buffer.cc:92-122` have them). For
  the `const char*` that the tree passes (`TreeNode.cc:63`), the run `buffers_char` shows that
  `ContentsIntact` is false. `BlocksAssumption`, on the smallest block of libpmemobj, is what an array
  of no elements needs.
- Of the theorems on nested construction: the discipline `Sole` of a program that frees or
  replaces, which is a guard of the model (above).

No property is inductive. What is, and why:

`PersistentVectorProofs`:

- `Core`: types; `Shapes` (in every array the filled slots are a prefix, the count is at
  most one behind); `Pointers` (the vector's array and the one being replaced are
  allocated and different); `Control` (what `pc` implies of `op`, `old` and the array:
  at *count*, say, the slot after the count holds the element of the call);
- `Kept`, the acknowledged elements, which needs that a copy keeps the filled prefix;
- `Behind`, when the count may lag; `Room`, that the size asked for exceeds the count
  while a push_back grows; `Confirmed`, the length against the number acknowledged.

Lemmas about the array (`ScanFindsEnd`, `CopyKeepsElements`, `StoreAddsOne`,
`CountCatchesUp`) carry the arithmetic; `ContentStep` says that each step keeps the
content, appends to it, confirms it or empties it, and both `Kept` and the refinement
follow from it. `BlockAssumption` (finitely many blocks) is needed to count orphans.

`PlainDataProofs`, on the POD vector: `Core` again, with `Wholes` (no array counts an unfinished
value) for `Shapes`. It needs `Control`: between `PODEndStore` and `PODCount` the slot after
the count is whole, and a copy takes the counted slots only. On the buffers: `Inv` says that
every object lies in the pool with the room that its contents need (`Fits`), that its cells
hold what its constructor wrote (`Holds`), that this is what a buffer, a string or an array
consists of (`RightFor`: a string's length is that of its text, and the null comes last), and
that no two objects share a cell (`Apart`). `Written` changes the cells of its own sequence
only, so the others keep theirs; that the sequence fits in the block is where the
hypothesis on the arguments is used, that the size did not wrap, and for an array of no elements
`BlocksAssumption` (`AllocatedInFull`, `RoundUpFacts`). A copied array takes the elements that
`Holds` knows of its source (`CopyKept`).

`LockedVectorProofs`: `Locks`, that a thread is within a call if and only if it owns the
mutex *in this run of the pool*, and that the others hold nothing. So what a step of a thread
does is a step of the one process of `PersistentVector`, or none: that is the refinement, and
by it the theorems of `PersistentVectorProofs`, instantiated with the registers of the
owner, hold of the shared vector.

`PoolRegistryProofs`: to the registry and the mappings `Inv` adds that live objects have
different handles, that these are mapped, and that a mapped file with a path exists and is
mapped once, which is what makes the stat() of a constructor fail only on an unlinked file.
`CreatedAreRootless` and `StrandedAreRootless` say that a pool has no root before its
constructor made one, and that a pool without an object that still has its path never got
one; `StrandingIsKnown` and `LookupFailsInWindow` rest on these.

`TypedPointersProofs`: `Places`, that an object is in one place, that two pools are not
mapped at one address, and that a pointer to a live object holds its place. From that an
equal pair of words means one object, whatever pools were closed, moved and reused.

`TreeProofs`: `Core` says that there is a function `D` that gives every node, reachable or
not, a depth: above the last level a node has that key of the schema and nodes one level
down, at the last it has a buffer. With `OneParent`, and with what the call has (`Stands`: its
node has the depth its remaining key says; `Builds`: the branch is complete from `pNode`
down, and nobody refers to it) it is inductive; that siblings differ is `Distinct`, and it
needs `Stands`, because the append is many steps after the scan.

On these rest, in the same module, what the tree holds and leaves behind: `Reached`
(`addNode` stands on the path of its key), `Built` (the branch that will be linked leads to
the datum of the call, along the values of the key) and `Kept`. `Link` is the only step that
changes `Content` (`NextKeeps`, `KeptContent`), and it adds one path (`LinkContent`); an
exception or a death changes nothing. For `GarbageOnlyByFailure` the invariant is that what
the call has made is the end of `heap`, in order (`LaidOut`), and that what is unreachable
before it is due to failures (`FewLeft`): a link makes all of it reachable
(`LinkedIsReached`), since no step takes away a successor.

`TreeToolProofs`, on lookups: `Gathered` and `lookup` are recursive functions, and the
first lemmas (`GatheredDef`, `LookupDef`) are that such functions exist. Then what `lookup`
returns for a node is the leaves of the paths that start there and agree with the request
(`Listed`, `ExactLookup`), by induction over the levels that are left; that each comes once
needs that no node has two parents and no two siblings one value. `Valued`
is added to the invariant: a leaf that is found has a path made of values.
On the tool: `Standing` (nothing is in the tree before its root was constructed, and a run that
inserts or looks up has found a root that was), `Told` (what each stage of a run has been told
is what the call in progress is doing, or what it has done), `Tries` (what is stored, and
what is about to be, was tried by some run). `OpenedPoolIsKept` needs one fact more, that a complete
root stays complete (`Usable`, which no step ends). `OkIsTrue` is `Told` at the end
of a run; `PrintedAreStored` needs `ExactLookup` for the printing and `Tries` for the rest.
`ToolUsesTheTree` says that the tool does with the tree what `Tree` allows, by which the
invariants of the tree hold under the tool.

`AtomicConstructorProofs`: `OwnInv`, that each call inside the allocator has a reserved block
of its own, and that its pointer still holds what it held when the call began (`ChainOK`); that
a pointer which can be followed leads to a finished object, to which only copies made by the
program lead as well (`OwnOK`); that what a call is to replace is followed from nowhere else while
its constructor runs (`SoleOK`, where `Sole` is used); and that what `replace_ctr` is about to free
is pointed to by nobody (`ReleaseOK`).
What can be reached is a fixpoint after as many levels as there are blocks (`LevelsEnd`).

Some of these quantities are defined level by level (`NodeAt`, `Reachable`, `Closure`).
Induction over the levels is done with the library's `WFMin`: the levels at which a fact fails
would have a smallest one (`Climb`, `UpFromZero`).

Only model-checked:

- liveness (`EveryCallEnds`, `EveryRunEnds`, `SomeThreadGetsIn`), which the prover does not do;
- what the runs of kind *violation* show, `vector_power`, `tool_insert` and `buffers_char`:
  a counterexample needs no proof.

## Not modelled

`TreeMultIO` is not compiled; `Exceptions`, `LibPMem`, version and build files have no state
worth checking. libpmemobj, eckit and the scheduler are modelled from how the code uses
them. Left out of the modelled parts: printing and logging; the command line, the files
and the JSON of the tool; `FixedString<12>`, which refuses longer keys and values; the
pool's size and the accessors that only read. Strings with a null character inside are
made in `Buffers`, but no property is about them: C's comparison ends at the null.

Hazards without a property: `push_back_elem` of a null pointer (the elements of the model
are objects, as every caller's are), a `PMEMoid` written by two stores, of which a death
could leave one (a pointer is stored in one step here; what a compiler makes of it, and
whether it fits a cache line, is not in the source), the unflushed `node_` and the
conversion down a hierarchy listed above. `setPersist` of a volatile pointer, and an error
of `pmemobj_mutex_lock`, which `lock()` does not look at, are left out. Losses of power are
in `PersistentVectorPower` only.

## Plan

Modelled, in this order: the vector with its promise and proofs; the POD vector; the pools
and the registry with proofs; the tree, its map, its lookup; nested
construction; buffers and strings; the tool over created and reopened pools; threads under
a mutex; typed pointers between pools.

The proofs followed: the vector and the registry, then the POD vector, typed pointers, the
tree and its map, the shared vector, nested construction, and last the lookups, the tool and
the buffers. No safety property of a passing run is left without a theorem. Worth adding,
were the code to change: a promise that survives a loss of power, once `pmem_constructor`
flushes what it built, proved of `PersistentVectorPower`; and the buffers for the arguments the
tree passes, once there is a specialisation of `size()` for them.
