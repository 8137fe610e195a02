---------------------------- MODULE PoolRegistry ----------------------------
(***************************************************************************)
(* The registry (PoolRegistry.cc) that finds the PersistentPool object of  *)
(* an address, and the PersistentPool objects (PersistentPool.cc) that     *)
(* enter it when they open or create a pool file and leave it when they    *)
(* close.  Each object belongs to a thread of its own, and other threads   *)
(* look addresses up.  A function of the registry holds registryMutex from *)
(* its first line to its last, so it is one action; the calls of           *)
(* libpmemobj around it are not under that mutex and are actions of their  *)
(* own.                                                                    *)
(*                                                                         *)
(* libpmemobj (external) maps a pool file at an address, its handle; an    *)
(* address can be used again once its file is unmapped, and a file that is *)
(* mapped cannot be opened again.  A file that is unlinked while it is     *)
(* mapped lives on, without a path, until it is unmapped.                  *)
(***************************************************************************)
EXTENDS Naturals

CONSTANTS Pool,         \* the PersistentPool objects
          File,         \* the paths of pool files
          Handle,       \* the addresses at which a file can be mapped
          Reader,       \* the threads that call poolFromPointer
          None,         \* a null handle, an absent file, an absent entry
          MaxCrashes    \* bound on the deaths of the process

ASSUME NoneAssumption == None \notin Pool \union File \union Handle
ASSUME UnlinkedAssumption == "unlinked" \notin File /\ None # "unlinked"
ASSUME AnswersAssumption ==
    {"SeriousBug", "AssertionFailed"} \intersect (Pool \union {None}) = {}
ASSUME CrashesAssumption == MaxCrashes \in Nat

VARIABLES disk,     \* what each path holds: no file, a pool without root, ...
          mapped,   \* libpmemobj: the file mapped at each handle, or "unlinked"
          pools_,   \* the registry: the object registered for each handle
          path_,    \* the path of each object
          pool_,    \* the handle of each object
          pc,       \* where the constructor or close() of each object stands
          ptr,      \* the address a reader holds, as the handle of its mapping
          found,    \* what poolFromPointer last gave to a reader
          crashes   \* history: how many times the process died

files == <<disk, mapped>>
objects == <<path_, pool_, pc>>
readers == <<ptr, found>>
vars == <<files, pools_, objects, readers, crashes>>

-----------------------------------------------------------------------------
Init == /\ disk = [f \in File |-> "absent"]
        /\ mapped = [h \in Handle |-> None]
        /\ pools_ = [h \in Handle |-> None]
        /\ path_ = [p \in Pool |-> None]
        /\ pool_ = [p \in Pool |-> None]
        /\ pc = [p \in Pool |-> "none"]
        /\ ptr = [r \in Reader |-> None]
        /\ found = [r \in Reader |-> None]
        /\ crashes = 0

IsMapped(f) == \E h \in Handle : mapped[h] = f

(* The object p exists no longer; what libpmemobj mapped for it stays.     *)
Vanish(p) == /\ pc' = [pc EXCEPT ![p] = "none"]
             /\ path_' = [path_ EXCEPT ![p] = None]
             /\ pool_' = [pool_ EXCEPT ![p] = None]

(* libpmemobj maps f at an address that is free, for the object p.         *)
Map(p, f, next) ==
    \E h \in Handle :
       /\ mapped[h] = None
       /\ mapped' = [mapped EXCEPT ![h] = f]
       /\ pool_' = [pool_ EXCEPT ![p] = h]
       /\ path_' = [path_ EXCEPT ![p] = f]
       /\ pc' = [pc EXCEPT ![p] = next]

(* PersistentPool(path, name): ::pmemobj_open.  It fails, and leaves no    *)
(* trace, when there is no such pool or it is mapped already.              *)
Open(p, f) ==
    /\ pc[p] = "none"
    /\ disk[f] # "absent"
    /\ ~IsMapped(f)
    /\ Map(p, f, "opened")
    /\ UNCHANGED <<disk, pools_, readers, crashes>>

(* stat() of the path: the assertion fails when the file was unlinked      *)
(* meanwhile.  The object is gone, its destructor does not run, and the    *)
(* pool stays mapped.                                                      *)
Stat(p) ==
    /\ pc[p] = "opened"
    /\ IF disk[path_[p]] # "absent"
       THEN pc' = [pc EXCEPT ![p] = "register"] /\ UNCHANGED <<path_, pool_>>
       ELSE Vanish(p)
    /\ UNCHANGED <<files, pools_, readers, crashes>>

(* PersistentPool(path, size, name, constructor): ::pmemobj_create. *)
Create(p, f) ==
    /\ pc[p] = "none"
    /\ disk[f] = "absent"
    /\ disk' = [disk EXCEPT ![f] = "rootless"]
    /\ Map(p, f, "created")
    /\ UNCHANGED <<pools_, readers, crashes>>

(* ::pmemobj_root_construct returns: the root exists, or its constructor   *)
(* threw AllocationError or the allocator failed.  Nobody looks at what it *)
(* returned.                                                               *)
ConstructRoot(p) ==
    /\ pc[p] = "created"
    /\ IF mapped[pool_[p]] = path_[p]
       THEN disk' \in {disk, [disk EXCEPT ![path_[p]] = "rooted"]}
       ELSE UNCHANGED disk
    /\ pc' = [pc EXCEPT ![p] = "register"]
    /\ UNCHANGED <<mapped, pools_, path_, pool_, readers, crashes>>

(* ::pmemobj_root_construct does not return: the root's constructor threw  *)
(* another exception, which build() lets through and which goes on through *)
(* the constructor of the object.  Its destructor does not run, and the    *)
(* pool stays mapped.                                                      *)
RootThrows(p) ==
    /\ pc[p] = "created"
    /\ Vanish(p)
    /\ UNCHANGED <<files, pools_, readers, crashes>>

(* Slip: the new entry is not made. *)
registerPoolNot(p) ==
    /\ pc[p] = "register"
    /\ pc' = [pc EXCEPT ![p] = "open"]
    /\ UNCHANGED <<files, pools_, path_, pool_, readers, crashes>>

(* registerPool(pool), with its assertion. *)
registerPool(p) ==
    /\ pc[p] = "register"
    /\ IF pools_[pool_[p]] = None
       THEN /\ pools_' = [pools_ EXCEPT ![pool_[p]] = p]
            /\ pc' = [pc EXCEPT ![p] = "open"]
            /\ UNCHANGED <<path_, pool_>>
       ELSE Vanish(p) /\ UNCHANGED pools_
    /\ UNCHANGED <<files, readers, crashes>>

(* Slip: the entry stays while the pool is closed. *)
deregisterPoolNot(p, next) ==
    /\ pc[p] = "open"
    /\ pc' = [pc EXCEPT ![p] = next]
    /\ UNCHANGED <<files, pools_, path_, pool_, readers, crashes>>

(* close(), alone or called by remove(): deregisterPool(pool) comes first, *)
(* with its assertion, which leaves the object as it was.                  *)
deregisterPool(p, next) ==
    /\ pc[p] = "open"
    /\ IF pools_[pool_[p]] # None
       THEN /\ pools_' = [pools_ EXCEPT ![pool_[p]] = None]
            /\ pc' = [pc EXCEPT ![p] = next]
       ELSE UNCHANGED <<pools_, pc>>
    /\ UNCHANGED <<files, path_, pool_, readers, crashes>>

(* Slip: close() forgets pool_ = 0. *)
UnmapKeepingHandle(p) ==
    /\ pc[p] \in {"close", "remove"}
    /\ mapped' = [mapped EXCEPT ![pool_[p]] = None]
    /\ pc' = [pc EXCEPT ![p] = IF pc[p] = "close" THEN "none" ELSE "unlink"]
    /\ UNCHANGED <<disk, pools_, path_, pool_, readers, crashes>>

(* ::pmemobj_close(pool_); pool_ = 0. *)
Unmap(p) ==
    /\ pc[p] \in {"close", "remove"}
    /\ mapped' = [mapped EXCEPT ![pool_[p]] = None]
    /\ IF pc[p] = "close" THEN Vanish(p)
       ELSE /\ pool_' = [pool_ EXCEPT ![p] = None]
            /\ pc' = [pc EXCEPT ![p] = "unlink"]
            /\ UNCHANGED path_
    /\ UNCHANGED <<disk, pools_, readers, crashes>>

(* ::remove(path), the end of remove(). *)
Unlink(p) ==
    /\ pc[p] = "unlink"
    /\ disk' = [disk EXCEPT ![path_[p]] = "absent"]
    /\ mapped' = [h \in Handle |-> IF mapped[h] = path_[p] THEN "unlinked" ELSE mapped[h]]
    /\ Vanish(p)
    /\ UNCHANGED <<pools_, readers, crashes>>

(* getRoot() and uuid(): ::pmemobj_root makes a zeroed root if there is none. *)
GetRoot(p) ==
    /\ pc[p] = "open"
    /\ mapped[pool_[p]] = path_[p]
    /\ disk[path_[p]] = "rootless"
    /\ disk' = [disk EXCEPT ![path_[p]] = "zeroed"]
    /\ UNCHANGED <<mapped, pools_, objects, readers, crashes>>

(* A reader comes by a pointer into a mapped pool. *)
TakePointer(r, h) ==
    /\ mapped[h] # None
    /\ ptr' = [ptr EXCEPT ![r] = h]
    /\ found' = [found EXCEPT ![r] = None]
    /\ UNCHANGED <<files, pools_, objects, crashes>>

(* poolFromPointer(ptr). *)
Lookup(h) == IF mapped[h] = None THEN "SeriousBug"
             ELSE IF pools_[h] = None THEN "AssertionFailed"
             ELSE pools_[h]

poolFromPointer(r) ==
    /\ ptr[r] # None
    /\ found' = [found EXCEPT ![r] = Lookup(ptr[r])]
    /\ UNCHANGED <<files, pools_, objects, ptr, crashes>>

(* The process dies: mappings, registry and objects go, files stay. *)
Restart ==
    /\ crashes < MaxCrashes
    /\ crashes' = crashes + 1
    /\ mapped' = [h \in Handle |-> None]
    /\ pools_' = [h \in Handle |-> None]
    /\ path_' = [p \in Pool |-> None]
    /\ pool_' = [p \in Pool |-> None]
    /\ pc' = [p \in Pool |-> "none"]
    /\ ptr' = [r \in Reader |-> None]
    /\ found' = [r \in Reader |-> None]
    /\ UNCHANGED disk

Next == \/ \E p \in Pool, f \in File : Open(p, f) \/ Create(p, f)
        \/ \E p \in Pool : \/ Stat(p) \/ ConstructRoot(p) \/ RootThrows(p)
                           \/ registerPool(p)
                           \/ \E next \in {"close", "remove"} : deregisterPool(p, next)
                           \/ Unmap(p) \/ Unlink(p)
                           \/ GetRoot(p)
        \/ \E r \in Reader : \/ \E h \in Handle : TakePointer(r, h)
                             \/ poolFromPointer(r)
        \/ Restart

Spec == Init /\ [][Next]_vars

-----------------------------------------------------------------------------
(***************************************************************************)
(* Properties.                                                             *)
(***************************************************************************)
Live == {"created", "opened", "register", "open", "close", "remove"}

(* The type invariant; it includes that an object has a handle exactly     *)
(* while libpmemobj has its pool open.                                     *)
TypeOK ==
    /\ disk \in [File -> {"absent", "rootless", "zeroed", "rooted"}]
    /\ mapped \in [Handle -> File \union {None, "unlinked"}]
    /\ pools_ \in [Handle -> Pool \union {None}]
    /\ path_ \in [Pool -> File \union {None}]
    /\ pool_ \in [Pool -> Handle \union {None}]
    /\ pc \in [Pool -> Live \union {"none", "unlink"}]
    /\ ptr \in [Reader -> Handle \union {None}]
    /\ found \in [Reader -> Pool \union {None, "SeriousBug", "AssertionFailed"}]
    /\ crashes \in 0..MaxCrashes
    /\ \A p \in Pool : (pool_[p] # None) <=> (pc[p] \in Live)

(* The registry has an entry for a handle exactly while the object that    *)
(* owns that handle is open, and the entry is that object: no entry        *)
(* survives the unmapping of its pool to be found through an address that  *)
(* another pool was given since, whatever the threads do meanwhile.        *)
RegistryIsExact ==
    /\ \A h \in Handle : pools_[h] # None => /\ pc[pools_[h]] = "open"
                                            /\ pool_[pools_[h]] = h
    /\ \A p \in Pool : pc[p] = "open" => pools_[pool_[p]] = p

(* What poolFromPointer returns is the object whose pool holds the address *)
(* at that instant.                                                        *)
LookupFindsOwner ==
    [][\A r \in Reader :
          LET o == found'[r] IN
          found[r] # o /\ o \in Pool =>
              /\ pool_[o] = ptr[r]
              /\ mapped[ptr[r]] \in {path_[o], "unlinked"}]_vars

(* A lookup of r that fails its assertion, and what explains it. *)
FailsInWindow(r) ==
    found[r] # found'[r] /\ found'[r] = "AssertionFailed" /\ mapped[ptr[r]] \in File =>
        \/ \E p \in Pool : pool_[p] = ptr[r] /\ pc[p] \in Live \ {"open"}
        \/ disk[mapped[ptr[r]]] = "rootless"

(* poolFromPointer fails its assertion on an address of a pool that is     *)
(* mapped only while a thread is between opening and registering that pool *)
(* or between deregistering and closing it, or for a pool left mapped by   *)
(* its constructor: one whose root was never made, or one that remove()    *)
(* took the path of while it was being opened.                             *)
LookupFailsOnlyInWindow == [][\A r \in Reader : FailsInWindow(r)]_vars

(* The addresses of pools that no object will ever unmap. *)
Stranded == {h \in Handle : mapped[h] # None /\ \A p \in Pool : pool_[p] # h}

(* A pool is left mapped without an object in two ways only: stat() finds  *)
(* that remove(), called for another object of the same path, unlinked the *)
(* file after it was opened; or the constructor of the root of a new pool  *)
(* throws something other than AllocationError, and the file, which has no *)
(* root, cannot be opened again by this process.  In particular the        *)
(* assertion of registerPool strands nothing: it never meets the entry of  *)
(* a pool that was at the same address before.                             *)
StrandedOnlyByConstructors ==
    [][\A h \in Stranded' \ Stranded :
          \E p \in Pool :
             /\ pool_[p] = h
             /\ \/ pc[p] = "opened" /\ mapped[h] = "unlinked"
                \/ pc[p] = "created" /\ mapped[h] \in {f \in File : disk[f] = "rootless"}
                                                        \union {"unlinked"}]_vars
=============================================================================
