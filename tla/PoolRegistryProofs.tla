------------------------- MODULE PoolRegistryProofs -------------------------
(***************************************************************************)
(* Proofs about PoolRegistry, for every set of objects, files, handles and *)
(* readers.                                                                *)
(***************************************************************************)
EXTENDS PoolRegistry, TLAPS

(* No two objects have the same handle. *)
HandlesAreUnique ==
    \A p, q \in Pool : pool_[p] # None /\ pool_[p] = pool_[q] => p = q

(* The file of an object is mapped at its handle, if only without a path.  *)
HandlesAreMapped ==
    /\ \A p \in Pool : pool_[p] # None => mapped[pool_[p]] \in {path_[p], "unlinked"}
    /\ \A p \in Pool : pc[p] # "none" => path_[p] \in File

(* A file that is mapped under its path exists, and is mapped once.        *)
MappedFilesExist ==
    \A h \in Handle : mapped[h] \in File => disk[mapped[h]] # "absent"

FilesMappedOnce ==
    \A g, h \in Handle : mapped[g] \in File /\ mapped[g] = mapped[h] => g = h

(* The file that an object creates has no root yet.                        *)
CreatedAreRootless ==
    \A p \in Pool :
       pc[p] = "created" /\ mapped[pool_[p]] # "unlinked" => disk[path_[p]] = "rootless"

(* A pool that is mapped under its path has an object, or no root.         *)
StrandedAreRootless ==
    \A h \in Handle :
       mapped[h] \in File => h \notin Stranded \/ disk[mapped[h]] = "rootless"

Inv == /\ TypeOK
       /\ HandlesAreUnique
       /\ HandlesAreMapped
       /\ MappedFilesExist
       /\ FilesMappedOnce
       /\ CreatedAreRootless
       /\ StrandedAreRootless
       /\ RegistryIsExact

(* Nothing is mapped or registered when the first process starts.          *)
LEMMA InvInit == Init => Inv
  BY NoneAssumption, UnlinkedAssumption, CrashesAssumption
  DEF Init, Inv, TypeOK, HandlesAreUnique, HandlesAreMapped, MappedFilesExist, FilesMappedOnce,
      CreatedAreRootless, StrandedAreRootless, RegistryIsExact, Live

(* What Map does to a free handle. *)
LEMMA MapPicksFree ==
    ASSUME NEW p \in Pool, NEW f \in File, NEW next, Inv, pc[p] = "none", Map(p, f, next)
    PROVE  \E h \in Handle :
              /\ mapped[h] = None
              /\ mapped' = [mapped EXCEPT ![h] = f]
              /\ pool_' = [pool_ EXCEPT ![p] = h]
              /\ path_' = [path_ EXCEPT ![p] = f]
              /\ pc' = [pc EXCEPT ![p] = next]
              /\ \A q \in Pool : pool_[q] # h
              /\ pools_[h] = None
<1>1. PICK h \in Handle :
        /\ mapped[h] = None
        /\ mapped' = [mapped EXCEPT ![h] = f]
        /\ pool_' = [pool_ EXCEPT ![p] = h]
        /\ path_' = [path_ EXCEPT ![p] = f]
        /\ pc' = [pc EXCEPT ![p] = next]
  BY DEF Map
<1>2. ASSUME NEW q \in Pool, pool_[q] = h PROVE FALSE
  <2>1. path_[q] \in File /\ mapped[h] \in {path_[q], "unlinked"}
    BY <1>2, NoneAssumption DEF Inv, TypeOK, HandlesAreMapped, Live
  <2> QED BY <1>1, <2>1, NoneAssumption, UnlinkedAssumption
<1>3. pools_[h] = None
  BY <1>2 DEF Inv, TypeOK, RegistryIsExact
<1> QED BY <1>1, <1>2, <1>3

(* No pool is registered yet at the handle of an object that registers.    *)
LEMMA FreshEntry ==
    ASSUME Inv, NEW p \in Pool, pc[p] = "register"
    PROVE  pools_[pool_[p]] = None
  BY NoneAssumption DEF Inv, TypeOK, Live, HandlesAreUnique, RegistryIsExact

(* An object can vanish and leave its pool mapped if that pool has no path *)
(* or no root.                                                             *)
LEMMA VanishKeeps ==
    ASSUME Inv, NEW p \in Pool, pc[p] \in {"opened", "created"}, Vanish(p),
           UNCHANGED <<files, pools_, readers, crashes>>,
           \/ mapped[pool_[p]] = "unlinked"
           \/ mapped[pool_[p]] = path_[p] /\ disk[path_[p]] = "rootless"
    PROVE  Inv'
<1> USE NoneAssumption, UnlinkedAssumption DEF Vanish, files
<1>1. TypeOK' /\ HandlesAreUnique' /\ HandlesAreMapped' /\ MappedFilesExist' /\ FilesMappedOnce'
  BY DEF Inv, TypeOK, Live, HandlesAreUnique, HandlesAreMapped, MappedFilesExist, FilesMappedOnce,
         readers
<1>2. RegistryIsExact' /\ CreatedAreRootless'
  BY DEF Inv, TypeOK, Live, RegistryIsExact, CreatedAreRootless
<1>3. StrandedAreRootless'
  BY DEF Inv, TypeOK, Live, StrandedAreRootless, Stranded
<1> QED BY <1>1, <1>2, <1>3 DEF Inv

(* An object that gives its pool a root takes it from nobody else.         *)
LEMMA RootMade ==
    ASSUME Inv, NEW p \in Pool, pool_[p] \in Handle, path_[p] \in File, NEW state,
           \/ disk' = disk
           \/ disk' = [disk EXCEPT ![path_[p]] = state] /\ mapped[pool_[p]] = path_[p],
           UNCHANGED <<mapped, path_, pool_>>,
           \A q \in Pool : pc'[q] = "created" => q # p /\ pc[q] = "created"
    PROVE  CreatedAreRootless' /\ StrandedAreRootless'
<1> USE NoneAssumption, UnlinkedAssumption
<1>1. ASSUME NEW h \in Handle, h # pool_[p], mapped[h] \in File
      PROVE  disk'[mapped[h]] = disk[mapped[h]]
  BY <1>1 DEF Inv, TypeOK, FilesMappedOnce
<1>2. ASSUME NEW q \in Pool, pc'[q] = "created", mapped'[pool_'[q]] # "unlinked"
      PROVE  disk'[path_'[q]] = "rootless"
  <2>1. pc[q] = "created" /\ q # p /\ pool_[q] \in Handle
    BY <1>2 DEF Inv, TypeOK, Live
  <2>2. mapped[pool_[q]] = path_[q] /\ path_[q] \in File /\ pool_[q] # pool_[p]
    BY <1>2, <2>1 DEF Inv, HandlesAreMapped, HandlesAreUnique
  <2>3. disk[path_[q]] = "rootless"
    BY <1>2, <2>1 DEF Inv, CreatedAreRootless
  <2> QED BY <1>1, <2>1, <2>2, <2>3
<1>3. ASSUME NEW h \in Handle, mapped'[h] \in File, h \in Stranded'
      PROVE  disk'[mapped'[h]] = "rootless"
  <2>1. h \in Stranded /\ h # pool_[p] /\ mapped[h] \in File
    BY <1>3 DEF Stranded
  <2>2. disk[mapped[h]] = "rootless"
    BY <2>1 DEF Inv, StrandedAreRootless
  <2> QED BY <1>1, <2>1, <2>2
<1> QED BY <1>2, <1>3 DEF CreatedAreRootless, StrandedAreRootless

(* Every step of a constructor, of close(), remove() or the registry, and  *)
(* a death, keep the invariant.                                            *)
LEMMA InvNext == Inv /\ [Next]_vars => Inv'
<1> SUFFICES ASSUME Inv, [Next]_vars PROVE Inv'
  OBVIOUS
<1> USE NoneAssumption, UnlinkedAssumption
<1>a. TypeOK /\ HandlesAreUnique /\ HandlesAreMapped /\ MappedFilesExist
  BY DEF Inv
<1>b. FilesMappedOnce /\ CreatedAreRootless /\ StrandedAreRootless /\ RegistryIsExact
  BY DEF Inv
<1>1. ASSUME NEW p \in Pool, NEW f \in File, Open(p, f) \/ Create(p, f) PROVE Inv'
  <2>1. PICK h \in Handle :
          /\ mapped[h] = None
          /\ mapped' = [mapped EXCEPT ![h] = f]
          /\ pool_' = [pool_ EXCEPT ![p] = h]
          /\ path_' = [path_ EXCEPT ![p] = f]
          /\ \/ pc' = [pc EXCEPT ![p] = "opened"] /\ disk' = disk
             \/ pc' = [pc EXCEPT ![p] = "created"] /\ disk' = [disk EXCEPT ![f] = "rootless"]
          /\ \A q \in Pool : pool_[q] # h
          /\ pools_[h] = None
    BY <1>1, MapPicksFree DEF Open, Create
  <2>2. /\ pc[p] = "none" /\ pools_' = pools_ /\ UNCHANGED readers /\ crashes' = crashes
        /\ ~IsMapped(f)
        /\ \/ disk' = disk /\ disk[f] # "absent"
           \/ disk' = [disk EXCEPT ![f] = "rootless"]
    BY <1>1, <1>a DEF Open, Create, MappedFilesExist, IsMapped
  <2>3. TypeOK'
    BY <1>a, <2>1, <2>2 DEF TypeOK, Live, readers
  <2>4. HandlesAreUnique' /\ HandlesAreMapped' /\ MappedFilesExist'
    BY <1>a, <2>1, <2>2 DEF TypeOK, HandlesAreUnique, HandlesAreMapped, MappedFilesExist
  <2>5. RegistryIsExact'
    BY <1>a, <1>b, <2>1, <2>2 DEF TypeOK, RegistryIsExact
  <2>6. FilesMappedOnce'
    BY <1>a, <1>b, <2>1, <2>2 DEF TypeOK, FilesMappedOnce, IsMapped
  <2>7. CreatedAreRootless'
    <3> SUFFICES ASSUME NEW q \in Pool, pc'[q] = "created", mapped'[pool_'[q]] # "unlinked"
                 PROVE  disk'[path_'[q]] = "rootless"
      BY DEF CreatedAreRootless
    <3>1. CASE q = p
      BY <1>a, <2>1, <3>1 DEF TypeOK
    <3>2. CASE q # p
      <4>1. pc[q] = "created" /\ pool_'[q] = pool_[q] /\ path_'[q] = path_[q]
        BY <1>a, <2>1, <3>2 DEF TypeOK
      <4>2. pool_[q] \in Handle /\ pool_[q] # h
        BY <1>a, <2>1, <4>1 DEF TypeOK, Live
      <4>3. mapped'[pool_'[q]] = mapped[pool_[q]]
        BY <1>a, <2>1, <4>1, <4>2 DEF TypeOK
      <4>4. mapped[pool_[q]] = path_[q] /\ path_[q] \in File
        BY <1>a, <4>1, <4>2, <4>3 DEF HandlesAreMapped
      <4>5. path_[q] # f
        BY <2>2, <4>2, <4>4 DEF IsMapped
      <4>6. disk[path_[q]] = "rootless"
        BY <1>b, <4>1, <4>4 DEF CreatedAreRootless
      <4> QED BY <1>a, <2>1, <4>1, <4>4, <4>5, <4>6 DEF TypeOK
    <3> QED BY <3>1, <3>2
  <2>8. StrandedAreRootless'
    <3> SUFFICES ASSUME NEW g \in Handle, mapped'[g] \in File, \A q \in Pool : pool_'[q] # g
                 PROVE  disk'[mapped'[g]] = "rootless"
      BY DEF StrandedAreRootless, Stranded
    <3>1. pool_'[p] = h /\ \A q \in Pool \ {p} : pool_'[q] = pool_[q]
      BY <1>a, <2>1 DEF TypeOK
    <3>2. pool_[p] = None
      BY <1>a, <2>2 DEF TypeOK, Live
    <3>3. g # h /\ mapped'[g] = mapped[g]
      BY <1>a, <2>1, <3>1 DEF TypeOK
    <3>4. disk[mapped[g]] = "rootless"
      BY <1>b, <3>1, <3>2, <3>3 DEF StrandedAreRootless, Stranded
    <3>5. mapped[g] # f
      BY <2>2, <3>3 DEF IsMapped
    <3> QED BY <1>a, <2>2, <3>3, <3>4, <3>5 DEF TypeOK
  <2> QED BY <2>3, <2>4, <2>5, <2>6, <2>7, <2>8 DEF Inv
<1>2. ASSUME NEW p \in Pool, Stat(p) PROVE Inv'
  <2>1. CASE disk[path_[p]] # "absent"
    BY <1>2, <2>1
    DEF Stat, Inv, TypeOK, Live, HandlesAreUnique, HandlesAreMapped, MappedFilesExist,
        FilesMappedOnce, CreatedAreRootless, StrandedAreRootless, Stranded,
        RegistryIsExact, files, readers
  <2>2. CASE disk[path_[p]] = "absent"
    <3>1. mapped[pool_[p]] = "unlinked"
      BY <1>2, <2>2 DEF Stat, Inv, TypeOK, Live, HandlesAreMapped, MappedFilesExist
    <3> QED BY <1>2, <2>2, <3>1, VanishKeeps DEF Stat
  <2> QED BY <2>1, <2>2
<1>3. ASSUME NEW p \in Pool, ConstructRoot(p) PROVE Inv'
  <2>1. path_[p] \in File /\ (mapped[pool_[p]] = path_[p] => disk[path_[p]] # "absent")
    BY <1>3, <1>a DEF ConstructRoot, TypeOK, Live, HandlesAreMapped, MappedFilesExist
  <2>2. \/ disk' = disk
        \/ disk' = [disk EXCEPT ![path_[p]] = "rooted"] /\ mapped[pool_[p]] = path_[p]
    BY <1>3 DEF ConstructRoot
  <2>3. /\ pc[p] = "created" /\ pc' = [pc EXCEPT ![p] = "register"]
        /\ UNCHANGED <<mapped, pools_, path_, pool_, readers, crashes>>
    BY <1>3 DEF ConstructRoot
  <2>4. TypeOK' /\ HandlesAreUnique' /\ HandlesAreMapped' /\ MappedFilesExist'
    BY <1>a, <2>1, <2>2, <2>3
    DEF TypeOK, Live, HandlesAreUnique, HandlesAreMapped, MappedFilesExist, readers
  <2>5. RegistryIsExact' /\ FilesMappedOnce'
    BY <1>a, <1>b, <2>3 DEF TypeOK, RegistryIsExact, FilesMappedOnce
  <2>6. CreatedAreRootless' /\ StrandedAreRootless'
    BY <1>a, <1>b, <2>1, <2>2, <2>3, RootMade
    DEF TypeOK, Live
  <2> QED BY <2>4, <2>5, <2>6 DEF Inv
<1>3b. ASSUME NEW p \in Pool, RootThrows(p) PROVE Inv'
  <2>1. \/ mapped[pool_[p]] = "unlinked"
        \/ mapped[pool_[p]] = path_[p] /\ disk[path_[p]] = "rootless"
    BY <1>3b, <1>a, <1>b DEF RootThrows, TypeOK, Live, HandlesAreMapped, CreatedAreRootless
  <2> QED BY <1>3b, <2>1, VanishKeeps DEF RootThrows
<1>4. ASSUME NEW p \in Pool, registerPool(p) PROVE Inv'
  <2>1. pools_[pool_[p]] = None
    BY <1>4, FreshEntry DEF registerPool
  <2>2. pools_' = [pools_ EXCEPT ![pool_[p]] = p] /\ pc' = [pc EXCEPT ![p] = "open"]
    BY <1>4, <2>1 DEF registerPool
  <2> QED
    BY <1>4, <2>1, <2>2
    DEF registerPool, Inv, TypeOK, Live, HandlesAreUnique, HandlesAreMapped, MappedFilesExist,
        FilesMappedOnce, CreatedAreRootless, StrandedAreRootless, Stranded,
        RegistryIsExact, files, readers
<1>5. ASSUME NEW p \in Pool, NEW next \in {"close", "remove"}, deregisterPool(p, next) PROVE Inv'
  <2>1. pools_[pool_[p]] = p /\ pool_[p] \in Handle
    BY <1>5, <1>a, <1>b DEF deregisterPool, TypeOK, Live, RegistryIsExact
  <2>2. pools_' = [pools_ EXCEPT ![pool_[p]] = None] /\ pc' = [pc EXCEPT ![p] = next]
    BY <1>5, <2>1 DEF deregisterPool
  <2> QED
    BY <1>5, <2>1, <2>2
    DEF deregisterPool, Inv, TypeOK, Live, HandlesAreUnique, HandlesAreMapped, MappedFilesExist,
        FilesMappedOnce, CreatedAreRootless, StrandedAreRootless, Stranded,
        RegistryIsExact, files, readers
<1>6. ASSUME NEW p \in Pool, Unmap(p) PROVE Inv'
  <2>1. pool_[p] \in Handle /\ pools_[pool_[p]] = None
    BY <1>6, <1>a, <1>b DEF Unmap, TypeOK, Live, HandlesAreUnique, RegistryIsExact
  <2>2. /\ mapped' = [mapped EXCEPT ![pool_[p]] = None]
        /\ pool_' = [pool_ EXCEPT ![p] = None]
        /\ UNCHANGED <<disk, pools_, readers, crashes>>
        /\ \/ pc' = [pc EXCEPT ![p] = "none"] /\ path_' = [path_ EXCEPT ![p] = None]
           \/ pc' = [pc EXCEPT ![p] = "unlink"] /\ path_' = path_
        /\ pc[p] \in {"close", "remove"}
    BY <1>6 DEF Unmap, Vanish
  <2>3. TypeOK' /\ HandlesAreUnique' /\ MappedFilesExist' /\ FilesMappedOnce'
    BY <1>a, <1>b, <2>1, <2>2
    DEF TypeOK, Live, HandlesAreUnique, MappedFilesExist, FilesMappedOnce, readers
  <2>4. HandlesAreMapped' /\ RegistryIsExact' /\ CreatedAreRootless'
    BY <1>a, <1>b, <2>1, <2>2
    DEF TypeOK, Live, HandlesAreUnique, HandlesAreMapped, RegistryIsExact, CreatedAreRootless
  <2>5. StrandedAreRootless'
    BY <1>a, <1>b, <2>1, <2>2 DEF TypeOK, StrandedAreRootless, Stranded
  <2> QED BY <2>3, <2>4, <2>5 DEF Inv
<1>7. ASSUME NEW p \in Pool, Unlink(p) PROVE Inv'
  <2>1. pool_[p] = None /\ path_[p] \in File
    BY <1>7, <1>a DEF Unlink, TypeOK, Live, HandlesAreMapped
  <2>2. /\ disk' = [disk EXCEPT ![path_[p]] = "absent"]
        /\ mapped' = [h \in Handle |-> IF mapped[h] = path_[p] THEN "unlinked" ELSE mapped[h]]
        /\ pc' = [pc EXCEPT ![p] = "none"]
        /\ path_' = [path_ EXCEPT ![p] = None]
        /\ pool_' = [pool_ EXCEPT ![p] = None]
        /\ UNCHANGED <<pools_, readers, crashes>>
    BY <1>7 DEF Unlink, Vanish
  <2>3. pool_' = pool_
    BY <1>a, <2>1, <2>2 DEF TypeOK
  <2>4. TypeOK'
    BY <1>7, <1>a, <2>1, <2>2 DEF Unlink, TypeOK, Live, readers
  <2>5. HandlesAreUnique' /\ HandlesAreMapped' /\ MappedFilesExist'
    BY <1>7, <1>a, <2>1, <2>2, <2>3
    DEF Unlink, TypeOK, HandlesAreUnique, HandlesAreMapped, MappedFilesExist
  <2>6. RegistryIsExact' /\ FilesMappedOnce'
    BY <1>7, <1>a, <1>b, <2>1, <2>2, <2>3 DEF Unlink, TypeOK, RegistryIsExact, FilesMappedOnce
  <2>7. StrandedAreRootless'
    BY <1>a, <1>b, <2>1, <2>2, <2>3 DEF TypeOK, StrandedAreRootless, Stranded
  <2>8. CreatedAreRootless'
    BY <1>a, <1>b, <2>1, <2>2, <2>3 DEF TypeOK, Live, HandlesAreMapped, CreatedAreRootless
  <2> QED BY <2>4, <2>5, <2>6, <2>7, <2>8 DEF Inv
<1>8. ASSUME NEW p \in Pool, GetRoot(p) PROVE Inv'
  <2>1. path_[p] \in File /\ pool_[p] \in Handle
    BY <1>8, <1>a DEF GetRoot, TypeOK, Live, HandlesAreMapped
  <2>2. /\ pc[p] = "open" /\ mapped[pool_[p]] = path_[p]
        /\ disk[path_[p]] = "rootless" /\ disk' = [disk EXCEPT ![path_[p]] = "zeroed"]
        /\ UNCHANGED <<mapped, pools_, pc, path_, pool_, readers, crashes>>
    BY <1>8 DEF GetRoot, objects
  <2>3. TypeOK' /\ HandlesAreUnique' /\ HandlesAreMapped' /\ MappedFilesExist'
    BY <1>a, <2>1, <2>2
    DEF TypeOK, Live, HandlesAreUnique, HandlesAreMapped, MappedFilesExist, readers
  <2>4. RegistryIsExact' /\ FilesMappedOnce'
    BY <1>b, <2>2 DEF RegistryIsExact, FilesMappedOnce
  <2>5. CreatedAreRootless' /\ StrandedAreRootless'
    BY <1>a, <1>b, <2>1, <2>2, RootMade DEF TypeOK, Live
  <2> QED BY <2>3, <2>4, <2>5 DEF Inv
<1>9. ASSUME NEW r \in Reader, NEW h \in Handle, TakePointer(r, h) PROVE Inv'
  BY <1>9
  DEF TakePointer, Inv, TypeOK, Live, HandlesAreUnique, HandlesAreMapped, MappedFilesExist,
      FilesMappedOnce, CreatedAreRootless, StrandedAreRootless, Stranded,
      RegistryIsExact, objects, files
<1>10. ASSUME NEW r \in Reader, poolFromPointer(r) PROVE Inv'
  <2>1. Lookup(ptr[r]) \in Pool \union {None, "SeriousBug", "AssertionFailed"}
    BY <1>10 DEF poolFromPointer, Lookup, Inv, TypeOK
  <2> QED
    BY <1>10, <2>1
    DEF poolFromPointer, Inv, TypeOK, Live, HandlesAreUnique, HandlesAreMapped, MappedFilesExist,
        FilesMappedOnce, CreatedAreRootless, StrandedAreRootless, Stranded,
        RegistryIsExact, objects, files
<1>11. CASE Restart
  BY <1>11, CrashesAssumption
  DEF Restart, Inv, TypeOK, Live, HandlesAreUnique, HandlesAreMapped, MappedFilesExist,
      FilesMappedOnce, CreatedAreRootless, StrandedAreRootless, RegistryIsExact
<1>12. CASE UNCHANGED vars
  BY <1>12
  DEF vars, Inv, TypeOK, Live, HandlesAreUnique, HandlesAreMapped, MappedFilesExist,
      FilesMappedOnce, CreatedAreRootless, StrandedAreRootless, Stranded,
      RegistryIsExact, objects, files, readers
<1> QED
  BY <1>1, <1>2, <1>3, <1>3b, <1>4, <1>5, <1>6, <1>7, <1>8, <1>9, <1>10, <1>11, <1>12 DEF Next

(* So the invariant holds in every run.                                    *)
LEMMA Invariance == Spec => []Inv
  BY InvInit, InvNext, PTL DEF Spec

(* The state of the registry and of the objects is well typed in every run. *)
THEOREM RegistryTypeCorrect == Spec => []TypeOK
<1>1. Inv => TypeOK
  BY DEF Inv
<1> QED BY <1>1, Invariance, PTL

(* In every run, with any number of threads, the registry holds exactly    *)
(* the open objects, each under its own handle.                            *)
THEOREM RegistryCorrect == Spec => []RegistryIsExact
<1>1. Inv => RegistryIsExact
  BY DEF Inv
<1> QED BY <1>1, Invariance, PTL

(* In every run a pool is left mapped without an object only by an opening *)
(* that remove() ran into or by the exception of a root's constructor.     *)
THEOREM StrandingIsKnown == Spec => StrandedOnlyByConstructors
<1>1. Inv /\ [Next]_vars =>
        [\A h \in Stranded' \ Stranded :
            \E p \in Pool :
               /\ pool_[p] = h
               /\ \/ pc[p] = "opened" /\ mapped[h] = "unlinked"
                  \/ pc[p] = "created" /\ mapped[h] \in {f \in File : disk[f] = "rootless"}
                                                          \union {"unlinked"}]_vars
  <2> SUFFICES ASSUME Inv, Next, NEW h \in Stranded' \ Stranded
               PROVE  \E p \in Pool :
                         /\ pool_[p] = h
                         /\ \/ pc[p] = "opened" /\ mapped[h] = "unlinked"
                            \/ pc[p] = "created"
                               /\ mapped[h] \in {f \in File : disk[f] = "rootless"}
                                               \union {"unlinked"}
    BY DEF Stranded
  <2> USE NoneAssumption, UnlinkedAssumption
  <2>1. h \in Handle /\ mapped'[h] # None /\ \A q \in Pool : pool_'[q] # h
    BY DEF Stranded
  <2>2. ASSUME mapped[h] = None PROVE FALSE
    <3>a. ~ \E q \in Pool : Unmap(q)
      BY <2>1, <2>2 DEF Unmap, Inv, TypeOK
    <3>b. ~ \E q \in Pool : Unlink(q)
      BY <2>1, <2>2 DEF Unlink, Inv, TypeOK, Live, HandlesAreMapped
    <3>c. ~Restart
      BY <2>1 DEF Restart
    <3>d. mapped' # mapped
      BY <2>1, <2>2
    <3>1. PICK p \in Pool, f \in File : Open(p, f) \/ Create(p, f)
      BY <3>a, <3>b, <3>c, <3>d
      DEF Next, Stat, ConstructRoot, RootThrows, registerPool, deregisterPool, GetRoot,
          TakePointer, poolFromPointer, files
    <3>2. PICK g \in Handle : /\ mapped' = [mapped EXCEPT ![g] = f]
                              /\ pool_' = [pool_ EXCEPT ![p] = g]
      BY <3>1 DEF Open, Create, Map
    <3> QED BY <2>1, <2>2, <3>2 DEF Inv, TypeOK
  <2>3. PICK p \in Pool : pool_[p] = h
    BY <2>1, <2>2 DEF Stranded
  <2>4. pool_'[p] # pool_[p] /\ pool_[p] \in Handle /\ pc[p] \in Live
    BY <2>1, <2>3 DEF Inv, TypeOK
  <2>5. Stat(p) \/ RootThrows(p) \/ registerPool(p)
    <3>1. ~ \E q \in Pool : Unmap(q)
      BY <2>1, <2>3, <2>4 DEF Unmap, Vanish, Inv, TypeOK, HandlesAreUnique
    <3>2. ~ \E q \in Pool : Unlink(q)
      BY <2>4 DEF Unlink, Vanish, Inv, TypeOK, Live
    <3>3. ~ \E q \in Pool, f \in File : Open(q, f) \/ Create(q, f)
      BY <2>4 DEF Open, Create, Map, Inv, TypeOK, Live
    <3>4. ~Restart
      BY <2>1 DEF Restart
    <3>5. PICK q \in Pool : Stat(q) \/ RootThrows(q) \/ registerPool(q)
      BY <2>4, <3>1, <3>2, <3>3, <3>4
      DEF Next, ConstructRoot, deregisterPool, GetRoot, TakePointer, poolFromPointer, objects
    <3>6. q = p
      BY <2>4, <3>5 DEF Stat, RootThrows, registerPool, Vanish, Inv, TypeOK
    <3> QED BY <3>5, <3>6
  <2>6. ~registerPool(p)
    BY <2>4, FreshEntry DEF registerPool
  <2>7. CASE Stat(p)
    BY <2>3, <2>4, <2>7 DEF Stat, Vanish, Inv, HandlesAreMapped, MappedFilesExist
  <2>8. CASE RootThrows(p)
    BY <2>3, <2>4, <2>8 DEF RootThrows, Inv, HandlesAreMapped, CreatedAreRootless
  <2> QED BY <2>5, <2>6, <2>7, <2>8
<1> QED BY <1>1, Invariance, PTL DEF Spec, StrandedOnlyByConstructors

(* In every run poolFromPointer returns the object whose pool holds the    *)
(* address.                                                                *)
THEOREM LookupCorrect == Spec => LookupFindsOwner
<1>1. Inv /\ [Next]_vars =>
        [\A r \in Reader :
            LET o == found'[r] IN
            found[r] # o /\ o \in Pool =>
                /\ pool_[o] = ptr[r]
                /\ mapped[ptr[r]] \in {path_[o], "unlinked"}]_vars
  <2> SUFFICES ASSUME Inv, Next, NEW r \in Reader, found[r] # found'[r], found'[r] \in Pool
               PROVE  /\ pool_[found'[r]] = ptr[r]
                      /\ mapped[ptr[r]] \in {path_[found'[r]], "unlinked"}
    OBVIOUS
  <2>1. PICK q \in Reader : poolFromPointer(q) \/ \E h \in Handle : TakePointer(q, h)
    BY NoneAssumption
    DEF Next, Open, Create, Stat, ConstructRoot, RootThrows, registerPool, deregisterPool, Unmap, Unlink,
        GetRoot, Restart, readers
  <2>2. q = r /\ poolFromPointer(r)
    BY <2>1, NoneAssumption DEF poolFromPointer, TakePointer, Inv, TypeOK
  <2>3. found'[r] = pools_[ptr[r]] /\ ptr[r] \in Handle
    BY <2>2, AnswersAssumption DEF poolFromPointer, Lookup, Inv, TypeOK
  <2> QED
    BY <2>3, NoneAssumption DEF Inv, RegistryIsExact, HandlesAreMapped, TypeOK
<1> QED BY <1>1, Invariance, PTL DEF Spec, LookupFindsOwner

(* In every run, if poolFromPointer fails its assertion on an address of a *)
(* mapped pool, an object that is being opened or closed at that instant   *)
(* has the address, or the pool never got a root: an open pool is found by *)
(* every thread, always.                                                   *)
THEOREM LookupFailsInWindow == Spec => LookupFailsOnlyInWindow
<1>1. Inv /\ [Next]_vars => [\A r \in Reader : FailsInWindow(r)]_vars
  <2> SUFFICES ASSUME Inv, Next, NEW r \in Reader, found[r] # found'[r],
                      found'[r] = "AssertionFailed", mapped[ptr[r]] \in File
               PROVE  \/ \E p \in Pool : pool_[p] = ptr[r] /\ pc[p] \in Live \ {"open"}
                      \/ disk[mapped[ptr[r]]] = "rootless"
    BY DEF FailsInWindow
  <2>1. PICK q \in Reader : poolFromPointer(q) \/ \E h \in Handle : TakePointer(q, h)
    BY AnswersAssumption
    DEF Next, Open, Create, Stat, ConstructRoot, RootThrows, registerPool, deregisterPool, Unmap, Unlink,
        GetRoot, Restart, readers
  <2>2. q = r /\ poolFromPointer(r)
    BY <2>1, AnswersAssumption DEF poolFromPointer, TakePointer, Inv, TypeOK
  <2>3. ptr[r] \in Handle /\ pools_[ptr[r]] = None
    BY <2>2, AnswersAssumption DEF poolFromPointer, Lookup, Inv, TypeOK
  <2> SUFFICES ASSUME disk[mapped[ptr[r]]] # "rootless"
               PROVE  \E p \in Pool : pool_[p] = ptr[r] /\ pc[p] \in Live \ {"open"}
    OBVIOUS
  <2>4. PICK p \in Pool : pool_[p] = ptr[r]
    BY <2>3, NoneAssumption DEF Inv, StrandedAreRootless, Stranded
  <2>5. pc[p] \in Live
    BY <2>3, <2>4, NoneAssumption DEF Inv, TypeOK
  <2>6. pc[p] # "open"
    BY <2>3, <2>4, NoneAssumption DEF Inv, RegistryIsExact
  <2> QED BY <2>4, <2>5, <2>6
<1> QED BY <1>1, Invariance, PTL DEF Spec, LookupFailsOnlyInWindow
=============================================================================
