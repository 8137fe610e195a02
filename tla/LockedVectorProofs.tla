------------------------- MODULE LockedVectorProofs -------------------------
(***************************************************************************)
(* Proofs about LockedVector, for every set of threads.  What is proved of *)
(* a vector that one process uses holds of one that threads share, if they *)
(* lock the mutex: the theorems of PersistentVectorProofs are instantiated *)
(* with the registers of the thread that owns it.                          *)
(***************************************************************************)
EXTENDS LockedVector, TLAPS

AloneProofs == INSTANCE PersistentVectorProofs WITH
                   pc <- Current.pc, op <- Current.op, old <- Current.old

-----------------------------------------------------------------------------
(***************************************************************************)
(* The inductive invariant: who is in, and what the others hold.           *)
(***************************************************************************)

(* A thread that is between two calls holds nothing; a call holds the      *)
(* array that is being replaced only until it has freed it.                *)
Settled(r) == /\ r = [pc |-> r.pc, op |-> r.op, old |-> r.old]
              /\ r.pc = "idle" => r.op = NoOp
              /\ r.pc # "release" => r.old = Null

(* A thread is in if and only if it is the owner of the mutex in this run  *)
(* of the pool, and only a thread that is in is within a call.             *)
Locks ==
    /\ crashes \in 0..MaxCrashes
    /\ mutex_ \in [run : 0..MaxCrashes, owner : Thread \union {NoThread}]
    /\ mutex_.run <= Run
    /\ running \in Thread
    /\ DOMAIN saved = Thread /\ saved = [t \in Thread |-> saved[t]]
    /\ saved[running] = NoRegisters
    /\ at \in [Thread -> {"out", "waiting", "in"}]
    /\ \A t \in Thread : /\ at[t] = "in" <=> mutex_ = [run |-> Run, owner |-> t]
                         /\ at[t] # "in" => RegistersOf(t) = NoRegisters
                         /\ Settled(RegistersOf(t))

(* Nobody is in when the mutex is free, and its owner is when it is not.   *)
LEMMA WhoIsIn ==
    ASSUME Locks
    PROVE  /\ IsFree => \A t \in Thread : at[t] # "in"
           /\ IsFree => Current = NoRegisters
           /\ ~IsFree => /\ mutex_.owner \in Thread /\ at[mutex_.owner] = "in"
                         /\ Current = RegistersOf(mutex_.owner)
                         /\ mutex_ = [run |-> Run, owner |-> mutex_.owner]
           /\ \A t \in Thread : at[t] = "in" => ~IsFree /\ mutex_.owner = t
<1>1. mutex_ = [run |-> mutex_.run, owner |-> mutex_.owner]
      /\ mutex_.owner \in Thread \union {NoThread}
  BY DEF Locks
<1>2. ASSUME NEW t \in Thread, at[t] = "in" PROVE ~IsFree /\ mutex_.owner = t
  <2>1. mutex_ = [run |-> Run, owner |-> t]
    BY <1>2 DEF Locks
  <2>2. mutex_.run = Run /\ mutex_.owner = t
    BY <2>1
  <2> QED BY <2>2, ThreadAssumption DEF IsFree
<1>3. ~IsFree => mutex_.owner \in Thread /\ mutex_ = [run |-> Run, owner |-> mutex_.owner]
  BY <1>1 DEF IsFree
<1>4. ~IsFree => at[mutex_.owner] = "in"
  BY <1>3 DEF Locks
<1> QED BY <1>2, <1>3, <1>4 DEF Current

(* The registers of an idle thread. *)
LEMMA NothingHeld == Settled(NoRegisters)
BY DEF Settled, NoRegisters

(* A step of a call leaves the count of the runs alone, and what it holds  *)
(* when it ends is nothing.                                                *)
LEMMA CallSettles ==
    ASSUME CallStep, Settled(Registers)
    PROVE  crashes' = crashes /\ Settled(Registers')
<1>1. (pc = "idle" => op = NoOp) /\ (pc # "release" => old = Null)
  BY DEF Settled, Registers
<1>2. SUFFICES /\ crashes' = crashes
               /\ pc' = "idle" => op' = NoOp
               /\ pc' # "release" => old' = Null
  BY DEF Settled, Registers
<1>3. ASSUME NEW name \in Pushes, NEW e \in Elem, PushBack(name, e)
      PROVE  /\ crashes' = crashes
             /\ pc' = "idle" => op' = NoOp
             /\ pc' # "release" => old' = Null
  BY <1>1, <1>3 DEF PushBack
<1>4. ASSUME NEW n \in ResizeSizes, Resize(n)
      PROVE  /\ crashes' = crashes
             /\ pc' = "idle" => op' = NoOp
             /\ pc' # "release" => old' = Null
  BY <1>1, <1>4 DEF Resize
<1>5. CASE Reserve \/ ReserveFails
  BY <1>1, <1>5 DEF Reserve, ReserveFails, Finish
<1>6. CASE CheckSize
  BY <1>1, <1>6 DEF CheckSize, Finish
<1>7. CASE Replace \/ ReplaceRejected \/ ReplaceFails
  BY <1>1, <1>7 DEF Replace, ReplaceRejected, ReplaceFails, Finish
<1>8. CASE Release
  BY <1>1, <1>8 DEF Release, Finish
<1>9. CASE StoreElement \/ ElementFails
  BY <1>1, <1>9 DEF StoreElement, ElementFails, Finish
<1>10. CASE UpdateNelem
  BY <1>1, <1>10 DEF UpdateNelem, Finish
<1>11. CASE Size \/ Free
  BY <1>1, <1>11 DEF Size, Free
<1> QED BY <1>3, <1>4, <1>5, <1>6, <1>7, <1>8, <1>9, <1>10, <1>11 DEF CallStep

(* All threads start outside. *)
LEMMA LocksInit ==
    ASSUME LockInit
    PROVE  Locks
<1>1. /\ pc = "idle" /\ op = NoOp /\ old = Null /\ crashes = 0 /\ running \in Thread
      /\ mutex_ = [run |-> Run, owner |-> NoThread]
      /\ saved = [t \in Thread |-> NoRegisters] /\ at = [t \in Thread |-> "out"]
  BY DEF LockInit, Init
<1>2. Registers = NoRegisters
  BY <1>1 DEF Registers, NoRegisters
<1>3. \A t \in Thread : RegistersOf(t) = NoRegisters
  BY <1>1, <1>2 DEF RegistersOf
<1>4. Run = 0 /\ 0 \in 0..MaxCrashes
  BY <1>1, BoundsAssumption DEF Run
<1>5. \A t \in Thread : mutex_ # [run |-> Run, owner |-> t]
  <2>1. mutex_.owner = NoThread
    BY <1>1
  <2>2. \A t \in Thread : [run |-> Run, owner |-> t].owner = t
    OBVIOUS
  <2> QED BY <2>1, <2>2, ThreadAssumption
<1>6. mutex_ \in [run : 0..MaxCrashes, owner : Thread \union {NoThread}] /\ mutex_.run = Run
  BY <1>1, <1>4
<1> QED BY <1>1, <1>3, <1>4, <1>5, <1>6, NothingHeld DEF Locks, Run

(* What the vector shows does not depend on which thread is running.       *)
Shared == <<vec, heap, used, reply, acked, crashes>>

(* A switch saves the registers of one thread and restores those of        *)
(* another: no thread loses its own.                                       *)
LEMMA SwitchLocks ==
    ASSUME Locks, NEW t \in Thread, Switch(t)
    PROVE  Locks' /\ Current' = Current /\ UNCHANGED Shared
<1>1. /\ t # running /\ running' = t
      /\ saved' = [saved EXCEPT ![running] = Registers, ![t] = NoRegisters]
      /\ pc' = saved[t].pc /\ op' = saved[t].op /\ old' = saved[t].old
      /\ crashes' = crashes /\ mutex_' = mutex_ /\ at' = at
  BY DEF Switch
<1>2. UNCHANGED Shared
  BY DEF Switch, Shared
<1>3. /\ DOMAIN saved' = Thread /\ saved' = [u \in Thread |-> saved'[u]]
      /\ saved'[t] = NoRegisters /\ saved'[running] = Registers
      /\ \A u \in Thread \ {t, running} : saved'[u] = saved[u]
  BY <1>1 DEF Locks
<1>4. Registers' = saved[t]
  <2>1. RegistersOf(t) = saved[t]
    BY <1>1 DEF RegistersOf
  <2>2. saved[t] = [pc |-> saved[t].pc, op |-> saved[t].op, old |-> saved[t].old]
    BY <2>1 DEF Locks, Settled
  <2> QED BY <1>1, <2>2 DEF Registers
<1>5. \A u \in Thread : RegistersOf(u)' = RegistersOf(u)
  BY <1>1, <1>3, <1>4 DEF RegistersOf, Locks
<1>6. IsFree' = IsFree
  BY <1>1 DEF IsFree, Run
<1>7. Current' = Current
  <2>1. PICK o : o = mutex_.owner
    OBVIOUS
  <2>2. ~IsFree => o \in Thread
    BY <2>1, WhoIsIn
  <2>3. Current = IF IsFree THEN NoRegisters ELSE RegistersOf(o)
    BY <2>1 DEF Current
  <2>4. Current' = IF IsFree THEN NoRegisters ELSE RegistersOf(o)'
    BY <1>1, <1>6, <2>1 DEF Current, NoRegisters, RegistersOf
  <2> QED BY <1>5, <2>2, <2>3, <2>4
<1>8. Locks'
  <2>1. \A u \in Thread : /\ at'[u] = "in" <=> mutex_' = [run |-> Run', owner |-> u]
                          /\ at'[u] # "in" => RegistersOf(u)' = NoRegisters
                          /\ Settled(RegistersOf(u)')
    BY <1>1, <1>5 DEF Locks, Run
  <2> QED BY <1>1, <1>3, <2>1 DEF Locks, Run, Settled, NoRegisters, NoOp
<1> QED BY <1>2, <1>7, <1>8

(* The registers are those of the same threads while nothing runs. *)
LEMMA StillRegisters ==
    ASSUME UNCHANGED <<vars, running, saved>>
    PROVE  \A t : RegistersOf(t)' = RegistersOf(t)
BY DEF RegistersOf, Registers, vars

(* A thread that begins to wait holds nothing. *)
LEMMA RequestLocks ==
    ASSUME Locks, Request
    PROVE  Locks' /\ Current' = Current /\ UNCHANGED Shared
<1>1. /\ at[running] = "out" /\ at' = [at EXCEPT ![running] = "waiting"]
      /\ crashes' = crashes /\ mutex_' = mutex_ /\ running' = running /\ saved' = saved
      /\ UNCHANGED Shared /\ UNCHANGED vars
  BY DEF Request, vars, Shared
<1>2. \A t : RegistersOf(t)' = RegistersOf(t)
  BY StillRegisters DEF Request
<1>3. IsFree' = IsFree /\ Run' = Run
  BY <1>1 DEF IsFree, Run
<1>4. Current' = Current
  <2>1. PICK o : o = mutex_.owner
    OBVIOUS
  <2>2. Current = IF IsFree THEN NoRegisters ELSE RegistersOf(o)
    BY <2>1 DEF Current
  <2>3. Current' = IF IsFree THEN NoRegisters ELSE RegistersOf(o)'
    BY <1>1, <1>3, <2>1 DEF Current, NoRegisters, RegistersOf
  <2> QED BY <1>2, <2>2, <2>3
<1>5. /\ at' \in [Thread -> {"out", "waiting", "in"}]
      /\ \A t \in Thread : at'[t] = "in" <=> at[t] = "in"
  BY <1>1 DEF Locks
<1>6. Locks'
  <2>1. \A u \in Thread : /\ at'[u] = "in" <=> mutex_' = [run |-> Run', owner |-> u]
                          /\ at'[u] # "in" => RegistersOf(u)' = NoRegisters
                          /\ Settled(RegistersOf(u)')
    BY <1>1, <1>2, <1>3, <1>5 DEF Locks
  <2> QED BY <1>1, <1>3, <1>5, <2>1 DEF Locks, Settled, NoRegisters, NoOp
<1> QED BY <1>1, <1>4, <1>6

(* A mutex that nobody holds in this run becomes that of the thread that   *)
(* waits for it, whatever an earlier run left in it.                       *)
LEMMA lockLocks ==
    ASSUME Locks, lock
    PROVE  Locks' /\ Current' = Current /\ UNCHANGED Shared
<1>1. /\ at[running] = "waiting" /\ IsFree
      /\ mutex_' = [run |-> Run, owner |-> running]
      /\ at' = [at EXCEPT ![running] = "in"]
      /\ crashes' = crashes /\ running' = running /\ saved' = saved
      /\ UNCHANGED Shared /\ running \in Thread
  BY DEF lock, vars, Shared, Locks
<1>2. \A t : RegistersOf(t)' = RegistersOf(t)
  BY StillRegisters DEF lock
<1>3. Run' = Run /\ Run \in 0..MaxCrashes /\ Run <= Run
  BY <1>1 DEF Run, Locks
<1>4. mutex_'.run = Run /\ mutex_'.owner = running
  BY <1>1
<1>5. Current = NoRegisters /\ RegistersOf(running) = NoRegisters
  BY <1>1, WhoIsIn DEF Locks
<1>6. Current' = NoRegisters
  <2>1. PICK r : r = running
    OBVIOUS
  <2>2. ~IsFree' /\ mutex_'.owner = r
    BY <1>1, <1>3, <1>4, <2>1, ThreadAssumption DEF IsFree
  <2>3. Current' = RegistersOf(r)'
    BY <2>2 DEF Current, RegistersOf
  <2> QED BY <1>2, <1>5, <2>1, <2>3
<1>7. /\ at' \in [Thread -> {"out", "waiting", "in"}]
      /\ \A t \in Thread : at'[t] = "in" <=> t = running
  <2>1. \A t \in Thread : at[t] # "in"
    BY <1>1, WhoIsIn
  <2> QED BY <1>1, <2>1 DEF Locks
<1>8. \A t \in Thread : mutex_' = [run |-> Run', owner |-> t] <=> t = running
  <2>1. \A t : [run |-> Run', owner |-> t].owner = t
    OBVIOUS
  <2> QED BY <1>1, <1>3, <1>4, <2>1
<1>9. \A t \in Thread : /\ at'[t] = "in" <=> mutex_' = [run |-> Run', owner |-> t]
                        /\ at'[t] # "in" => RegistersOf(t)' = NoRegisters
                        /\ Settled(RegistersOf(t)')
  <2>1. \A t \in Thread : at[t] # "in"
    BY <1>1, WhoIsIn
  <2> QED BY <1>2, <1>7, <1>8, <2>1 DEF Locks
<1>10. mutex_' \in [run : 0..MaxCrashes, owner : Thread \union {NoThread}]
       /\ mutex_'.run <= Run'
  BY <1>1, <1>3, <1>4
<1>11. Locks'
  BY <1>1, <1>3, <1>7, <1>9, <1>10 DEF Locks, Settled, NoRegisters, NoOp
<1> QED BY <1>1, <1>5, <1>6, <1>11

(* A thread that leaves has ended its call. *)
LEMMA unlockLocks ==
    ASSUME Locks, unlock
    PROVE  Locks' /\ Current' = Current /\ UNCHANGED Shared
<1>1. /\ at[running] = "in" /\ pc = "idle"
      /\ mutex_' = [mutex_ EXCEPT !.owner = NoThread]
      /\ at' = [at EXCEPT ![running] = "out"]
      /\ crashes' = crashes /\ running' = running /\ saved' = saved
      /\ UNCHANGED Shared /\ running \in Thread
  BY DEF unlock, vars, Shared, Locks
<1>2. \A t : RegistersOf(t)' = RegistersOf(t)
  BY StillRegisters DEF unlock
<1>3. Run' = Run
  BY <1>1 DEF Run
<1>4. mutex_'.run = mutex_.run /\ mutex_'.owner = NoThread
      /\ mutex_' \in [run : 0..MaxCrashes, owner : Thread \union {NoThread}]
  BY <1>1 DEF Locks
<1>5. ~IsFree /\ mutex_.owner = running
  BY <1>1, WhoIsIn
<1>6. RegistersOf(running) = NoRegisters
  <2>1. Settled(RegistersOf(running)) /\ RegistersOf(running) = Registers
    BY <1>1 DEF Locks, RegistersOf
  <2>2. Registers.pc = "idle" /\ Registers.op = op /\ Registers.old = old
    BY <1>1 DEF Registers
  <2>3. op = NoOp /\ old = Null
    BY <2>1, <2>2 DEF Settled
  <2> QED BY <1>1, <2>1, <2>3 DEF Registers, NoRegisters
<1>7. Current = NoRegisters
  BY <1>5, <1>6 DEF Current
<1>8. Current' = NoRegisters
  <2>1. IsFree'
    BY <1>4 DEF IsFree
  <2> QED BY <2>1 DEF Current, NoRegisters, NoOp
<1>9. /\ at' \in [Thread -> {"out", "waiting", "in"}]
      /\ \A t \in Thread : at'[t] # "in"
  <2>1. \A t \in Thread : at[t] = "in" => t = running
    BY <1>5, WhoIsIn
  <2> QED BY <1>1, <2>1 DEF Locks
<1>10. \A t \in Thread : mutex_' # [run |-> Run', owner |-> t]
  <2>1. \A t : [run |-> Run', owner |-> t].owner = t
    OBVIOUS
  <2> QED BY <1>4, <2>1, ThreadAssumption
<1>11. \A t \in Thread : /\ RegistersOf(t)' = NoRegisters
                         /\ Settled(RegistersOf(t)')
  <2>1. \A t \in Thread : t # running => at[t] # "in"
    BY <1>5, WhoIsIn
  <2> QED BY <1>2, <1>6, <2>1 DEF Locks
<1>12. Locks'
  BY <1>1, <1>3, <1>4, <1>9, <1>10, <1>11 DEF Locks, Settled, NoRegisters, NoOp
<1> QED BY <1>1, <1>7, <1>8, <1>12

(* The thread that is in takes a step of its call. *)
LEMMA CallLocks ==
    ASSUME Locks, Call
    PROVE  Locks' /\ Current = Registers /\ Current' = Registers'
<1>1. /\ at[running] = "in" /\ CallStep /\ running \in Thread
      /\ mutex_' = mutex_ /\ running' = running /\ saved' = saved /\ at' = at
  BY DEF Call, lockvars, Locks
<1>2. ~IsFree /\ mutex_.owner = running
  BY <1>1, WhoIsIn
<1>3. Settled(Registers)
  BY <1>1 DEF Locks, RegistersOf
<1>4. crashes' = crashes /\ Settled(Registers')
  BY <1>1, <1>3, CallSettles
<1>5. Run' = Run /\ ~IsFree'
  BY <1>1, <1>2, <1>4 DEF Run, IsFree
<1>6. Current = Registers /\ Current' = Registers'
  BY <1>1, <1>2, <1>5 DEF Current, RegistersOf
<1>7. \A t \in Thread : t # running => RegistersOf(t)' = RegistersOf(t)
  BY <1>1 DEF RegistersOf
<1>8. RegistersOf(running)' = Registers'
  BY <1>1 DEF RegistersOf
<1>9. \A t \in Thread : /\ at'[t] = "in" <=> mutex_' = [run |-> Run', owner |-> t]
                        /\ at'[t] # "in" => RegistersOf(t)' = NoRegisters
                        /\ Settled(RegistersOf(t)')
  <2>1. Settled(RegistersOf(running)')
    BY <1>4, <1>8
  <2> QED BY <1>1, <1>5, <1>7, <2>1 DEF Locks
<1>10. Locks'
  BY <1>1, <1>4, <1>5, <1>9 DEF Locks, Settled, NoRegisters, NoOp
<1> QED BY <1>6, <1>10

(* A death frees the mutex, though it stays locked in the pool. *)
LEMMA DieLocks ==
    ASSUME Locks, Die
    PROVE  Locks' /\ Current' = NoRegisters
<1>1. /\ crashes < MaxCrashes /\ crashes' = crashes + 1
      /\ pc' = "idle" /\ op' = NoOp /\ old' = Null
      /\ saved' = [t \in Thread |-> NoRegisters] /\ at' = [t \in Thread |-> "out"]
      /\ mutex_' = mutex_ /\ running' = running
  BY DEF Die, Restart
<1>2. crashes' \in 0..MaxCrashes /\ mutex_.run \in Nat /\ mutex_.run < Run' /\ running \in Thread
  <2>1. mutex_.run \in 0..MaxCrashes /\ mutex_.run <= crashes /\ crashes \in 0..MaxCrashes
    BY DEF Locks, Run
  <2> QED BY <1>1, <2>1, BoundsAssumption DEF Run, Locks
<1>3. mutex_'.run # Run'
  BY <1>1, <1>2 DEF Run, Locks
<1>4. Current' = NoRegisters
  <2>1. IsFree'
    BY <1>3 DEF IsFree
  <2> QED BY <2>1 DEF Current, NoRegisters, NoOp
<1>5. Registers' = NoRegisters
  BY <1>1 DEF Registers, NoRegisters
<1>6. \A t \in Thread : RegistersOf(t)' = NoRegisters
  BY <1>1, <1>5 DEF RegistersOf
<1>7. \A t \in Thread : mutex_' # [run |-> Run', owner |-> t]
  <2>1. \A t : [run |-> Run', owner |-> t].run = Run'
    BY DEF Run
  <2> QED BY <1>3, <2>1
<1>8. mutex_'.run <= Run'
  BY <1>1, <1>2 DEF Run, Locks
<1>9. /\ mutex_' \in [run : 0..MaxCrashes, owner : Thread \union {NoThread}]
      /\ at' \in [Thread -> {"out", "waiting", "in"}]
      /\ \A t \in Thread : at'[t] # "in"
      /\ DOMAIN saved' = Thread /\ saved' = [t \in Thread |-> saved'[t]]
      /\ saved'[running'] = NoRegisters
  BY <1>1, <1>2 DEF Locks
<1>10. Locks'
  BY <1>1, <1>2, <1>6, <1>7, <1>8, <1>9, NothingHeld DEF Locks, Settled, NoRegisters, NoOp
<1> QED BY <1>4, <1>10

-----------------------------------------------------------------------------
(***************************************************************************)
(* The steps of the threads are those of one process.                      *)
(***************************************************************************)

(* The operations on an array do not depend on the registers. *)
LEMMA SameOperations ==
    /\ \A a : Alone!Scan(a) = Scan(a)
    /\ \A a : Alone!CheckHolds(a) <=> CheckHolds(a)
    /\ \A a : Alone!Checked(a) = Checked(a)
    /\ \A a, n : Alone!CopyFits(a, n) <=> CopyFits(a, n)
    /\ \A a, n : Alone!CopyArray(a, n) = CopyArray(a, n)
    /\ \A a, e : Alone!WithElement(a, e) = WithElement(a, e)
    /\ \A a : Alone!WithCount(a) = WithCount(a)
    /\ \A n : Alone!NewArray(n) = NewArray(n)
    /\ \A a : Alone!GrownSize(a) = GrownSize(a)
    /\ Alone!Pushes = Pushes /\ Alone!NoOp = NoOp
    /\ Alone!Array = Array /\ Alone!Content = Content
<1>1. \A a : Alone!Scan(a) = Scan(a)
  BY DEF Alone!Scan, Scan, Alone!IsScanOf, IsScanOf
<1>2. \A a : Alone!CheckHolds(a) <=> CheckHolds(a)
  BY <1>1 DEF Alone!CheckHolds, CheckHolds
<1>3. \A a : Alone!Checked(a) = Checked(a)
  BY <1>1 DEF Alone!Checked, Checked
<1>4. \A a, n : (Alone!CopyFits(a, n) <=> CopyFits(a, n))
                /\ Alone!CopyArray(a, n) = CopyArray(a, n)
  BY <1>1 DEF Alone!CopyFits, CopyFits, Alone!CopyArray, CopyArray
<1>5. \A a, e : Alone!WithElement(a, e) = WithElement(a, e)
  BY DEF Alone!WithElement, WithElement
<1>6. \A a : Alone!WithCount(a) = WithCount(a)
  BY DEF Alone!WithCount, WithCount
<1>7. \A n : Alone!NewArray(n) = NewArray(n)
  BY DEF Alone!NewArray, NewArray
<1>8. \A a : Alone!GrownSize(a) = GrownSize(a)
  BY <1>1 DEF Alone!GrownSize, GrownSize
<1>9. Alone!Pushes = Pushes /\ Alone!NoOp = NoOp /\ Alone!Array = Array
  BY DEF Alone!Pushes, Pushes, Alone!NoOp, NoOp, Alone!Array, Array
<1>10. Alone!Content = Content
  BY <1>1, <1>9 DEF Alone!Content, Content
<1> QED BY <1>1, <1>2, <1>3, <1>4, <1>5, <1>6, <1>7, <1>8, <1>9, <1>10

(* With the registers of the thread that is in, a step of its call is the  *)
(* step of the same call by a process that is alone.                       *)
LEMMA CallRefines ==
    ASSUME CallStep, Current = Registers, Current' = Registers'
    PROVE  Alone!CallStep
<1>1. /\ Current.pc = pc /\ Current.op = op /\ Current.old = old
      /\ Current'.pc = pc' /\ Current'.op = op' /\ Current'.old = old'
  BY DEF Registers
<1> USE SameOperations
<1>2. \A r : Finish(r) => Alone!Finish(r)
  BY <1>1 DEF Finish, Alone!Finish
<1>3. ASSUME NEW name \in Pushes, NEW e \in Elem, PushBack(name, e) PROVE Alone!CallStep
  <2>1. Alone!PushBack(name, e)
    BY <1>1, <1>3 DEF PushBack, Alone!PushBack
  <2> QED BY <2>1 DEF Alone!CallStep
<1>4. ASSUME NEW n \in ResizeSizes, Resize(n) PROVE Alone!CallStep
  <2>1. Alone!Resize(n)
    BY <1>1, <1>4 DEF Resize, Alone!Resize
  <2> QED BY <2>1 DEF Alone!CallStep
<1>5. CASE Reserve
  <2>1. Alone!Reserve
    BY <1>1, <1>2, <1>5 DEF Reserve, Alone!Reserve
  <2> QED BY <2>1 DEF Alone!CallStep
<1>6. CASE ReserveFails
  <2>1. Alone!ReserveFails
    BY <1>1, <1>2, <1>6 DEF ReserveFails, Alone!ReserveFails
  <2> QED BY <2>1 DEF Alone!CallStep
<1>7. CASE CheckSize
  <2>1. Alone!CheckSize
    BY <1>1, <1>2, <1>7 DEF CheckSize, Alone!CheckSize
  <2> QED BY <2>1 DEF Alone!CallStep
<1>8. CASE Replace
  <2>1. Alone!Replace
    BY <1>1, <1>8 DEF Replace, Alone!Replace
  <2> QED BY <2>1 DEF Alone!CallStep
<1>9. CASE ReplaceRejected
  <2>1. Alone!ReplaceRejected
    BY <1>1, <1>2, <1>9 DEF ReplaceRejected, Alone!ReplaceRejected
  <2> QED BY <2>1 DEF Alone!CallStep
<1>10. CASE ReplaceFails
  <2>1. Alone!ReplaceFails
    BY <1>1, <1>2, <1>10 DEF ReplaceFails, Alone!ReplaceFails
  <2> QED BY <2>1 DEF Alone!CallStep
<1>11. CASE Release
  <2>1. Alone!Release
    BY <1>1, <1>2, <1>11 DEF Release, Alone!Release, FreedByReplace, Alone!FreedByReplace
  <2> QED BY <2>1 DEF Alone!CallStep
<1>12. CASE StoreElement
  <2>1. Alone!StoreElement
    BY <1>1, <1>2, <1>12 DEF StoreElement, Alone!StoreElement
  <2> QED BY <2>1 DEF Alone!CallStep
<1>13. CASE ElementFails
  <2>1. Alone!ElementFails
    BY <1>1, <1>2, <1>13 DEF ElementFails, Alone!ElementFails
  <2> QED BY <2>1 DEF Alone!CallStep
<1>14. CASE UpdateNelem
  <2>1. Alone!UpdateNelem
    BY <1>1, <1>2, <1>14 DEF UpdateNelem, Alone!UpdateNelem
  <2> QED BY <2>1 DEF Alone!CallStep
<1>15. CASE Size
  <2>1. Alone!Size
    BY <1>1, <1>15 DEF Size, Alone!Size
  <2> QED BY <2>1 DEF Alone!CallStep
<1>16. CASE Free
  <2>1. Alone!Free
    BY <1>1, <1>16 DEF Free, Alone!Free
  <2> QED BY <2>1 DEF Alone!CallStep
<1> QED BY <1>3, <1>4, <1>5, <1>6, <1>7, <1>8, <1>9, <1>10, <1>11, <1>12, <1>13,
           <1>14, <1>15, <1>16 DEF CallStep

(* Every step keeps the locks in order, and is for the vector a step of    *)
(* one process or none.                                                    *)
LEMMA LockStep ==
    ASSUME Locks, [LockNext]_allvars
    PROVE  Locks' /\ [Alone!Next]_(Alone!vars)
<1>1. ASSUME Locks', Current' = Current, UNCHANGED Shared
      PROVE  Locks' /\ [Alone!Next]_(Alone!vars)
  BY <1>1 DEF Shared, Alone!vars
<1>2. ASSUME NEW t \in Thread, Switch(t) PROVE Locks' /\ [Alone!Next]_(Alone!vars)
  BY <1>1, <1>2, SwitchLocks
<1>3. CASE Request
  BY <1>1, <1>3, RequestLocks
<1>4. CASE lock
  BY <1>1, <1>4, lockLocks
<1>5. CASE unlock
  BY <1>1, <1>5, unlockLocks
<1>6. CASE Call
  <2>1. Locks' /\ Current = Registers /\ Current' = Registers'
    BY <1>6, CallLocks
  <2>2. Alone!CallStep
    BY <1>6, <2>1, CallRefines DEF Call
  <2> QED BY <2>1, <2>2 DEF Alone!Next
<1>7. CASE Die
  <2>1. Locks' /\ Current' = NoRegisters
    BY <1>7, DieLocks
  <2>2. Current'.pc = "idle" /\ Current'.op = Alone!NoOp /\ Current'.old = Null
    BY <2>1, SameOperations DEF NoRegisters
  <2>3. Alone!Restart
    BY <1>7, <2>2 DEF Die, Restart, Alone!Restart
  <2> QED BY <2>1, <2>3 DEF Alone!Next
<1>8. CASE UNCHANGED allvars
  <2>1. /\ UNCHANGED Shared /\ UNCHANGED <<vars, running, saved>>
        /\ mutex_' = mutex_ /\ at' = at /\ crashes' = crashes
    BY <1>8 DEF allvars, lockvars, vars, Shared
  <2>2. \A t : RegistersOf(t)' = RegistersOf(t)
    BY <2>1, StillRegisters
  <2>3. Current' = Current
    <3>1. PICK o : o = mutex_.owner
      OBVIOUS
    <3>2. Current = IF IsFree THEN NoRegisters ELSE RegistersOf(o)
      BY <3>1 DEF Current
    <3>3. Current' = IF IsFree THEN NoRegisters ELSE RegistersOf(o)'
      BY <2>1, <3>1 DEF Current, IsFree, Run, NoRegisters, RegistersOf
    <3> QED BY <2>2, <3>2, <3>3
  <2>4. Locks'
    BY <2>1, <2>2 DEF Locks, Run, Settled, NoRegisters, NoOp
  <2> QED BY <1>1, <2>1, <2>3, <2>4
<1> QED BY <1>2, <1>3, <1>4, <1>5, <1>6, <1>7, <1>8 DEF LockNext

(* The invariant holds in every state. *)
THEOREM LocksInvariant == LockSpec => []Locks
<1>1. LockInit => Locks
  BY LocksInit
<1>2. Locks /\ [LockNext]_allvars => Locks'
  BY LockStep
<1> QED BY <1>1, <1>2, PTL DEF LockSpec

(* Whatever the switches between threads that lock the mutex around their  *)
(* calls, and the deaths of the process, what happens to the vector could  *)
(* have been done by one process.                                          *)
THEOREM LockedRefinement == LockSpec => ImplementsPersistentVector
<1>1. LockInit => Alone!Init
  <2>1. SUFFICES ASSUME LockInit PROVE Alone!Init
    OBVIOUS
  <2>2. IsFree
    BY <2>1 DEF LockInit, IsFree
  <2>3. Current.pc = "idle" /\ Current.op = Alone!NoOp /\ Current.old = Null
    BY <2>2, SameOperations DEF Current, NoRegisters
  <2> QED BY <2>1, <2>3, SameOperations DEF LockInit, Init, Alone!Init
<1>2. Locks /\ [LockNext]_allvars => [Alone!Next]_(Alone!vars)
  BY LockStep
<1> QED BY <1>1, <1>2, LocksInvariant, PTL
        DEF LockSpec, Alone!Spec, ImplementsPersistentVector

-----------------------------------------------------------------------------
(***************************************************************************)
(* What is proved of the vector holds under the mutex.                     *)
(***************************************************************************)

(* The assumptions on the constants, for the instance. *)
LEMMA BlocksAreFinite == AloneProofs!IsFiniteSet(Block)
BY BlockAssumption DEF IsFiniteSet, AloneProofs!IsFiniteSet

(* The vector that LockedVector instantiates is the one of the proofs. *)
LEMMA SameVector == ImplementsPersistentVector => AloneProofs!Spec
<1>1. Alone!Init => AloneProofs!Init
  BY DEF Alone!Init, AloneProofs!Init, Alone!NoOp, AloneProofs!NoOp,
         Alone!NewArray, AloneProofs!NewArray
<1>2. Alone!Next <=> AloneProofs!Next
  BY DEF AloneProofs!Next, Alone!Next, AloneProofs!CallStep, Alone!CallStep,
         AloneProofs!PushBack, Alone!PushBack, AloneProofs!Resize, Alone!Resize,
         AloneProofs!Reserve, Alone!Reserve, AloneProofs!ReserveFails, Alone!ReserveFails,
         AloneProofs!CheckSize, Alone!CheckSize, AloneProofs!Replace, Alone!Replace,
         AloneProofs!ReplaceRejected, Alone!ReplaceRejected,
         AloneProofs!ReplaceFails, Alone!ReplaceFails, AloneProofs!Release, Alone!Release,
         AloneProofs!StoreElement, Alone!StoreElement,
         AloneProofs!ElementFails, Alone!ElementFails,
         AloneProofs!UpdateNelem, Alone!UpdateNelem, AloneProofs!Size, Alone!Size,
         AloneProofs!Free, Alone!Free, AloneProofs!Restart, Alone!Restart,
         AloneProofs!Finish, Alone!Finish, AloneProofs!Pushes, Alone!Pushes,
         AloneProofs!NoOp, Alone!NoOp, AloneProofs!Array, Alone!Array,
         AloneProofs!Content, Alone!Content, AloneProofs!Scan, Alone!Scan,
         AloneProofs!IsScanOf, Alone!IsScanOf, AloneProofs!CheckHolds, Alone!CheckHolds,
         AloneProofs!Checked, Alone!Checked, AloneProofs!CopyFits, Alone!CopyFits,
         AloneProofs!CopyArray, Alone!CopyArray, AloneProofs!WithElement, Alone!WithElement,
         AloneProofs!WithCount, Alone!WithCount, AloneProofs!NewArray, Alone!NewArray,
         AloneProofs!GrownSize, Alone!GrownSize,
         AloneProofs!FreedByReplace, Alone!FreedByReplace
<1>3. [Alone!Next]_(Alone!vars) => [AloneProofs!Next]_(AloneProofs!vars)
  BY <1>2 DEF Alone!vars, AloneProofs!vars
<1> QED BY <1>1, <1>3, PTL DEF ImplementsPersistentVector, Alone!Spec, AloneProofs!Spec

(* The vector is well typed under the owner of the mutex. *)
LEMMA SharedTypes == LockSpec => []AloneProofs!TypeOK
<1>1. AloneProofs!Spec => []AloneProofs!TypeOK
  BY AloneProofs!TypeCorrect, BlocksAreFinite,
     NullAssumption, SizesAssumption, BoundsAssumption, BlockAssumption
<1> QED BY <1>1, LockedRefinement, SameVector, PTL

(* No two threads are in at once, nobody is within a call without the      *)
(* mutex, and a mutex that a dead process left locked is nobody's.         *)
THEOREM LockTypes == LockSpec => []LockTypeOK
<1>1. ASSUME Locks, AloneProofs!TypeOK PROVE LockTypeOK
  <2> DEFINE Pcs == {"idle", "reserve", "size", "grow", "release", "store", "count"}
             Ops == [name : Pushes \union {"none", "resize"},
                     elem : Elem \union {Null}, size : Nat]
             Olds == Block \union {Null}
  <2>1. /\ vec \in Block \union {Null} /\ DOMAIN heap = Block
        /\ \A b \in Block : IsArray(heap[b])
        /\ used \in SUBSET Block
        /\ reply \in {"none", "ok"} \union Errors
        /\ acked \in SUBSET (Nat \X Elem) /\ crashes \in 0..MaxCrashes
        /\ Current.pc \in Pcs /\ Current.op \in Ops /\ Current.old \in Olds
    BY <1>1 DEF AloneProofs!TypeOK, AloneProofs!IsArray, IsArray, AloneProofs!Errors, Errors,
                AloneProofs!Pushes, Pushes
  <2>2. NoRegisters.pc \in Pcs /\ NoRegisters.op \in Ops /\ NoRegisters.old \in Olds
    BY DEF NoRegisters, NoOp
  <2> HIDE DEF Pcs, Ops, Olds
  <2>3. ASSUME NEW t \in Thread
        PROVE  /\ RegistersOf(t).pc \in Pcs
               /\ RegistersOf(t).op \in Ops
               /\ RegistersOf(t).old \in Olds
    <3>1. CASE at[t] = "in"
      <4>1. Current = RegistersOf(t)
        BY <1>1, <3>1, WhoIsIn
      <4> QED BY <2>1, <4>1
    <3>2. CASE at[t] # "in"
      <4>1. RegistersOf(t) = NoRegisters
        BY <1>1, <3>2 DEF Locks
      <4> QED BY <2>2, <4>1
    <3> QED BY <3>1, <3>2
  <2>4. pc \in Pcs /\ op \in Ops /\ old \in Olds
    <3>1. running \in Thread /\ RegistersOf(running) = Registers
      BY <1>1 DEF Locks, RegistersOf
    <3>2. Registers.pc = pc /\ Registers.op = op /\ Registers.old = old
      BY DEF Registers
    <3> QED BY <2>3, <3>1, <3>2
  <2>5. \A t \in Thread : saved[t] \in [pc : Pcs, op : Ops, old : Olds]
    <3>1. \A t \in Thread : t # running => saved[t] = RegistersOf(t) /\ Settled(saved[t])
      BY <1>1 DEF Locks, RegistersOf
    <3>2. Settled(NoRegisters) /\ saved[running] = NoRegisters
      BY <1>1, NothingHeld DEF Locks
    <3>3. ASSUME NEW r, Settled(r), r.pc \in Pcs, r.op \in Ops, r.old \in Olds
          PROVE  r \in [pc : Pcs, op : Ops, old : Olds]
      BY <3>3 DEF Settled
    <3> QED BY <2>2, <2>3, <3>1, <3>2, <3>3
  <2>6. saved \in [Thread -> [pc : Pcs, op : Ops, old : Olds]]
    BY <1>1, <2>5 DEF Locks
  <2>7. TypeOK
    BY <2>1, <2>4 DEF TypeOK, Pcs, Ops, Olds
  <2> QED BY <1>1, <2>6, <2>7 DEF LockTypeOK, Locks, Pcs, Ops, Olds
<1> QED BY <1>1, LocksInvariant, SharedTypes, PTL

(* An element whose push_back returned to any of the threads stays in its  *)
(* slot, whatever the others do.                                           *)
THEOREM LockedElementsKept == LockSpec => []AckedElementsKept
<1>1. AloneProofs!Spec => []AloneProofs!AckedElementsKept
  BY AloneProofs!AckedElementsAreKept, BlocksAreFinite,
     NullAssumption, SizesAssumption, BoundsAssumption, BlockAssumption
<1>2. AloneProofs!AckedElementsKept => AckedElementsKept
  BY DEF AloneProofs!AckedElementsKept, AckedElementsKept, AloneProofs!Array, Array,
         AloneProofs!Scan, Scan, AloneProofs!IsScanOf, IsScanOf
<1> QED BY <1>1, <1>2, LockedRefinement, SameVector, PTL
=============================================================================
