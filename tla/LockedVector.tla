---------------------------- MODULE LockedVector ----------------------------
(***************************************************************************)
(* Threads that share a PersistentVector, each holding a PersistentMutex   *)
(* of the same pool by an eckit::AutoLock while it uses the vector: the    *)
(* library leaves locking to the program, and provides this mutex for it.  *)
(*                                                                         *)
(* pc, op and old of PersistentVector are the registers of the thread that *)
(* is running; those of the others are saved, and a switch of threads is   *)
(* possible before every step.                                             *)
(***************************************************************************)
EXTENDS PersistentVector

CONSTANTS Thread,
          NoThread  \* the owner of a mutex that nobody holds

ASSUME ThreadAssumption == NoThread \notin Thread

VARIABLES mutex_,   \* PMEMmutex: the run of the pool it was last used in, its owner
          running,  \* the thread that is running
          saved,    \* the registers of the others
          at        \* where each thread is: out of the AutoLock, waiting, or in

lockvars == <<mutex_, running, saved, at>>
allvars == <<vars, lockvars>>

-----------------------------------------------------------------------------
Registers == [pc |-> pc, op |-> op, old |-> old]
NoRegisters == [pc |-> "idle", op |-> NoOp, old |-> Null]

RegistersOf(t) == IF t = running THEN Registers ELSE saved[t]

(* libpmemobj counts the times the pool was opened; here, the deaths.      *)
Run == crashes

LockInit == /\ Init
            /\ mutex_ = [run |-> Run, owner |-> NoThread]
            /\ running \in Thread
            /\ saved = [t \in Thread |-> NoRegisters]
            /\ at = [t \in Thread |-> "out"]

Switch(t) ==
    /\ t # running
    /\ running' = t
    /\ saved' = [saved EXCEPT ![running] = Registers, ![t] = NoRegisters]
    /\ pc' = saved[t].pc /\ op' = saved[t].op /\ old' = saved[t].old
    /\ UNCHANGED <<vec, heap, used, reply, acked, crashes, mutex_, at>>

(* Slips: a mutex that nobody has initialised in this run, or that is      *)
(* held, is treated like any other.                                        *)
IsFreeAsStored == mutex_.owner = NoThread
IsFreeAlways == TRUE

(* No initialisation is required of the program: a mutex of an earlier run *)
(* of the pool is initialised by the first lock, and is free.              *)
IsFree == mutex_.run # Run \/ mutex_.owner = NoThread

(* lock(), from the constructor of AutoLock. *)
Request ==
    /\ at[running] = "out"
    /\ at' = [at EXCEPT ![running] = "waiting"]
    /\ UNCHANGED <<vars, mutex_, running, saved>>
lock ==
    /\ at[running] = "waiting"
    /\ IsFree
    /\ mutex_' = [run |-> Run, owner |-> running]
    /\ at' = [at EXCEPT ![running] = "in"]
    /\ UNCHANGED <<vars, running, saved>>

(* unlock(), from the destructor of AutoLock, whether the calls returned   *)
(* or threw.                                                               *)
unlock ==
    /\ at[running] = "in" /\ pc = "idle"
    /\ mutex_' = [mutex_ EXCEPT !.owner = NoThread]
    /\ at' = [at EXCEPT ![running] = "out"]
    /\ UNCHANGED <<vars, running, saved>>

(* Slip: size() is const, and is called without the mutex. *)
CallSizeUnlocked ==
    /\ CallStep
    /\ at[running] # "in" => Size
    /\ UNCHANGED lockvars

(* A step of a call of the vector. *)
Call ==
    /\ at[running] = "in"
    /\ CallStep
    /\ UNCHANGED lockvars

(* All threads die; the mutex stays in the pool as it is. *)
Die ==
    /\ Restart
    /\ saved' = [t \in Thread |-> NoRegisters]
    /\ at' = [t \in Thread |-> "out"]
    /\ UNCHANGED <<mutex_, running>>

LockNext == \/ \E t \in Thread : Switch(t)
            \/ Request \/ lock \/ unlock
            \/ Call
            \/ Die

(* Every thread is scheduled, again and again, for long enough to take a   *)
(* step; a call that was begun goes on, and a thread that is in leaves.    *)
(* Which of the threads that wait gets a free mutex is left open.          *)
Fairness == /\ \A t \in Thread : /\ WF_allvars(Switch(t))
                                 /\ SF_allvars(running = t /\ pc # "idle" /\ Call)
                                 /\ SF_allvars(running = t /\ unlock)
            /\ SF_allvars(lock)

LockSpec == LockInit /\ [][LockNext]_allvars /\ Fairness

-----------------------------------------------------------------------------
(***************************************************************************)
(* Properties.                                                             *)
(***************************************************************************)
(* The type invariant: the vector of the thread that runs is well typed,   *)
(* and a thread is in if and only if it owns the mutex in this run of the  *)
(* pool, so that two threads are never in at once (PersistentMutex.h).     *)
LockTypeOK ==
    /\ TypeOK
    /\ mutex_ \in [run : 0..MaxCrashes, owner : Thread \union {NoThread}]
    /\ mutex_.run <= Run
    /\ running \in Thread
    /\ saved \in [Thread -> [pc : {"idle", "reserve", "size", "grow", "release",
                                   "store", "count"},
                             op : [name : Pushes \union {"none", "resize"},
                                   elem : Elem \union {Null}, size : Nat],
                             old : Block \union {Null}]]
    /\ saved[running] = NoRegisters
    /\ at \in [Thread -> {"out", "waiting", "in"}]
    /\ \A t \in Thread : /\ at[t] = "in" <=> mutex_ = [run |-> Run, owner |-> t]
                         /\ at[t] # "in" => RegistersOf(t) = NoRegisters

(* Threads that lock the mutex around their calls see the vector as one    *)
(* process alone does: whatever the switches, the calls take their steps   *)
(* one call after the other, and a death between any two of them is one    *)
(* that PersistentVector can repair.  size() and full() store the count    *)
(* too, so this holds of readers only if they lock as well.                *)
Current == IF IsFree THEN NoRegisters ELSE RegistersOf(mutex_.owner)
Alone == INSTANCE PersistentVector WITH
             pc <- Current.pc, op <- Current.op, old <- Current.old
ImplementsPersistentVector == Alone!Spec

(* When a thread waits for the mutex, some thread gets it or all die: a    *)
(* mutex that a dead process left locked does not stop the next process.   *)
SomeThreadGetsIn ==
    \A c \in 0..MaxCrashes :
        (Run = c /\ \E t \in Thread : at[t] = "waiting")
            ~> (Run # c \/ \E t \in Thread : at[t] = "in")
=============================================================================
