-------------------------------- MODULE Mutex --------------------------------
(***************************************************************************)
(* The kernel's mutex with the default attribute (thread_mutex_lock.c,     *)
(* thread_mutex_unlock.c) over try_lock and unlock of utils.S, instruction  *)
(* by instruction where it matters: between a load-exclusive and its store  *)
(* an exception makes the store fail.                                      *)
(***************************************************************************)
EXTENDS Naturals, FiniteSets

CONSTANTS
  Tasks,
  MaxTicks,   \* bound: exceptions that hit an exclusive pair
  MaxLost     \* bound: exceptions that hit the pair of an unlock

Nobody == "NULL"

ASSUME MutexAssumption == Nobody \notin Tasks /\ MaxTicks \in Nat /\ MaxLost \in Nat

VARIABLES
  lock, owner,      \* the words __lock and __owner
  mpc,              \* where each task is in lock and unlock
  reserved,         \* whose exclusive reservation the monitor holds
  ticks, lost       \* exceptions so far

mutex == <<lock, owner>>
monitor == <<reserved, ticks, lost>>
mutexVars == <<lock, owner, mpc, reserved, ticks, lost>>

\* Only an exception can take the CPU away inside an exclusive pair.
At(t, here, there) ==
  /\ reserved \in {Nobody, t}
  /\ mpc[t] = here /\ mpc' = [mpc EXCEPT ![t] = there]

MutexInit ==
  /\ lock = 0 /\ owner = Nobody
  /\ mpc = [t \in Tasks |-> "out"]
  /\ reserved = Nobody /\ ticks = 0 /\ lost = 0

\* ldaxr of try_lock.
LoadLock(t) ==
  /\ At(t, "try", IF lock = 0 THEN "store" ELSE "failed")
  /\ reserved' = IF lock = 0 THEN t ELSE Nobody
  /\ UNCHANGED <<mutex, ticks, lost>>

StoreSucceeds_Always(t) == TRUE
StoreSucceeds(t) == reserved = t

\* stxr of try_lock.
StoreLock(t) ==
  /\ At(t, "store", IF StoreSucceeds(t) THEN "owner" ELSE "failed")
  /\ lock' = IF StoreSucceeds(t) THEN 1 ELSE lock
  /\ reserved' = Nobody
  /\ UNCHANGED <<owner, ticks, lost>>

\* Not acquired: schedule(), then try again.
TryAgain(t) ==
  /\ At(t, "failed", "try")
  /\ UNCHANGED <<mutex, monitor>>

SetOwner(t) ==
  /\ At(t, "owner", "in")
  /\ owner' = t
  /\ UNCHANGED <<lock, monitor>>

\* ldxr of unlock; on a free lock the call returns an error.
LoadUnlock(t) ==
  /\ At(t, "unlock", IF lock = 0 THEN "out" ELSE "release")
  /\ reserved' = IF lock = 0 THEN Nobody ELSE t
  /\ UNCHANGED <<mutex, ticks, lost>>

Released_Not == lock
Released == lock - 1

\* stlxr of unlock; nobody is ever queued on a mutex with the default attribute.
\* After a failure, "bl schedule" overwrites the return address and the address
\* of the lock: the caller never gets out of unlock.
StoreUnlock(t) ==
  /\ At(t, "release", IF reserved = t THEN "out" ELSE "lost")
  /\ lock' = IF reserved = t THEN Released ELSE lock
  /\ reserved' = Nobody
  /\ UNCHANGED <<owner, ticks, lost>>

\* An exception, which may or may not lead to another task.
Exception ==
  /\ reserved # Nobody
  /\ ticks < MaxTicks
  /\ mpc[reserved] = "release" => lost < MaxLost
  /\ lost' = IF mpc[reserved] = "release" THEN lost + 1 ELSE lost
  /\ reserved' = Nobody
  /\ ticks' = ticks + 1
  /\ UNCHANGED <<mutex, mpc>>

Locking(t) == LoadLock(t) \/ StoreLock(t) \/ TryAgain(t) \/ SetOwner(t)
Unlocking(t) == LoadUnlock(t) \/ StoreUnlock(t)

-----------------------------------------------------------------------------
(* Tasks that use the mutex, each again and again.                         *)

Want(t) == At(t, "out", "try") /\ UNCHANGED <<mutex, monitor>>
Leave(t) == At(t, "in", "unlock") /\ UNCHANGED <<mutex, monitor>>

MutexNext ==
  \/ Exception
  \/ \E t \in Tasks : Want(t) \/ Locking(t) \/ Leave(t) \/ Unlocking(t)

MutexSpec == MutexInit /\ [][MutexNext]_mutexVars

-----------------------------------------------------------------------------
Holding(t) == mpc[t] \in {"owner", "in", "unlock", "release"}

\* Every variable stays within its type.
MutexTypeOK ==
  /\ lock \in {0, 1}
  /\ owner \in Tasks \cup {Nobody}
  /\ mpc \in [Tasks -> {"out", "try", "store", "failed", "owner", "in", "unlock",
                        "release", "lost"}]
  /\ reserved \in Tasks \cup {Nobody}
  /\ ticks \in Nat /\ lost \in Nat

\* At most one task is between a successful try_lock and the end of its unlock,
\* whatever exceptions do to the exclusive stores.
MutualExclusion == \A t, u \in Tasks : Holding(t) /\ Holding(u) => t = u

\* The word is 1 exactly while a task holds the mutex, or for ever after one was
\* lost in unlock; inside the critical section __owner names the holder.
LockWord ==
  /\ lock = 1 <=> \E t \in Tasks : Holding(t) \/ mpc[t] = "lost"
  /\ \A t \in Tasks : mpc[t] \in {"in", "unlock", "release"} => owner = t

\* The mutex keeps its promise: one holder, and words that tell who it is.
MutexRight == MutualExclusion /\ LockWord
=============================================================================
