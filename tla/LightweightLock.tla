--------------------------- MODULE LightweightLock ---------------------------
(***************************************************************************)
(* leightweight_lock.c: a lock made of an atomic counter and a counting    *)
(* semaphore, which is touched only when users contend.  Each atomic       *)
(* operation and each semaphore call is one step.  Users release only a    *)
(* lock they hold; the counter, an int, is wide enough for all of them.    *)
(***************************************************************************)
EXTENDS Integers, FiniteSets

CONSTANTS User,       \* the tasks that share the lock
          MaxSignal   \* the semaphore's maximum count (UINT32_MAX)

ASSUME UserAssumption == IsFiniteSet(User)
ASSUME SignalAssumption == MaxSignal \in Nat \ {0}

VARIABLES count, signal,
          pc   \* pc[u]: "outside", "waiting" on the signal, "holding" the
               \* lock, or "giving" the signal after the counter went down

vars == <<count, signal, pc>>

Init ==
  /\ count = 0
  /\ signal = 0
  /\ pc = [u \in User |-> "outside"]

(* leightweight_lock__acquire: the counter goes up; the first one is in. *)
AcquireLock(u) ==
  /\ pc[u] = "outside"
  /\ count' = count + 1
  /\ pc' = [pc EXCEPT ![u] = IF count > 0 THEN "waiting" ELSE "holding"]
  /\ UNCHANGED signal

(* xSemaphoreTake: any waiting task may be the one that gets the signal. *)
TakeSignal(u) ==
  /\ pc[u] = "waiting"
  /\ signal > 0
  /\ signal' = signal - 1
  /\ pc' = [pc EXCEPT ![u] = "holding"]
  /\ UNCHANGED count

(* Mutant: > 2 instead of > 1, the comparison taken after the subtraction. *)
ReleaseLockTooFew(u) ==
  /\ pc[u] = "holding"
  /\ count' = count - 1
  /\ pc' = [pc EXCEPT ![u] = IF count > 2 THEN "giving" ELSE "outside"]
  /\ UNCHANGED signal

(* Mutant: the signal is given to nobody as well. *)
ReleaseLockAlwaysGives(u) ==
  /\ pc[u] = "holding"
  /\ count' = count - 1
  /\ pc' = [pc EXCEPT ![u] = "giving"]
  /\ UNCHANGED signal

(* leightweight_lock__release: the counter goes down; someone may wait. *)
ReleaseLock(u) ==
  /\ pc[u] = "holding"
  /\ count' = count - 1
  /\ pc' = [pc EXCEPT ![u] = IF count > 1 THEN "giving" ELSE "outside"]
  /\ UNCHANGED signal

(* Mutant: a release that found waiters takes itself off the count again. *)
GiveSignalAndUncount(u) ==
  /\ pc[u] = "giving"
  /\ signal' = signal + 1
  /\ pc' = [pc EXCEPT ![u] = "outside"]
  /\ count' = count - 1

(* xSemaphoreGive, which fails at the maximum count. *)
GiveSignal(u) ==
  /\ pc[u] = "giving"
  /\ signal' = IF signal < MaxSignal THEN signal + 1 ELSE signal
  /\ pc' = [pc EXCEPT ![u] = "outside"]
  /\ UNCHANGED count

Next ==
  \E u \in User : AcquireLock(u) \/ TakeSignal(u) \/ ReleaseLock(u) \/ GiveSignal(u)

Spec == Init /\ [][Next]_vars

(* A holder lets go after a while, and a task that can run runs. *)
FairSpec ==
  /\ Spec
  /\ \A u \in User : /\ WF_vars(TakeSignal(u))
                     /\ WF_vars(ReleaseLock(u))
                     /\ WF_vars(GiveSignal(u))

-----------------------------------------------------------------------------
(* Properties *)

Contending == { u \in User : pc[u] \in {"waiting", "holding"} }

(* The right to enter is a token: the holder has it, then the task about to *)
(* give the signal, then the signal, then the task that takes it.           *)
Bearers == { u \in User : pc[u] \in {"holding", "giving"} }

(* The counter stays within the number of tasks, the semaphore is binary    *)
(* although its maximum count is not.                                       *)
TypeOK ==
  /\ count \in 0..Cardinality(User)
  /\ signal \in {0, 1}
  /\ pc \in [User -> {"outside", "waiting", "holding", "giving"}]

(* The comments of acquire and release argue from the value the counter has  *)
(* at each call: it counts the holder and everyone who waits for it, also    *)
(* between a release and the signal it gives.                                *)
CountIsContenders == count = Cardinality(Contending)

(* Exactly one token while anybody contends, none otherwise: no two tasks    *)
(* are let in for one release, and no release is forgotten.                  *)
OneToken ==
  /\ count = 0 => signal = 0 /\ Bearers = {}
  /\ count > 0 => \/ signal = 1 /\ Bearers = {}
                  \/ signal = 0 /\ \E u \in User : Bearers = {u}

LockInv == TypeOK /\ CountIsContenders /\ OneToken

(* To its users the lock is a mutex, whoever is between two of its steps. *)
M == INSTANCE Mutex WITH holders <- { u \in User : pc[u] = "holding" }

ImplementsMutex == M!MutexSpec

(* "Releases the lock and unblocks potential users": whenever a task waits, *)
(* some task gets in.                                                       *)
NoLostWakeup == (\E u \in User : pc[u] = "waiting") ~> (\E u \in User : pc[u] = "holding")
=============================================================================
