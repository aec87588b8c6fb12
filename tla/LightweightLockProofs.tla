----------------------- MODULE LightweightLockProofs -----------------------
(* The lightweight lock is a mutex, for any finite number of tasks.  The    *)
(* inductive invariant is LockInv: the counter counts the contenders, and   *)
(* there is one token, passed from the holder through the signal to the     *)
(* next holder.                                                             *)
EXTENDS LightweightLock, FiniteSetTheorems, TLAPS

USE UserAssumption, SignalAssumption

(* The contenders are finitely many, and none only when nobody contends. *)
LEMMA ContendersFinite ==
  /\ IsFiniteSet(Contending)
  /\ Cardinality(Contending) \in Nat
  /\ Cardinality(Contending) = 0 <=> Contending = {}
<1>1. Contending \subseteq User
  BY DEF Contending
<1>2. IsFiniteSet(Contending)
  BY <1>1, FS_Subset
<1> QED
  BY <1>2, FS_CardinalityType, FS_EmptySet

(* Counter and signal are bounded by what the invariant says of them. *)
PcOK == pc \in [User -> {"outside", "waiting", "holding", "giving"}]

LEMMA BoundsFollow == PcOK /\ CountIsContenders /\ OneToken => TypeOK
<1> SUFFICES ASSUME PcOK, CountIsContenders, OneToken PROVE TypeOK
  OBVIOUS
<1>1. Contending \subseteq User
  BY DEF Contending
<1>2. Cardinality(Contending) <= Cardinality(User) /\ Cardinality(User) \in Nat
  BY <1>1, FS_Subset, FS_CardinalityType
<1>3. count \in 0..Cardinality(User)
  BY <1>2, ContendersFinite DEF CountIsContenders
<1>4. signal \in {0, 1}
  BY <1>3 DEF OneToken
<1> QED
  BY <1>3, <1>4 DEF TypeOK, PcOK

LEMMA InitLockInv == Init => LockInv
<1> SUFFICES ASSUME Init PROVE LockInv
  OBVIOUS
<1>1. Contending = {} /\ Bearers = {}
  BY DEF Init, Contending, Bearers
<1>2. Cardinality(Contending) = 0
  BY <1>1, FS_EmptySet
<1>3. PcOK /\ CountIsContenders /\ OneToken
  BY <1>1, <1>2 DEF Init, PcOK, CountIsContenders, OneToken
<1> QED
  BY <1>3, BoundsFollow DEF LockInv

(* A task that enters adds one contender; it gets in at once only when there *)
(* was none, and then it makes the token.                                    *)
LEMMA AcquireKeepsLockInv ==
  ASSUME NEW u \in User, LockInv, AcquireLock(u)
  PROVE  LockInv'
<1> USE DEF LockInv
<1>1. PcOK'
  BY DEF TypeOK, PcOK, AcquireLock
<1>2. u \notin Contending /\ Contending' = Contending \cup {u}
  BY DEF Contending, AcquireLock, TypeOK
<1>3. CountIsContenders'
  <2>1. Cardinality(Contending \cup {u}) = Cardinality(Contending) + 1
    BY <1>2, ContendersFinite, FS_AddElement
  <2> QED
    BY <1>2, <2>1 DEF CountIsContenders, AcquireLock
<1>4. OneToken'
  <2>1. CASE count = 0
    <3>1. Bearers = {} /\ signal = 0
      BY <2>1 DEF OneToken
    <3>2. Bearers' = {u}
      BY <2>1, <3>1 DEF Bearers, AcquireLock, TypeOK
    <3> QED
      BY <2>1, <3>1, <3>2 DEF OneToken, AcquireLock
  <2>2. CASE count > 0
    <3>1. Bearers' = Bearers
      BY <2>2 DEF Bearers, AcquireLock, TypeOK
    <3> QED
      BY <2>2, <3>1 DEF OneToken, AcquireLock, TypeOK
  <2> QED
    BY <2>1, <2>2 DEF TypeOK
<1>5. TypeOK'
  BY <1>1, <1>3, <1>4, BoundsFollow, PTL
<1> QED
  BY <1>3, <1>4, <1>5

(* The signal's token passes to the task that takes it. *)
LEMMA TakeKeepsLockInv ==
  ASSUME NEW u \in User, LockInv, TakeSignal(u)
  PROVE  LockInv'
<1> USE DEF LockInv
<1>1. PcOK'
  BY DEF TypeOK, PcOK, TakeSignal
<1>2. Contending' = Contending
  BY DEF Contending, TakeSignal, TypeOK
<1>3. CountIsContenders'
  BY <1>2 DEF CountIsContenders, TakeSignal
<1>4. OneToken'
  <2>1. signal = 1 /\ Bearers = {} /\ count > 0
    BY DEF OneToken, TakeSignal, TypeOK
  <2>2. Bearers' = {u}
    BY <2>1 DEF Bearers, TakeSignal, TypeOK
  <2> QED
    BY <2>1, <2>2 DEF OneToken, TakeSignal
<1>5. TypeOK'
  BY <1>1, <1>3, <1>4, BoundsFollow, PTL
<1> QED
  BY <1>3, <1>4, <1>5

(* The holder leaves: the last contender drops the token, any other keeps it *)
(* until the signal is given.                                                *)
LEMMA ReleaseKeepsLockInv ==
  ASSUME NEW u \in User, LockInv, ReleaseLock(u)
  PROVE  LockInv'
<1> USE DEF LockInv
<1>1. u \in Contending /\ Contending' = Contending \ {u}
  BY DEF Contending, ReleaseLock, TypeOK
<1>2. Cardinality(Contending \ {u}) = Cardinality(Contending) - 1
  BY <1>1, ContendersFinite, FS_RemoveElement
<1>3. count > 0
  BY <1>1, ContendersFinite DEF CountIsContenders
<1>4. PcOK'
  BY DEF TypeOK, PcOK, ReleaseLock
<1>5. CountIsContenders'
  BY <1>1, <1>2 DEF CountIsContenders, ReleaseLock
<1>6. OneToken'
  <2>1. u \in Bearers
    BY DEF Bearers, ReleaseLock
  <2>2. signal = 0 /\ Bearers = {u}
    BY <1>3, <2>1 DEF OneToken
  <2>3. CASE count > 1
    <3>1. Bearers' = {u}
      BY <2>2, <2>3 DEF Bearers, ReleaseLock, TypeOK
    <3> QED
      BY <2>2, <2>3, <3>1 DEF OneToken, ReleaseLock, TypeOK
  <2>4. CASE count = 1
    <3>1. Bearers' = {}
      BY <2>2, <2>4 DEF Bearers, ReleaseLock, TypeOK
    <3> QED
      BY <2>2, <2>4, <3>1 DEF OneToken, ReleaseLock, TypeOK
  <2> QED
    BY <1>3, <2>3, <2>4 DEF TypeOK
<1>7. TypeOK'
  BY <1>4, <1>5, <1>6, BoundsFollow, PTL
<1> QED
  BY <1>5, <1>6, <1>7

(* The token passes to the signal, which the maximum count never refuses. *)
LEMMA GiveKeepsLockInv ==
  ASSUME NEW u \in User, LockInv, GiveSignal(u)
  PROVE  LockInv'
<1> USE DEF LockInv
<1>1. u \in Bearers
  BY DEF Bearers, GiveSignal
<1>2. signal = 0 /\ Bearers = {u} /\ count > 0
  BY <1>1 DEF OneToken, TypeOK
<1>3. PcOK'
  BY DEF TypeOK, PcOK, GiveSignal
<1>4. Contending' = Contending
  BY DEF Contending, GiveSignal, TypeOK
<1>5. CountIsContenders'
  BY <1>4 DEF CountIsContenders, GiveSignal
<1>6. Bearers' = {}
  BY <1>2 DEF Bearers, GiveSignal, TypeOK
<1>7. signal' = 1
  BY <1>2 DEF GiveSignal
<1>8. OneToken'
  BY <1>2, <1>6, <1>7 DEF OneToken, GiveSignal
<1>9. TypeOK'
  BY <1>3, <1>5, <1>8, BoundsFollow, PTL
<1> QED
  BY <1>5, <1>8, <1>9

LEMMA NextKeepsLockInv == LockInv /\ [Next]_vars => LockInv'
<1> SUFFICES ASSUME LockInv, [Next]_vars PROVE LockInv'
  OBVIOUS
<1>1. CASE Next
  BY <1>1, AcquireKeepsLockInv, TakeKeepsLockInv, ReleaseKeepsLockInv,
     GiveKeepsLockInv DEF Next
<1>2. CASE UNCHANGED vars
  BY <1>2 DEF vars, LockInv, TypeOK, CountIsContenders, OneToken, Contending,
     Bearers
<1> QED
  BY <1>1, <1>2

(* Counter, signal and program counters stay coherent in every run of the    *)
(* lock: the strengthening under which acquire and release are correct.      *)
THEOREM LockInvariant == Spec => []LockInv
<1> QED
  BY InitLockInv, NextKeepsLockInv, PTL DEF Spec

(* The counter counts the holder and the tasks waiting for it, as the        *)
(* comments of leightweight_lock__acquire and release argue.                 *)
COROLLARY CountIsContendersAlways == Spec => []CountIsContenders
<1>1. LockInv => CountIsContenders
  BY DEF LockInv
<1> QED
  BY <1>1, LockInvariant, PTL

(* The counter of the lock never exceeds the number of tasks and never goes  *)
(* below zero, and its semaphore is 0 or 1, for any number of tasks.         *)
COROLLARY LockTypeCorrect == Spec => []TypeOK
<1>1. LockInv => TypeOK
  BY DEF LockInv
<1> QED
  BY <1>1, LockInvariant, PTL

(* One token while anybody contends: no release lets two tasks in, none is   *)
(* forgotten.                                                                *)
COROLLARY OneTokenAlways == Spec => []OneToken
<1>1. LockInv => OneToken
  BY DEF LockInv
<1> QED
  BY <1>1, LockInvariant, PTL

-----------------------------------------------------------------------------

Holding == { u \in User : pc[u] = "holding" }

(* A task inside is the only one inside. *)
LEMMA HolderIsAlone ==
  ASSUME LockInv, NEW u \in User, pc[u] \in {"holding", "giving"}
  PROVE  Bearers = {u} /\ signal = 0 /\ count > 0
<1>1. u \in Bearers
  BY DEF Bearers
<1> QED
  BY <1>1 DEF LockInv, OneToken, TypeOK

LEMMA StepIsMutexStep ==
  LockInv /\ [Next]_vars => [M!MutexNext]_(Holding)
<1> SUFFICES ASSUME LockInv, [Next]_vars PROVE [M!MutexNext]_(Holding)
  OBVIOUS
<1> USE DEF M!MutexNext, M!Acquire, M!Release
<1>0. pc \in [User -> {"outside", "waiting", "holding", "giving"}]
  BY DEF LockInv, TypeOK
<1>1. ASSUME NEW u \in User, AcquireLock(u) PROVE M!MutexNext \/ UNCHANGED Holding
  <2>1. CASE count > 0
    BY <1>0, <1>1, <2>1 DEF AcquireLock, Holding
  <2>2. CASE ~(count > 0)
    <3>1. Bearers = {}
      BY <2>2 DEF LockInv, OneToken, TypeOK
    <3>2. Holding = {}
      BY <3>1 DEF Bearers, Holding
    <3>3. Holding' = {u}
      BY <1>0, <1>1, <2>2, <3>2 DEF AcquireLock, Holding
    <3> QED
      BY <3>2, <3>3 DEF Holding
  <2> QED
    BY <2>1, <2>2
<1>2. ASSUME NEW u \in User, TakeSignal(u) PROVE M!MutexNext \/ UNCHANGED Holding
  <2>1. Bearers = {}
    BY <1>2 DEF LockInv, OneToken, TakeSignal, TypeOK
  <2>2. Holding = {}
    BY <2>1 DEF Bearers, Holding
  <2>3. Holding' = {u}
    BY <1>0, <1>2, <2>2 DEF TakeSignal, Holding
  <2> QED
    BY <2>2, <2>3 DEF Holding
<1>3. ASSUME NEW u \in User, ReleaseLock(u) PROVE M!MutexNext \/ UNCHANGED Holding
  <2>1. u \in Holding
    BY <1>3 DEF ReleaseLock, Holding
  <2>2. Holding' = Holding \ {u}
    BY <1>0, <1>3 DEF ReleaseLock, Holding
  <2> QED
    BY <2>1, <2>2 DEF Holding
<1>4. ASSUME NEW u \in User, GiveSignal(u) PROVE M!MutexNext \/ UNCHANGED Holding
  BY <1>0, <1>4 DEF GiveSignal, Holding
<1>5. CASE UNCHANGED vars
  BY <1>5 DEF vars, Holding
<1> QED
  BY <1>1, <1>2, <1>3, <1>4, <1>5 DEF Next

(* The lock implements the mutex: one task at a time between acquire and     *)
(* release, and only the holder lets go, however many tasks contend.         *)
THEOREM LockIsMutex == Spec => ImplementsMutex
<1>1. Init => M!MutexInit
  BY DEF Init, M!MutexInit
<1>2. LockInv /\ [Next]_vars => [M!MutexNext]_(Holding)
  BY StepIsMutexStep
<1> QED
  BY <1>1, <1>2, LockInvariant, PTL DEF Spec, ImplementsMutex, M!MutexSpec, Holding
=============================================================================
