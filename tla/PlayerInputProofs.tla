-------------------------- MODULE PlayerInputProofs --------------------------
(***************************************************************************)
(* Proofs about SysTime, for every length of the minute and every timing   *)
(* that TimeAssumption allows, and then about PlayerInput, for any         *)
(* sources, pauses and lengths, on top of them: each step of the inputs is *)
(* a step of the time, or leaves it alone.                                 *)
(***************************************************************************)
EXTENDS PlayerInput, RtosQueueTheorems

(* No interrupt came since the timer was read first: then the minutes, once  *)
(* read, are the current ones.                                               *)
Undisturbed ==
  /\ before <= timer
  /\ timer - before <= elapsed
  /\ pc = "after" => minutesRead = minutes

(* One came: the timer has counted from zero for less than the iteration     *)
(* lasts, and is therefore below its first reading.  A second iteration is   *)
(* too close to the interrupt that disturbed the first for this to happen.   *)
Disturbed ==
  /\ retries = 0
  /\ timer <= elapsed
  /\ timer + Minute - before <= elapsed

ReadInv == pc \in {"minutes", "after"} => Undisturbed \/ Disturbed

RetryInv ==
  /\ retries <= 1
  /\ Reading /\ retries = 1 => timer <= MaxIteration + elapsed

(* What the late interrupts took off the uptime never comes back, so that a  *)
(* deadline on the uptime is a deadline in real time, or a later one.        *)
DelayInv ==
  /\ Uptime <= now
  /\ goal = "deadline" => calledAt <= now
  /\ goal = "poll" => calledAt <= target - wait + (now - Uptime)
  /\ DelayIsLongEnough

TimeInv == TypeOK /\ ReadInv /\ RetryInv /\ DelayInv

(* The uptime in milliseconds has not gone back since it was returned. *)
MsInv == uptime \div Millisecond <= Uptime \div Millisecond

-----------------------------------------------------------------------------
(* Division *)

LEMMA DivisionBounds ==
  ASSUME NEW d \in Nat \ {0}, NEW a \in Nat
  PROVE  a \div d \in Nat /\ d * (a \div d) <= a /\ a < d * (a \div d) + d
  OBVIOUS

LEMMA ProductSwap == \A a, b, c \in Nat : a * (b * c) = b * (a * c)
  OBVIOUS

LEMMA ProductGap ==
  ASSUME NEW d \in Nat \ {0}, NEW p \in Nat, NEW q \in Nat, q < p
  PROVE  d * q + d <= d * p
  <1>1. PICK k \in Nat : p = q + 1 + k
    <2>1. p - q - 1 \in Nat /\ p = q + 1 + (p - q - 1)
      OBVIOUS
    <2> QED
      BY <2>1
  <1>2. d * (q + 1 + k) = d * q + d + d * k
    OBVIOUS
  <1>3. d * k \in Nat
    OBVIOUS
  <1> QED
    BY <1>1, <1>2, <1>3

LEMMA DivisionMonotone ==
  ASSUME NEW d \in Nat \ {0}, NEW a \in Nat, NEW b \in Nat, a <= b
  PROVE  a \div d <= b \div d
  <1> SUFFICES ASSUME b \div d < a \div d PROVE FALSE
    BY DivisionBounds
  <1>1. d * (b \div d) + d <= d * (a \div d)
    BY ProductGap, DivisionBounds
  <1> QED
    BY <1>1, DivisionBounds

(* Less than d above a multiple of d, nothing is gained over the multiple. *)
LEMMA DivisionAtMultiple ==
  ASSUME NEW d \in Nat \ {0}, NEW q \in Nat, NEW a \in Nat, a < d * q + d
  PROVE  a \div d <= (d * q) \div d
  <1>1. d * q \in Nat
    OBVIOUS
  <1>2. a \div d <= q
    <2> SUFFICES ASSUME q < a \div d PROVE FALSE
      BY DivisionBounds
    <2> QED
      BY ProductGap, DivisionBounds
  <1>3. q <= (d * q) \div d
    <2> SUFFICES ASSUME (d * q) \div d < q PROVE FALSE
      BY <1>1, DivisionBounds
    <2> QED
      BY <1>1, ProductGap, DivisionBounds
  <1> QED
    BY <1>1, <1>2, <1>3, DivisionBounds

-----------------------------------------------------------------------------
(* The clock *)

LEMMA UptimeNat == ASSUME TypeOK PROVE Uptime \in Nat
  BY TimeAssumption DEF TypeOK, Uptime

(* A disturbed reading is recognised by the timer, whatever else it read. *)
LEMMA DisturbedIsSeen == ASSUME TypeOK, Disturbed PROVE timer < before
  BY TimeAssumption DEF TypeOK, Disturbed

(* What the loop is left with is what the registers say. *)
LEMMA ReadingIsExact ==
  ASSUME TypeOK, ReadInv, pc = "after", ~(timer < before)
  PROVE  minutesRead * Minute + timer = Uptime
  <1>1. Undisturbed
    BY DisturbedIsSeen DEF ReadInv
  <1>2. minutesRead = minutes
    BY <1>1 DEF Undisturbed
  <1> QED
    BY <1>2 DEF Uptime

LEMMA TimeInit == Init => TimeInv
  BY TimeAssumption
  DEF Init, TimeInv, TypeOK, ReadInv, RetryInv, DelayInv, Uptime, Reading, DelayIsLongEnough

-----------------------------------------------------------------------------
(* Each action preserves the invariant. *)

LEMMA TickStep == TimeInv /\ Tick => TimeInv'
  <1> SUFFICES ASSUME TimeInv, Tick PROVE TimeInv'
    OBVIOUS
  <1> USE TimeAssumption DEF TimeInv, TypeOK, Tick, clock, caller, Reading
  <1>1. TypeOK'
    OBVIOUS
  <1>2. ReadInv'
    BY DEF ReadInv, Undisturbed, Disturbed
  <1>3. RetryInv'
    BY DEF RetryInv
  <1>4. DelayInv'
    <2>1. Uptime' = Uptime + 1 /\ now' = now + 1
      BY DEF Uptime
    <2> QED
      BY <2>1, UptimeNat DEF DelayInv, DelayIsLongEnough
  <1> QED
    BY <1>1, <1>2, <1>3, <1>4

LEMMA InterruptStep == TimeInv /\ Interrupt => TimeInv'
  <1> SUFFICES ASSUME TimeInv, Interrupt PROVE TimeInv'
    OBVIOUS
  <1> USE TimeAssumption DEF TimeInv, TypeOK, Interrupt, clock, caller, Reading
  <1>1. TypeOK'
    OBVIOUS
  <1>2. ReadInv'
    BY DEF ReadInv, RetryInv, Undisturbed, Disturbed
  <1>3. RetryInv'
    BY DEF RetryInv
  <1>4. DelayInv'
    <2>1. (minutes + 1) * Minute = minutes * Minute + Minute
      OBVIOUS
    <2>2. Uptime' <= Uptime
      BY <2>1 DEF Uptime
    <2>3. Uptime' \in Nat
      BY <1>1 DEF Uptime
    <2>4. now' = now /\ now - Uptime <= now' - Uptime'
      BY <2>2, <2>3, UptimeNat
    <2>5. UNCHANGED <<goal, pc, calledAt, target, wait>>
      OBVIOUS
    <2>6. Uptime' <= now'
      BY <2>2, <2>3, <2>4, UptimeNat DEF DelayInv
    <2>7. goal' = "poll" => calledAt' <= target' - wait' + (now' - Uptime')
      <3> SUFFICES ASSUME goal = "poll"
                   PROVE  calledAt <= target - wait + (now' - Uptime')
        BY <2>5
      <3>1. calledAt <= target - wait + (now - Uptime)
        BY DEF DelayInv
      <3>2. target - wait \in Int /\ now - Uptime \in Int /\ now' - Uptime' \in Int
        BY <2>3, <2>4, UptimeNat
      <3>3. target - wait + (now - Uptime) <= target - wait + (now' - Uptime')
        BY <2>4, <3>2
      <3> QED
        BY <3>1, <3>2, <3>3
    <2> QED
      BY <2>4, <2>5, <2>6, <2>7 DEF DelayInv, DelayIsLongEnough
  <1> QED
    BY <1>1, <1>2, <1>3, <1>4

LEMMA CallStep == TimeInv /\ (CallUptime \/ CallDelay) => TimeInv'
  <1> SUFFICES ASSUME TimeInv, CallUptime \/ CallDelay PROVE TimeInv'
    OBVIOUS
  <1> USE TimeAssumption DEF TimeInv, TypeOK, CallUptime, CallDelay, clock, Reading
  <1>1. TypeOK'
    <2>1. CASE CallUptime
      BY <2>1
    <2>2. CASE CallDelay
      <3>1. wait' \in Nat
        BY <2>2
      <3> QED
        BY <2>2, <3>1
    <2> QED
      BY <2>1, <2>2
  <1>2. ReadInv' /\ RetryInv'
    BY DEF ReadInv, RetryInv
  <1>3. DelayInv'
    BY UptimeNat DEF DelayInv, DelayIsLongEnough, Uptime
  <1> QED
    BY <1>1, <1>2, <1>3

LEMMA ReadStep == TimeInv /\ (ReadBefore \/ ReadMinutes \/ Wake) => TimeInv'
  <1> SUFFICES ASSUME TimeInv, ReadBefore \/ ReadMinutes \/ Wake PROVE TimeInv'
    OBVIOUS
  <1> USE TimeAssumption DEF TimeInv, TypeOK, ReadBefore, ReadMinutes, Wake, clock, Reading
  <1>1. TypeOK'
    OBVIOUS
  <1>2. ReadInv' /\ RetryInv'
    BY DEF ReadInv, RetryInv, Undisturbed, Disturbed
  <1>3. DelayInv'
    BY UptimeNat DEF DelayInv, DelayIsLongEnough, Uptime
  <1> QED
    BY <1>1, <1>2, <1>3

LEMMA RetryStep == TimeInv /\ pc = "after" /\ Retry => TimeInv'
  <1> SUFFICES ASSUME TimeInv, pc = "after", Retry PROVE TimeInv'
    OBVIOUS
  <1> USE TimeAssumption DEF TimeInv, TypeOK, Retry, clock, Reading
  <1>1. Disturbed
    BY DEF ReadInv, Undisturbed
  <1>2. TypeOK'
    OBVIOUS
  <1>3. ReadInv' /\ RetryInv'
    BY <1>1 DEF ReadInv, RetryInv, Disturbed
  <1>4. DelayInv'
    BY UptimeNat DEF DelayInv, DelayIsLongEnough, Uptime
  <1> QED
    BY <1>2, <1>3, <1>4

LEMMA ReturnStep ==
  ASSUME TimeInv, pc = "after", ~(timer < before), Return(Uptime)
  PROVE  TimeInv'
  <1> USE TimeAssumption, UptimeNat DEF TimeInv, TypeOK, Return, clock, Reading
  <1>1. CASE Answer(Uptime)
    BY <1>1 DEF Answer, ReadInv, RetryInv, DelayInv, DelayIsLongEnough, Uptime
  <1>2. CASE Deadline(Uptime)
    <2>1. TypeOK' /\ ReadInv' /\ RetryInv'
      BY <1>2 DEF Deadline, ReadInv, RetryInv
    <2>2. Uptime' = Uptime
      BY DEF Uptime
    <2>3. DelayInv'
      BY <1>2, <2>2 DEF Deadline, DelayInv, DelayIsLongEnough
    <2> QED
      BY <2>1, <2>3
  <1>3. CASE Poll(Uptime)
    <2>1. TypeOK' /\ ReadInv' /\ RetryInv'
      BY <1>3 DEF Poll, ReadInv, RetryInv
    <2>2. Uptime' = Uptime
      BY DEF Uptime
    <2>3. DelayInv'
      BY <1>3, <2>2 DEF Poll, DelayInv, DelayIsLongEnough
    <2> QED
      BY <2>1, <2>3
  <1> QED
    BY <1>1, <1>2, <1>3

LEMMA StutterStep == TimeInv /\ UNCHANGED vars => TimeInv'
  BY DEF TimeInv, TypeOK, ReadInv, RetryInv, DelayInv, DelayIsLongEnough, Undisturbed,
         Disturbed, Uptime, Reading, vars, clock, caller

LEMMA ReadAfterStep == TimeInv /\ ReadAfter => TimeInv'
  <1> SUFFICES ASSUME TimeInv, ReadAfter PROVE TimeInv'
    OBVIOUS
  <1>1. CASE Retry
    BY <1>1, RetryStep DEF ReadAfter
  <1>2. CASE timer >= before /\ Return(minutesRead * Minute + timer)
    <2>1. ~(timer < before)
      BY <1>2, TimeAssumption DEF TimeInv, TypeOK
    <2>2. minutesRead * Minute + timer = Uptime
      BY <2>1, ReadingIsExact DEF ReadAfter, TimeInv
    <2> QED
      BY <1>2, <2>1, <2>2, ReturnStep DEF ReadAfter
  <1> QED
    BY <1>1, <1>2 DEF ReadAfter

-----------------------------------------------------------------------------
(* Theorems *)

(* The invariant: an interrupt between the readings of get_uptime_us leaves  *)
(* the timer below its first reading, and never strikes a second iteration.  *)
THEOREM TimeInvariant == Spec => []TimeInv
  <1>1. TimeInv /\ [Next]_vars => TimeInv'
    BY TickStep, InterruptStep, CallStep, ReadStep, ReadAfterStep, StutterStep DEF Next
  <1> QED
    BY TimeInit, <1>1, PTL DEF Spec

(* Types: the timer stays within the minute and the permitted latency. *)
THEOREM TimeTypeCorrect == Spec => []TypeOK
  <1>1. TimeInv => TypeOK
    BY DEF TimeInv
  <1> QED
    BY TimeInvariant, <1>1, PTL

(* sys_time__get_uptime_us starts again at most once. *)
THEOREM OneRetryAlways == Spec => []OneRetry
  <1>1. TimeInv => OneRetry
    BY DEF TimeInv, RetryInv, OneRetry
  <1> QED
    BY TimeInvariant, <1>1, PTL

(* delay__us never returns before the time it was asked for has passed. *)
THEOREM DelayIsLongEnoughAlways == Spec => []DelayIsLongEnough
  <1>1. TimeInv => DelayIsLongEnough
    BY DEF TimeInv, DelayInv
  <1> QED
    BY TimeInvariant, <1>1, PTL

(* The uptime returned is what the counter and the timer say at the moment   *)
(* of the last reading.                                                      *)
THEOREM UptimeIsExactAlways == Spec => UptimeIsExact
  <1>1. TimeInv /\ [Next]_vars => [Returns => uptime' = Uptime]_vars
    <2> SUFFICES ASSUME TimeInv, Next, Returns
                 PROVE  uptime' = Uptime
      OBVIOUS
    <2>1. ReadAfter
      BY DEF Returns, Next, Tick, Interrupt, CallUptime, CallDelay, ReadBefore, ReadMinutes, Wake, caller
    <2>2. timer >= before /\ Return(minutesRead * Minute + timer)
      <3>1. ~Retry
        BY DEF Returns, Retry, TimeInv, TypeOK
      <3> QED
        BY <2>1, <3>1 DEF ReadAfter
    <2>3. minutesRead * Minute + timer = Uptime
      <3>1. pc = "after" /\ ~(timer < before)
        BY <2>2, TimeAssumption DEF Returns, TimeInv, TypeOK
      <3> QED
        BY <3>1, ReadingIsExact DEF TimeInv
    <2> QED
      BY <2>2, <2>3 DEF Return
  <1> QED
    BY TimeInvariant, <1>1, PTL DEF Spec, UptimeIsExact

(* A minute is a whole number of milliseconds and the interrupt is less than *)
(* one late: setting the uptime back does not show in milliseconds.          *)
LEMMA InterruptKeepsMs ==
  ASSUME TypeOK, Interrupt
  PROVE  Uptime' \in Nat /\ Uptime \div Millisecond <= Uptime' \div Millisecond
  <1> USE TimeAssumption
  <1> DEFINE q == (minutes + 1) * (Minute \div Millisecond)
  <1>1. Minute = Millisecond * (Minute \div Millisecond) /\ Minute \div Millisecond \in Nat
    OBVIOUS
  <1>2. q \in Nat
    BY <1>1 DEF TypeOK
  <1>3. Millisecond * q = (minutes + 1) * Minute
    <2>1. Millisecond * ((minutes + 1) * (Minute \div Millisecond))
            = (minutes + 1) * (Millisecond * (Minute \div Millisecond))
      <3>1. Millisecond \in Nat /\ minutes + 1 \in Nat /\ Minute \div Millisecond \in Nat
        BY <1>1 DEF TypeOK
      <3> QED
        BY ONLY <3>1, ProductSwap
    <2> QED
      BY <1>1, <2>1
  <1>4. Uptime' = Millisecond * q
    BY <1>3 DEF TypeOK, Interrupt, Uptime
  <1>5. Uptime < Millisecond * q + Millisecond
    BY <1>3 DEF TypeOK, Uptime
  <1>6. Uptime' \in Nat
    <2>1. \A m \in Nat, n \in Nat : m * n \in Nat
      OBVIOUS
    <2> QED
      BY <1>2, <1>4, <2>1
  <1>7. Uptime \div Millisecond <= (Millisecond * q) \div Millisecond
    <2> HIDE DEF q
    <2> QED
      BY <1>2, <1>5, UptimeNat, DivisionAtMultiple
  <1> QED
    BY <1>4, <1>6, <1>7

LEMMA LaterMs ==
  ASSUME uptime \in Nat, Uptime \in Nat, Uptime' \in Nat, MsInv, uptime' = uptime,
         Uptime \div Millisecond <= Uptime' \div Millisecond
  PROVE  MsInv'
  <1>1. /\ uptime \div Millisecond \in Nat
        /\ Uptime \div Millisecond \in Nat
        /\ Uptime' \div Millisecond \in Nat
    BY TimeAssumption, DivisionBounds
  <1>2. uptime \div Millisecond <= Uptime \div Millisecond
    BY DEF MsInv
  <1>3. (uptime \div Millisecond)' = uptime \div Millisecond
    OBVIOUS
  <1> QED
    BY <1>1, <1>2, <1>3 DEF MsInv

LEMMA MsStep == TimeInv /\ MsInv /\ [Next]_vars => MsInv'
  <1> SUFFICES ASSUME TimeInv, MsInv, [Next]_vars PROVE MsInv'
    OBVIOUS
  <1> USE TimeAssumption
  <1>1. TypeOK /\ uptime \in Nat /\ Uptime \in Nat
    BY UptimeNat DEF TimeInv, TypeOK
  <1>2. CASE Tick
    <2>1. uptime' = uptime /\ Uptime' \in Nat /\ Uptime <= Uptime'
      BY <1>1, <1>2 DEF Tick, caller, TypeOK, Uptime
    <2>2. Uptime \div Millisecond <= Uptime' \div Millisecond
      BY <1>1, <2>1, DivisionMonotone
    <2> QED
      BY <1>1, <2>1, <2>2, LaterMs
  <1>3. CASE Interrupt
    <2>1. uptime' = uptime
      BY <1>3 DEF Interrupt, caller
    <2>2. Uptime' \in Nat /\ Uptime \div Millisecond <= Uptime' \div Millisecond
      BY <1>1, <1>3, InterruptKeepsMs
    <2> QED
      BY <1>1, <2>1, <2>2, LaterMs
  <1>4. CASE ReadAfter /\ ~(timer < before)
    <2>1. minutesRead * Minute + timer = Uptime
      BY <1>1, <1>4, ReadingIsExact DEF ReadAfter, TimeInv
    <2>2. uptime' = Uptime /\ Uptime' = Uptime
      BY <1>4, <2>1 DEF ReadAfter, Retry, Return, clock, Uptime
    <2> QED
      BY <1>1, <2>2, DivisionBounds DEF MsInv
  <1>5. CASE \/ CallUptime \/ CallDelay \/ ReadBefore \/ ReadMinutes \/ Wake
             \/ (ReadAfter /\ timer < before) \/ UNCHANGED vars
    <2>1. UNCHANGED <<uptime, timer, minutes>>
      <3>1. CASE ReadAfter /\ timer < before
        BY <1>1, <3>1 DEF ReadAfter, Retry, clock, TypeOK
      <3> QED
        BY <1>5, <3>1 DEF CallUptime, CallDelay, ReadBefore, ReadMinutes, Wake, clock, caller, vars
    <2> QED
      BY <2>1 DEF MsInv, Uptime
  <1> QED
    BY <1>2, <1>3, <1>4, <1>5 DEF Next

(* The uptime in milliseconds never goes back, as the debouncing of the      *)
(* buttons needs it: it subtracts two of them without sign.                  *)
THEOREM MillisecondsNeverBackAlways == Spec => MillisecondsNeverBack
  <1>1. Init => MsInv
    BY TimeAssumption DEF Init, MsInv, Uptime
  <1>2. TimeInv /\ MsInv /\ [Next]_vars =>
          [uptime' \div Millisecond >= uptime \div Millisecond]_vars
    <2> SUFFICES ASSUME TimeInv, MsInv, Next, ~UNCHANGED uptime
                 PROVE  uptime' \div Millisecond >= uptime \div Millisecond
      <3>1. TimeInv => uptime \in Nat /\ Millisecond \in Nat \ {0}
        BY TimeAssumption DEF TimeInv, TypeOK
      <3>2. TimeInv => uptime \div Millisecond \in Nat
        BY <3>1, DivisionBounds
      <3> QED
        BY <3>2 DEF vars, caller
    <2>1. ReadAfter
      BY DEF Next, Tick, Interrupt, CallUptime, CallDelay, ReadBefore, ReadMinutes, Wake, caller
    <2>2. timer >= before /\ Return(minutesRead * Minute + timer)
      BY <2>1 DEF ReadAfter, Retry
    <2>3. uptime' = Uptime
      <3>1. pc = "after" /\ ~(timer < before)
        BY <2>1, <2>2, TimeAssumption DEF ReadAfter, TimeInv, TypeOK
      <3> QED
        BY <2>2, <3>1, ReadingIsExact DEF Return, TimeInv
    <2>4. uptime \in Nat /\ Uptime \in Nat
      BY UptimeNat DEF TimeInv, TypeOK
    <2> QED
      BY <2>3, <2>4, DivisionBounds, TimeAssumption DEF MsInv
  <1> QED
    BY TimeInvariant, MsStep, <1>1, <1>2, PTL DEF Spec, MillisecondsNeverBack
-----------------------------------------------------------------------------
(* The inputs *)

(* Each late interrupt takes no more off the uptime than its lateness. *)
DriftInv == now - Uptime <= MaxLatency * minutes

(* What the timestamp of s and the uptime say about the moment of its last  *)
(* callback: the timestamp is never ahead of the uptime in milliseconds,    *)
(* nor of real time, and lags behind it by less than a millisecond and what *)
(* the uptime has lost so far.                                              *)
Remembered(s) ==
  /\ old_timestamp[s] <= Uptime \div Millisecond
  /\ Millisecond * old_timestamp[s] <= heard[s]
  /\ heard[s] < Millisecond * old_timestamp[s] + Millisecond + (now - Uptime)

InputInv ==
  /\ InputTypeOK
  /\ DriftInv
  /\ \A s \in Debounced : Remembered(s)

-----------------------------------------------------------------------------
(* The clock *)

LEMMA ProductStep == \A a, b \in Nat : a * (b + 1) = a * b + a /\ (b + 1) * a = b * a + a
  OBVIOUS

LEMMA ProductNat == \A a, b \in Nat : a * b \in Nat
  OBVIOUS

(* What an uptime that is set back by at most l has lost. *)
LEMMA SetBackLoses ==
  \A n, u, v, l, d \in Nat :
    v <= u /\ u <= v + l =>
      /\ n - u <= n - v
      /\ n - u <= d => n - v <= d + l
  OBVIOUS

(* In milliseconds the uptime does not go back, what it has lost it never   *)
(* makes up for, and it loses a lateness per minute at most.                *)
LEMMA ClockStep ==
  ASSUME TimeInv, [Next]_vars
  PROVE  /\ Uptime \in Nat /\ Uptime' \in Nat /\ now \in Nat /\ now' \in Nat
         /\ Uptime \div Millisecond <= Uptime' \div Millisecond
         /\ now - Uptime <= now' - Uptime'
         /\ DriftInv => DriftInv'
  <1>1. TypeOK /\ Uptime \in Nat /\ now \in Nat /\ minutes \in Nat /\ timer \in Nat
    BY TimeAssumption, UptimeNat DEF TimeInv, TypeOK
  <1>2. CASE Tick
    <2>1. Uptime' = Uptime + 1 /\ now' = now + 1 /\ minutes' = minutes
      BY <1>1, <1>2, TimeAssumption, ProductNat DEF Tick, Uptime
    <2>2. Uptime \div Millisecond <= Uptime' \div Millisecond
      BY <1>1, <2>1, TimeAssumption, DivisionMonotone
    <2> QED
      BY <1>1, <2>1, <2>2 DEF DriftInv
  <1>3. CASE Interrupt
    <2>1. Uptime' \in Nat /\ Uptime \div Millisecond <= Uptime' \div Millisecond
      BY <1>1, <1>3, InterruptKeepsMs
    <2>2. now' = now /\ minutes' = minutes + 1 /\ timer' = 0
      BY <1>3 DEF Interrupt
    <2>3. minutes' * Minute = minutes * Minute + Minute
      BY <1>1, <2>2, TimeAssumption, ProductStep
    <2>4. minutes * Minute \in Nat
      BY <1>1, TimeAssumption, ProductNat
    <2>5. Uptime' <= Uptime /\ Uptime <= Uptime' + MaxLatency
      BY <1>1, <1>3, <2>2, <2>3, <2>4, TimeAssumption DEF Interrupt, Uptime, TypeOK
    <2>6. MaxLatency * minutes' = MaxLatency * minutes + MaxLatency
      BY <1>1, <2>2, TimeAssumption, ProductStep
    <2>7. MaxLatency * minutes \in Nat /\ MaxLatency \in Nat
      BY <1>1, TimeAssumption, ProductNat
    <2>8. Uptime' \in Nat /\ Uptime' <= Uptime /\ Uptime <= Uptime' + MaxLatency
      BY <2>1, <2>5
    <2>9. now - Uptime <= now - Uptime'
      BY <1>1, <2>7, <2>8, SetBackLoses
    <2>10. DriftInv => now - Uptime' <= MaxLatency * minutes + MaxLatency
      BY <1>1, <2>7, <2>8, SetBackLoses DEF DriftInv
    <2> QED
      BY <1>1, <2>1, <2>2, <2>6, <2>9, <2>10 DEF DriftInv
  <1>4. CASE UNCHANGED clock
    <2>1. now' = now /\ Uptime' = Uptime /\ minutes' = minutes
      BY <1>4 DEF clock, Uptime
    <2>2. Uptime \div Millisecond \in Nat
      BY <1>1, TimeAssumption, DivisionBounds
    <2> QED
      BY <1>1, <2>1, <2>2 DEF DriftInv
  <1>5. Tick \/ Interrupt \/ UNCHANGED clock
    BY DEF Next, CallUptime, CallDelay, ReadBefore, ReadMinutes, ReadAfter, Wake,
           Retry, Return, vars
  <1> QED
    BY <1>2, <1>3, <1>4, <1>5

(* A reading is what the registers say while it is made. *)
LEMMA CallbackReading ==
  ASSUME TimeInv, CallbackReturns
  PROVE  uptime' = Uptime /\ UNCHANGED clock
  <1>1. pc = "after" /\ ~Retry
    BY DEF CallbackReturns, ReadAfter, Retry
  <1>2. timer >= before /\ Return(minutesRead * Minute + timer)
    BY <1>1 DEF CallbackReturns, ReadAfter
  <1>3. TypeOK /\ ReadInv /\ ~(timer < before)
    BY <1>2, TimeAssumption DEF TimeInv, TypeOK
  <1>4. minutesRead * Minute + timer = Uptime
    BY <1>1, <1>3, ReadingIsExact
  <1> QED
    BY <1>2, <1>4 DEF Return

-----------------------------------------------------------------------------
(* A step of the inputs is a step of the time, or leaves it alone. *)

LEMMA InputStepIsTimeStep == ASSUME [InputNext]_inputVars PROVE [Next]_vars
  <1>1. CASE UNCHANGED inputVars
    BY <1>1 DEF inputVars
  <1>2. CASE Time
    BY <1>2 DEF Time, Next
  <1>3. CASE TaskStep
    BY <1>3 DEF TaskStep, Next
  <1>4. CASE InputStep
    BY <1>4 DEF InputStep, Next, Edge, DispatchDebounced, DispatchPlain, ClearPin,
                CallbackReads, CallbackReturns, TakeInput
  <1> QED
    BY <1>1, <1>2, <1>3, <1>4 DEF InputNext

-----------------------------------------------------------------------------
(* The invariant *)

LEMMA InputsBegin == InputInit => InputInv
  <1> SUFFICES ASSUME InputInit PROVE InputInv
    OBVIOUS
  <1>1. now = 0 /\ Uptime = 0 /\ minutes = 0
    BY TimeAssumption DEF InputInit, Init, Uptime
  <1>2. InputTypeOK
    BY SourceAssumption, EmptyIsBounded DEF InputInit, InputTypeOK
  <1>3. DriftInv
    BY <1>1, TimeAssumption DEF DriftInv
  <1>4. ASSUME NEW s \in Debounced PROVE Remembered(s)
    <2>1. old_timestamp[s] = 0 /\ heard[s] = 0
      BY DEF InputInit
    <2>2. 0 \div Millisecond \in Nat
      BY TimeAssumption, DivisionBounds
    <2> QED
      BY <1>1, <2>1, <2>2, TimeAssumption DEF Remembered
  <1> QED
    BY <1>2, <1>3, <1>4 DEF InputInv, InputInit

(* What a callback sends stays within the queue. *)
LEMMA SendType ==
  ASSUME InputTypeOK, NEW s \in Source, Send(s)
  PROVE  inputs' \in QueueOf(Input, InputLength)
  <1>1. PICK input \in Inputs[s] : inputs' = SendToBack(inputs, InputLength, input)
    BY DEF Send
  <1>2. input \in Input
    BY DEF Input
  <1> QED
    BY <1>1, <1>2, SourceAssumption, SendToBackStaysBounded DEF InputTypeOK

(* In milliseconds the uptime is a natural number. *)
LEMMA MillisecondsNat == ASSUME TimeInv PROVE Uptime \div Millisecond \in Nat
  BY UptimeNat, TimeAssumption, DivisionBounds DEF TimeInv

LEMMA TypeStep ==
  ASSUME TimeInv, InputInv, [InputNext]_inputVars
  PROVE  InputTypeOK'
  <1> USE SourceAssumption DEF InputInv, InputTypeOK
  <1>1. CASE UNCHANGED inputVars \/ Time \/ TaskStep \/ CallbackReads
    <2>1. UNCHANGED <<pins, debounce>>
      BY <1>1 DEF inputVars, Time, TaskStep, CallbackReads
    <2>2. UNCHANGED user
      BY <1>1 DEF inputVars, InputNext
    <2> QED
      BY <2>1, <2>2 DEF pins, debounce
  <1>2. ASSUME NEW s \in Source, Edge(s) \/ DispatchDebounced(s), InputNext
        PROVE  InputTypeOK'
    BY <1>2 DEF Edge, DispatchDebounced, debounce, InputNext
  <1>3. ASSUME NEW s \in Source, DispatchPlain(s), InputNext
        PROVE  InputTypeOK'
    <2>1. inputs' \in QueueOf(Input, InputLength)
      BY <1>3, SendType DEF DispatchPlain
    <2> QED
      BY <1>3, <2>1 DEF DispatchPlain, InputNext
  <1>4. CASE CallbackReturns /\ InputNext
    <2>1. serving \in Debounced /\ serving \in Source
      BY <1>4 DEF CallbackReturns
    <2>2. uptime' \div Millisecond \in Nat
      BY <1>4, CallbackReading, MillisecondsNat
    <2>3. inputs' \in QueueOf(Input, InputLength)
      BY <1>4, <2>1, SendType DEF CallbackReturns, Debounce
    <2>4. old_timestamp' \in [Debounced -> Nat]
      BY <1>4, <2>2 DEF CallbackReturns, Debounce
    <2>5. heard' \in [Debounced -> Nat]
      BY <1>4 DEF CallbackReturns, TimeInv, TypeOK
    <2> QED
      BY <1>4, <2>3, <2>4, <2>5 DEF CallbackReturns, InputNext
  <1>5. CASE ClearPin /\ InputNext
    BY <1>5 DEF ClearPin, debounce, InputNext
  <1>6. CASE TakeInput /\ InputNext
    <2>1. inputs' \in QueueOf(Input, InputLength)
      BY <1>6, ReceiveStaysBounded DEF TakeInput
    <2> QED
      BY <1>6, <2>1 DEF TakeInput, pins, InputNext
  <1> QED
    BY <1>1, <1>2, <1>3, <1>4, <1>5, <1>6 DEF InputNext, InputStep

(* As the clock runs on, what a timestamp says stays true. *)
LEMMA RememberedStep ==
  ASSUME TimeInv, InputInv, [InputNext]_inputVars, NEW s \in Debounced
  PROVE  Remembered(s)'
  <1>1. /\ Uptime \in Nat /\ Uptime' \in Nat /\ now \in Nat /\ now' \in Nat
        /\ Uptime \div Millisecond <= Uptime' \div Millisecond
        /\ now - Uptime <= now' - Uptime'
    BY InputStepIsTimeStep, ClockStep
  <1>2. /\ Uptime \div Millisecond \in Nat /\ Uptime' \div Millisecond \in Nat
        /\ Millisecond \in Nat \ {0}
    BY <1>1, TimeAssumption, DivisionBounds
  <1>3. old_timestamp[s] \in Nat /\ heard[s] \in Nat /\ Remembered(s)
    BY DEF InputInv, InputTypeOK
  <1>4. CASE UNCHANGED <<old_timestamp[s], heard[s]>>
    <2>1. Millisecond * old_timestamp[s] \in Nat
      BY <1>2, <1>3, ProductNat
    <2>2. Millisecond * old_timestamp[s] + Millisecond \in Nat
      BY <1>2, <2>1
    <2>3. /\ old_timestamp[s] <= Uptime' \div Millisecond
          /\ heard[s] < Millisecond * old_timestamp[s] + Millisecond + (now' - Uptime')
      <3> DEFINE lag == Millisecond * old_timestamp[s] + Millisecond
                 d == Uptime \div Millisecond
                 e == Uptime' \div Millisecond
      <3>1. old_timestamp[s] <= d /\ heard[s] < lag + (now - Uptime)
        BY <1>3 DEF Remembered
      <3>2. d \in Nat /\ e \in Nat /\ d <= e
        BY <1>1, <1>2
      <3>3. /\ Uptime \in Nat /\ Uptime' \in Nat /\ now \in Nat /\ now' \in Nat
            /\ now - Uptime <= now' - Uptime' /\ old_timestamp[s] \in Nat
            /\ heard[s] \in Nat /\ lag \in Nat
        BY <1>1, <1>3, <2>2
      <3> HIDE DEF lag, d, e
      <3>4. old_timestamp[s] <= e /\ heard[s] < lag + (now' - Uptime')
        BY <3>1, <3>2, <3>3
      <3> QED
        BY <3>4 DEF lag, e
    <2> QED
      BY <1>3, <1>4, <2>3 DEF Remembered
  <1>5. CASE CallbackReturns /\ serving = s
    <2>1. uptime' = Uptime /\ now' = now /\ Uptime' = Uptime
      BY <1>5, CallbackReading DEF clock, Uptime
    <2>2. old_timestamp'[s] = Uptime \div Millisecond /\ heard'[s] = now
      BY <1>5, <2>1 DEF CallbackReturns, Debounce, InputInv, InputTypeOK
    <2> DEFINE new == Uptime \div Millisecond
    <2>3. new \in Nat /\ Millisecond * new <= Uptime /\ Uptime < Millisecond * new + Millisecond
      BY <1>1, <1>2, DivisionBounds
    <2>4. Millisecond * new \in Nat
      BY <1>2, <2>3, ProductNat
    <2>5. Uptime <= now
      BY DEF TimeInv, DelayInv
    <2>6. new <= new /\ Millisecond * new <= now
          /\ now < Millisecond * new + Millisecond + (now - Uptime)
      BY <1>1, <1>2, <2>3, <2>4, <2>5
    <2>7. /\ old_timestamp'[s] = new /\ heard'[s] = now
          /\ Uptime' \div Millisecond = new /\ now' - Uptime' = now - Uptime
      BY <2>1, <2>2
    <2> HIDE DEF new
    <2> QED
      BY <2>6, <2>7 DEF Remembered
  <1>6. UNCHANGED <<old_timestamp[s], heard[s]>> \/ (CallbackReturns /\ serving = s)
    <2>1. CASE CallbackReturns
      BY <2>1 DEF CallbackReturns, Debounce, InputInv, InputTypeOK
    <2>2. CASE ~CallbackReturns
      <3>1. UNCHANGED <<old_timestamp, heard>>
        BY <2>2 DEF InputNext, InputStep, inputVars, debounce, Time, TaskStep, Edge,
                    DispatchDebounced, DispatchPlain, ClearPin, CallbackReads, TakeInput
      <3> QED
        BY <3>1
    <2> QED
      BY <2>1, <2>2
  <1> QED
    BY <1>4, <1>5, <1>6

LEMMA InputInvStep ==
  TimeInv /\ InputInv /\ [InputNext]_inputVars => InputInv'
  <1> SUFFICES ASSUME TimeInv, InputInv, [InputNext]_inputVars PROVE InputInv'
    OBVIOUS
  <1>1. DriftInv'
    BY InputStepIsTimeStep, ClockStep DEF InputInv
  <1>2. \A s \in Debounced : Remembered(s)'
    BY RememberedStep
  <1>3. InputTypeOK'
    BY TypeStep
  <1> QED
    BY <1>1, <1>2, <1>3 DEF InputInv

-----------------------------------------------------------------------------
(* Theorems *)

(* So all that is proved of the uptime holds of the inputs' clock as well. *)
THEOREM InputsRunOnTime == InputSpec => Spec
  <1>1. InputInit => Init
    BY DEF InputInit
  <1>2. [InputNext]_inputVars => [Next]_vars
    BY InputStepIsTimeStep
  <1> QED
    BY <1>1, <1>2, PTL DEF InputSpec, Spec

(* The inductive invariant of the inputs: what a timestamp says about the   *)
(* last callback stays true while late interrupts set the uptime back.      *)
THEOREM InputInvariant == InputSpec => []InputInv
  <1>1. InputSpec => []TimeInv
    BY InputsRunOnTime, TimeInvariant, PTL
  <1> QED
    BY <1>1, InputsBegin, InputInvStep, PTL DEF InputSpec

(* The queue of inputs stays within its length, and a callback runs only    *)
(* for a source that debounces its contact.                                 *)
THEOREM InputTypeCorrect == InputSpec => []InputTypeOK
  <1>1. InputInv => InputTypeOK
    BY DEF InputInv
  <1> QED
    BY <1>1, InputInvariant, PTL

-----------------------------------------------------------------------------
(* Pauses *)

(* A pause of more than p milliseconds by the timestamps is one of more     *)
(* than p milliseconds in real time.                                        *)
LEMMA PauseIsReal ==
  ASSUME NEW ms \in Nat \ {0}, NEW p \in Nat, NEW o \in Nat, NEW u \in Nat,
         NEW h \in Nat, NEW n \in Nat,
         u \div ms - o > p, h < ms * o + ms + (n - u)
  PROVE  n - h > p * ms
  <1>1. u \div ms \in Nat /\ ms * (u \div ms) <= u
    BY DivisionBounds
  <1>2. o + p < u \div ms
    BY <1>1
  <1>3. ms * (o + p) + ms <= ms * (u \div ms)
    BY <1>1, <1>2, ProductGap
  <1>4. ms * (o + p) = ms * o + p * ms
    OBVIOUS
  <1>5. ms * o \in Nat /\ p * ms \in Nat /\ ms * (u \div ms) \in Nat
    BY <1>1, ProductNat
  <1> QED
    BY <1>1, <1>3, <1>4, <1>5

(* A pause of p + 1 milliseconds in real time, and of what the uptime has   *)
(* lost, is one of more than p milliseconds by the timestamps.              *)
LEMMA PauseIsSeen ==
  ASSUME NEW ms \in Nat \ {0}, NEW p \in Nat, NEW o \in Nat, NEW u \in Nat,
         NEW h \in Nat, NEW n \in Nat, NEW d \in Nat,
         n - h >= (p + 1) * ms + d, n - u <= d, ms * o <= h
  PROVE  u \div ms - o > p
  <1>1. u \div ms \in Nat /\ u < ms * (u \div ms) + ms
    BY DivisionBounds
  <1>2. ms * o \in Nat /\ p * ms \in Nat /\ ms * (u \div ms) \in Nat
    BY <1>1, ProductNat
  <1>3. (p + 1) * ms = p * ms + ms /\ ms * (o + p) = ms * o + p * ms
    OBVIOUS
  <1>4. u >= ms * (o + p) + ms
    BY <1>2, <1>3
  <1> SUFFICES ASSUME ~(o + p < u \div ms) PROVE FALSE
    BY <1>1
  <1>5. CASE u \div ms = o + p
    BY <1>1, <1>2, <1>4, <1>5
  <1>6. CASE u \div ms < o + p
    <2>1. ms * (u \div ms) + ms <= ms * (o + p)
      BY <1>1, <1>6, ProductGap
    <2> QED
      BY <1>1, <1>2, <1>3, <1>4, <2>1
  <1> QED
    BY <1>1, <1>5, <1>6

(* What the callback of s knows when it has its answer from the clock. *)
LEMMA AtTheAnswer ==
  ASSUME TimeInv, InputInv, InputNext, NEW s \in Debounced, Hears(s)
  PROVE  /\ old_timestamp[s] \in Nat /\ heard[s] \in Nat /\ Remembered(s)
         /\ Uptime \in Nat /\ now \in Nat /\ Uptime \div Millisecond \in Nat
         /\ Debounce(s, Uptime \div Millisecond)
  <1>1. CallbackReturns
    BY DEF Hears, InputNext, InputStep, Time, TaskStep, Edge, DispatchDebounced,
           DispatchPlain, ClearPin, CallbackReads, TakeInput, pins
  <1>2. Debounce(s, Uptime \div Millisecond)
    <2>1. uptime' = Uptime
      BY <1>1, CallbackReading
    <2> QED
      BY <1>1, <2>1 DEF CallbackReturns, Hears
  <1>3. Uptime \in Nat /\ now \in Nat
    BY UptimeNat DEF TimeInv, TypeOK
  <1> QED
    BY <1>2, <1>3, MillisecondsNat DEF InputInv, InputTypeOK

(* A bouncing contact is never taken for a press, for any pause, lateness   *)
(* and length of the minute.                                                *)
THEOREM SentAfterPauseAlways == InputSpec => SentAfterPause
  <1>1. TimeInv /\ InputInv /\ [InputNext]_inputVars =>
          [\A s \in Debounced :
             Hears(s) /\ inputs' # inputs => now - heard[s] > Pause[s] * Millisecond]_inputVars
    <2> SUFFICES ASSUME TimeInv, InputInv, InputNext, NEW s \in Debounced,
                        Hears(s), inputs' # inputs
                 PROVE  now - heard[s] > Pause[s] * Millisecond
      OBVIOUS
    <2> DEFINE new == Uptime \div Millisecond
    <2>1. /\ old_timestamp[s] \in Nat /\ heard[s] \in Nat /\ Remembered(s)
          /\ Uptime \in Nat /\ now \in Nat /\ new \in Nat /\ Debounce(s, new)
      BY AtTheAnswer
    <2>2. IsPause(s, new)
      BY <2>1 DEF Debounce
    <2>3. Pause[s] \in Nat /\ Millisecond \in Nat \ {0}
      BY SourceAssumption, TimeAssumption
    <2>4. old_timestamp[s] <= new
      BY <2>1 DEF Remembered
    <2>5. new - old_timestamp[s] > Pause[s]
      <3> HIDE DEF new
      <3> QED
        BY <2>1, <2>2, <2>3, <2>4 DEF IsPause
    <2>6. heard[s] < Millisecond * old_timestamp[s] + Millisecond + (now - Uptime)
      BY <2>1 DEF Remembered
    <2> QED
      BY <2>1, <2>3, <2>5, <2>6, PauseIsReal
  <1>2. InputSpec => []TimeInv
    BY InputsRunOnTime, TimeInvariant, PTL
  <1> QED
    BY <1>1, <1>2, InputInvariant, PTL DEF InputSpec, SentAfterPause

(* A press after a long enough pause is sent, unless the queue is full.     *)
THEOREM PressIsHeardAlways == InputSpec => PressIsHeard
  <1>1. TimeInv /\ InputInv /\ [InputNext]_inputVars =>
          [\A s \in Debounced :
             /\ Hears(s)
             /\ now - heard[s] >= (Pause[s] + 1) * Millisecond + MaxLatency * minutes
             /\ CanSend(inputs, InputLength)
             => \E input \in Inputs[s] : inputs' = Append(inputs, input)]_inputVars
    <2> SUFFICES ASSUME TimeInv, InputInv, InputNext, NEW s \in Debounced, Hears(s),
                        now - heard[s] >= (Pause[s] + 1) * Millisecond + MaxLatency * minutes,
                        CanSend(inputs, InputLength)
                 PROVE  \E input \in Inputs[s] : inputs' = Append(inputs, input)
      OBVIOUS
    <2> DEFINE new == Uptime \div Millisecond
    <2>1. /\ old_timestamp[s] \in Nat /\ heard[s] \in Nat /\ Remembered(s)
          /\ Uptime \in Nat /\ now \in Nat /\ new \in Nat /\ Debounce(s, new)
      BY AtTheAnswer
    <2>2. Pause[s] \in Nat /\ Millisecond \in Nat \ {0}
      BY SourceAssumption, TimeAssumption
    <2>3. MaxLatency * minutes \in Nat
      BY TimeAssumption, ProductNat DEF TimeInv, TypeOK
    <2>4. now - Uptime <= MaxLatency * minutes /\ Millisecond * old_timestamp[s] <= heard[s]
      BY <2>1 DEF InputInv, DriftInv, Remembered
    <2>5. new - old_timestamp[s] > Pause[s]
      BY <2>1, <2>2, <2>3, <2>4, PauseIsSeen
    <2>6. IsPause(s, new)
      <3> HIDE DEF new
      <3> QED
        BY <2>1, <2>2, <2>5 DEF IsPause
    <2>7. Send(s)
      BY <2>1, <2>6 DEF Debounce
    <2> QED
      BY <2>7 DEF Send, SendToBack
  <1>2. InputSpec => []TimeInv
    BY InputsRunOnTime, TimeInvariant, PTL
  <1> QED
    BY <1>1, <1>2, InputInvariant, PTL DEF InputSpec, PressIsHeard
=============================================================================
