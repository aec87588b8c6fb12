------------------------------- MODULE SysTime -------------------------------
(***************************************************************************)
(* sys_time.c and delay.c: the uptime is put together from a counter of    *)
(* minutes, which the timer's interrupt keeps, and from the timer, which   *)
(* the same interrupt sets back to zero.  Neither is locked; the reader    *)
(* reads the timer twice and starts again when it went down in between.    *)
(*                                                                         *)
(* One caller is enough, because callers share nothing but the timer and   *)
(* the counter, and only the interrupt writes those.                       *)
(***************************************************************************)
EXTENDS Integers

CONSTANTS Minute,        \* ticks (microseconds) from zero to the match
          Millisecond,   \* ticks in a millisecond
          MaxLatency,    \* the interrupt is at most this late: another handler
                         \* or a critical section is in its way
          MaxIteration,  \* the longest one iteration of the loop takes, the
                         \* time slices of the other tasks included
          Waits,         \* the delays asked for
          MaxMinutes     \* bound on the time that is explored

ASSUME TimeAssumption ==
  /\ Minute \in Nat /\ Millisecond \in Nat \ {0} /\ Minute % Millisecond = 0
  /\ MaxLatency \in Nat /\ MaxLatency < Millisecond
  /\ MaxIteration \in Nat /\ 2 * MaxIteration < Minute
  /\ Waits \subseteq Nat
  /\ MaxMinutes \in Nat

VARIABLES
  timer, minutes,       \* TC and sys_time__one_minute_counter
  now,                  \* ticks since sys_time__init
  pc,                   \* the statement the caller is about to execute
  goal,                 \* what the caller wants the uptime for
  before, minutesRead,  \* the locals of sys_time__get_uptime_us
  elapsed,              \* ticks since the iteration began
  retries,              \* iterations of this call that were in vain
  uptime,               \* the value returned last
  wait, target,         \* the locals of delay__us
  calledAt              \* the time of the call of delay__us

clock == <<timer, minutes, now>>
caller == <<pc, goal, before, minutesRead, retries, uptime, wait, target, calledAt>>
vars == <<clock, caller, elapsed>>

Reading == pc \in {"before", "minutes", "after"}

(* The true reading of the two registers. *)
Uptime == minutes * Minute + timer

Init ==
  /\ timer = 0 /\ minutes = 0 /\ now = 0
  /\ pc = "idle" /\ goal = "uptime"
  /\ before = 0 /\ minutesRead = 0 /\ elapsed = 0 /\ retries = 0
  /\ uptime = 0 /\ wait = 0 /\ target = 0 /\ calledAt = 0

(* The timer counts; at the match it only raises its interrupt. *)
Tick ==
  /\ timer < Minute + MaxLatency
  /\ Reading => elapsed < MaxIteration
  /\ timer' = timer + 1
  /\ now' = now + 1
  /\ elapsed' = IF Reading THEN elapsed + 1 ELSE elapsed
  /\ UNCHANGED <<minutes, caller>>

(* sys_time__one_minute_isr *)
Interrupt ==
  /\ timer >= Minute
  /\ minutes < MaxMinutes
  /\ minutes' = minutes + 1
  /\ timer' = 0
  /\ UNCHANGED <<now, caller, elapsed>>

(* A call of sys_time__get_uptime_us, or of delay__us, which begins with one. *)
CallUptime ==
  /\ pc = "idle"
  /\ pc' = "before"
  /\ goal' = "uptime"
  /\ elapsed' = 0
  /\ retries' = 0
  /\ UNCHANGED <<clock, before, minutesRead, uptime, wait, target, calledAt>>

CallDelay ==
  /\ pc = "idle"
  /\ wait' \in Waits
  /\ pc' = "before"
  /\ goal' = "deadline"
  /\ calledAt' = now
  /\ elapsed' = 0
  /\ retries' = 0
  /\ UNCHANGED <<clock, before, minutesRead, uptime, target>>

ReadBefore ==
  /\ pc = "before"
  /\ before' = timer
  /\ pc' = "minutes"
  /\ UNCHANGED <<clock, goal, minutesRead, elapsed, retries, uptime, wait, target, calledAt>>

ReadMinutes ==
  /\ pc = "minutes"
  /\ minutesRead' = minutes
  /\ pc' = "after"
  /\ UNCHANGED <<clock, goal, before, elapsed, retries, uptime, wait, target, calledAt>>

(* The timer went down: read everything again. *)
Retry ==
  /\ timer < before
  /\ pc' = "before"
  /\ retries' = retries + 1
  /\ elapsed' = 0
  /\ UNCHANGED <<clock, goal, before, minutesRead, uptime, wait, target, calledAt>>

(* Mutant: the deadline is counted in whole milliseconds of uptime. *)
DeadlineInMs(time) ==
  /\ goal = "deadline"
  /\ target' = (time \div Millisecond) * Millisecond + wait
  /\ goal' = "poll"
  /\ pc' \in {"before"} \cup (IF wait > Millisecond THEN {"sleep"} ELSE {})
  /\ elapsed' = 0
  /\ retries' = 0

(* Mutant: the wait is taken off instead of added. *)
DeadlineBackwards(time) ==
  /\ goal = "deadline"
  /\ target' = time - wait
  /\ goal' = "poll"
  /\ pc' \in {"before"} \cup (IF wait > Millisecond THEN {"sleep"} ELSE {})
  /\ elapsed' = 0
  /\ retries' = 0

(* delay__us has its first reading: it sleeps when the scheduler runs and the *)
(* delay is longer than a millisecond, and polls for the rest.                *)
Deadline(time) ==
  /\ goal = "deadline"
  /\ target' = time + wait
  /\ goal' = "poll"
  /\ pc' \in {"before"} \cup (IF wait > Millisecond THEN {"sleep"} ELSE {})
  /\ elapsed' = 0
  /\ retries' = 0

(* delay__us reads the uptime until it has reached the deadline. *)
Poll(time) ==
  /\ goal = "poll"
  /\ pc' = IF time < target THEN "before" ELSE "idle"
  /\ elapsed' = 0
  /\ retries' = 0
  /\ UNCHANGED <<goal, target>>

Answer(time) ==
  /\ goal = "uptime"
  /\ pc' = "idle"
  /\ UNCHANGED <<goal, target, elapsed, retries>>

(* The loop is left with the second reading of the timer; what the caller *)
(* does with the uptime touches its own locals only.                      *)
Return(time) ==
  /\ uptime' = time
  /\ Answer(time) \/ Deadline(time) \/ Poll(time)
  /\ UNCHANGED <<clock, before, minutesRead, wait, calledAt>>

(* Mutant: without the loop. *)
ReadAfterOnce ==
  /\ pc = "after"
  /\ Return(minutesRead * Minute + timer)

(* Mutant: while (after_us <= before_us). *)
ReadAfterUnlessSame ==
  /\ pc = "after"
  /\ \/ /\ timer <= before
        /\ pc' = "before"
        /\ retries' = retries + 1
        /\ elapsed' = 0
        /\ UNCHANGED <<clock, goal, before, minutesRead, uptime, wait, target, calledAt>>
     \/ timer > before /\ Return(minutesRead * Minute + timer)

ReadAfter ==
  /\ pc = "after"
  /\ \/ Retry
     \/ timer >= before /\ Return(minutesRead * Minute + timer)

(* vTaskDelay returns; the sleep's length is left open, the polling that *)
(* follows decides.                                                      *)
Wake ==
  /\ pc = "sleep"
  /\ pc' = "before"
  /\ elapsed' = 0
  /\ retries' = 0
  /\ UNCHANGED <<clock, goal, before, minutesRead, uptime, wait, target, calledAt>>

Next == \/ Tick \/ Interrupt
        \/ CallUptime \/ CallDelay
        \/ ReadBefore \/ ReadMinutes \/ ReadAfter \/ Wake

Spec == Init /\ [][Next]_vars

-----------------------------------------------------------------------------
(* Properties *)

TypeOK ==
  /\ timer \in 0..(Minute + MaxLatency)
  /\ minutes \in Nat /\ now \in Nat
  /\ pc \in {"idle", "before", "minutes", "after", "sleep"}
  /\ goal \in {"uptime", "deadline", "poll"}
  /\ before \in 0..(Minute + MaxLatency)
  /\ minutesRead \in Nat
  /\ elapsed \in 0..MaxIteration
  /\ retries \in Nat
  /\ uptime \in Nat /\ wait \in Nat /\ target \in Nat /\ calledAt \in Nat

(* The loop is left, not repeated. *)
Returns == pc = "after" /\ pc' # "after" /\ retries' <= retries

(* "Loop until we can safely read both the rollover value and the timer      *)
(* value": the value returned is what both registers say at that moment,     *)
(* wherever the interrupt came between the three readings.                   *)
UptimeIsExact == [][Returns => uptime' = Uptime]_vars

(* The interrupt can send the loop back once, never twice: get_uptime_us     *)
(* ends after two iterations.                                                *)
OneRetry == retries <= 1

(* "The delay API is designed to be precise": delay__us returns no earlier   *)
(* than asked, although each late interrupt takes time off the uptime.       *)
DelayIsLongEnough == goal = "poll" /\ pc = "idle" => now >= calledAt + wait

(* A late interrupt sets the uptime back by microseconds.  In milliseconds,  *)
(* which the debouncing of the buttons subtracts without sign, it never      *)
(* goes back.                                                                *)
MillisecondsNeverBack ==
  [][uptime' \div Millisecond >= uptime \div Millisecond]_vars
=============================================================================
