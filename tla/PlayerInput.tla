----------------------------- MODULE PlayerInput -----------------------------
(***************************************************************************)
(* The inputs of the player: edges on the pins raise an interrupt, whose   *)
(* dispatcher (gpio_isr.c) runs one callback of mp3_controller.c, which    *)
(* looks at the uptime to tell a press from a bouncing contact and sends   *)
(* an input to a short queue, without waiting.                             *)
(*                                                                         *)
(* A behaviour follows the calls of the uptime of one user (see SysTime):  *)
(* a task, or the callbacks.  The two share nothing that either writes.    *)
(* The timer's interrupt may come between any two readings, although the   *)
(* two handlers have the same priority and it has to wait for a callback.  *)
(***************************************************************************)
EXTENDS SysTime, RtosQueue

CONSTANTS
  Source,       \* attached interrupts, <<group, pin>>: the groups are rising
                \* and falling edges of port 0, then those of port 2
  NoSource,
  Pause,        \* Pause[s]: the milliseconds a debounced source must pause;
                \* the interrupts of the accelerometer are not debounced
  Inputs,       \* Inputs[s]: what its callback may send
  InputLength   \* length of the queue of inputs (10)

Debounced == DOMAIN Pause
Input == UNION { Inputs[s] : s \in Source }

ASSUME SourceAssumption ==
  /\ Source \subseteq (1..4) \X (0..31)
  /\ NoSource \notin Source
  /\ Debounced \subseteq Source
  /\ \A s \in Debounced : Pause[s] \in Nat
  /\ \A s \in Source : Inputs[s] # {}
  /\ InputLength \in Nat

VARIABLES
  user,           \* whose calls of the uptime are followed
  raised,         \* IO0IntStatR, IO0IntStatF, IO2IntStatR and IO2IntStatF
  hpc, serving,   \* dispatcher: next statement, source of the interrupt
  old_timestamp,  \* old_timestamp[s]: the static of the callback of s
  inputs,         \* mp3_controller__control_inputs_queue
  heard           \* history: when the callback of s last read the uptime

pins == <<raised, hpc, serving>>
debounce == <<old_timestamp, inputs, heard>>
inputVars == <<vars, user, pins, debounce>>

InputInit ==
  /\ Init
  /\ user \in {"task", "callback"}
  /\ raised = {} /\ hpc = "wait" /\ serving = NoSource
  /\ old_timestamp = [s \in Debounced |-> 0]
  /\ inputs = << >>
  /\ heard = [s \in Debounced |-> 0]

-----------------------------------------------------------------------------
(* gpio_isr.c *)

(* An edge comes; one that was not cleared yet takes it in. *)
Edge(s) ==
  /\ raised' = raised \cup {s}
  /\ UNCHANGED <<vars, hpc, serving, debounce>>

(* gpiox__get_generated_interrupt: the first group, the highest of its pins. *)
IsGenerated(s) ==
  /\ s \in raised
  /\ \A r \in raised : s[1] < r[1] \/ (s[1] = r[1] /\ s[2] >= r[2])

Port(s) == IF s[1] <= 2 THEN 0 ELSE 2

(* A callback that looks at the time first. *)
DispatchDebounced(s) ==
  /\ hpc = "wait" /\ IsGenerated(s)
  /\ s \in Debounced
  /\ CallUptime
  /\ hpc' = "callback" /\ serving' = s
  /\ UNCHANGED <<raised, debounce>>

Send(s) ==
  \E input \in Inputs[s] : inputs' = SendToBack(inputs, InputLength, input)

(* mp3_controller__accel_interrupt_1_callback and _2_callback. *)
DispatchPlain(s) ==
  /\ hpc = "wait" /\ IsGenerated(s)
  /\ s \notin Debounced
  /\ Send(s)
  /\ hpc' = "clear" /\ serving' = s
  /\ UNCHANGED <<vars, raised, old_timestamp, heard>>

(* clear_pin_interrupt: both edges of the pin, and those since the callback *)
(* began are lost.                                                          *)
ClearPin ==
  /\ hpc = "clear"
  /\ raised' = { r \in raised : Port(r) # Port(serving) \/ r[2] # serving[2] }
  /\ hpc' = "wait" /\ serving' = NoSource
  /\ UNCHANGED <<vars, debounce>>

-----------------------------------------------------------------------------
(* The callbacks of mp3_controller.c with a pause: 200 ms for a button, 40  *)
(* ms for the rotary encoder, whose direction another pin tells.            *)

CallbackReads ==
  /\ hpc = "callback"
  /\ ReadBefore \/ ReadMinutes \/ (ReadAfter /\ pc' = "before")
  /\ UNCHANGED <<pins, debounce>>

(* new_timestamp - old_timestamp > pause, without sign: a time that went    *)
(* back would be a very long pause.                                         *)
IsPause(s, new_timestamp) == new_timestamp - old_timestamp[s] \notin 0..Pause[s]

(* Mutant: only a press that counts is remembered. *)
RememberPressOnly(s, new_timestamp) ==
  IF IsPause(s, new_timestamp)
  THEN Send(s) /\ old_timestamp' = [old_timestamp EXCEPT ![s] = new_timestamp]
  ELSE UNCHANGED <<inputs, old_timestamp>>

(* Mutant: the old timestamp is assigned before it is compared. *)
RememberFirst(s, new_timestamp) ==
  /\ old_timestamp' = [old_timestamp EXCEPT ![s] = new_timestamp]
  /\ IF new_timestamp - old_timestamp'[s] > Pause[s] THEN Send(s) ELSE UNCHANGED inputs

Debounce(s, new_timestamp) ==
  /\ old_timestamp' = [old_timestamp EXCEPT ![s] = new_timestamp]
  /\ IF IsPause(s, new_timestamp) THEN Send(s) ELSE UNCHANGED inputs

CallbackReturns ==
  /\ hpc = "callback"
  /\ ReadAfter /\ pc' = "idle"
  /\ Debounce(serving, uptime' \div Millisecond)
  /\ heard' = [heard EXCEPT ![serving] = now]
  /\ hpc' = "clear"
  /\ UNCHANGED <<raised, serving>>

-----------------------------------------------------------------------------
(* mp3_controller_task takes an input, when no handler runs. *)
TakeInput ==
  /\ hpc = "wait"
  /\ CanReceive(inputs)
  /\ inputs' = Tail(inputs)
  /\ UNCHANGED <<vars, pins, old_timestamp, heard>>

Time == (Tick \/ Interrupt) /\ UNCHANGED <<pins, debounce>>

TaskStep ==
  /\ user = "task"
  /\ \/ CallUptime \/ CallDelay
     \/ ReadBefore \/ ReadMinutes \/ ReadAfter \/ Wake
  /\ UNCHANGED <<pins, debounce>>

InputStep ==
  /\ user = "callback"
  /\ \/ \E s \in Source : Edge(s) \/ DispatchDebounced(s) \/ DispatchPlain(s)
     \/ CallbackReads \/ CallbackReturns \/ ClearPin
     \/ TakeInput

InputNext == (Time \/ TaskStep \/ InputStep) /\ UNCHANGED user

InputSpec == InputInit /\ [][InputNext]_inputVars

-----------------------------------------------------------------------------
(* Properties *)

(* Among the bounds: a callback runs for a debounced source only. *)
InputTypeOK ==
  /\ user \in {"task", "callback"}
  /\ raised \subseteq Source
  /\ hpc \in {"wait", "callback", "clear"}
  /\ serving \in Source \cup {NoSource}
  /\ hpc = "callback" => serving \in Debounced
  /\ old_timestamp \in [Debounced -> Nat]
  /\ inputs \in QueueOf(Input, InputLength)
  /\ heard \in [Debounced -> Nat]

(* The callback of s has its answer from the clock. *)
Hears(s) == hpc = "callback" /\ serving = s /\ hpc' = "clear"

(* A debounced source sends an input only if its contact was still for the  *)
(* whole pause, in real time: not because a late interrupt moved the uptime *)
(* or because the uptime was read across the end of a minute.               *)
SentAfterPause ==
  [][\A s \in Debounced :
       Hears(s) /\ inputs' # inputs => now - heard[s] > Pause[s] * Millisecond]_inputVars

(* A contact that was still for a millisecond longer, and for what the late *)
(* interrupts of all minutes took off the uptime, is a press: it is sent    *)
(* unless the queue is full.                                                *)
PressIsHeard ==
  [][\A s \in Debounced :
       /\ Hears(s)
       /\ now - heard[s] >= (Pause[s] + 1) * Millisecond + MaxLatency * minutes
       /\ CanSend(inputs, InputLength)
       => \E input \in Inputs[s] : inputs' = Append(inputs, input)]_inputVars
=============================================================================
