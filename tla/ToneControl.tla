----------------------------- MODULE ToneControl -----------------------------
(***************************************************************************)
(* Treble and bass by tilting the board (mp3_controller_acc.c): for each   *)
(* tone a task that reads the accelerometer, sets the decoder and the      *)
(* screen and rests, and a suspender that stops it; the controller task    *)
(* resumes the one or the other, and itself reads the accelerometer first. *)
(* Every reading holds the mutex of the I2C bus until the transfer ends.   *)
(* These tasks have the same priority and interleave between statements.   *)
(*                                                                         *)
(* The command line is a task of a higher priority.  Its operator suspends *)
(* and resumes tasks by name, whatever they are doing, and uses the bus.   *)
(*                                                                         *)
(* The transfer is one step (see I2cDriver), and so is a command to the    *)
(* decoder: bytes on the SPI port and the sharing of the register image    *)
(* are not here.  The level on the screen is in PlayerScreen.              *)
(***************************************************************************)
EXTENDS Integers, RtosTask

CONSTANTS
  Tilt,       \* accelerations along x, in m/s^2, after the cast to int;
              \* a failed transfer leaves 0
  Named,      \* the tasks the operator names in taskcontrol
  NoOne       \* the holder of a free mutex

Tone == {"treble", "bass"}
SuspenderOf == [t \in Tone |->
                  IF t = "treble" THEN "treble_suspender" ELSE "bass_suspender"]
Suspender == {SuspenderOf[t] : t \in Tone}
Controller == "controller"
Task == Tone \cup Suspender \cup {Controller}

ASSUME TiltAssumption == Tilt \subseteq Int
ASSUME NamedAssumption == Named \subseteq Task
ASSUME HolderAssumption == NoOne \notin Task

VARIABLES
  tpc,         \* tpc[t]: next statement of the task of tone t
  x,           \* x[t]: its reading, forgotten when it has been used
  allowed,     \* allowed[t]: t_task_suspend_allowed
  spc,         \* spc[t]: next statement of the suspender of tone t
  suspended,   \* the tasks in the suspended list
  holder,      \* who has the mutex of the I2C bus
  cpc, ctone,  \* controller: next statement, the tone it is about
  cli,         \* the command line: at its prompt, or waiting for the bus
  frequency    \* frequency[t]: its field of the decoder's register

vars == <<tpc, x, allowed, spc, suspended, holder, cpc, ctone, cli, frequency>>
tone_task == <<tpc, x, allowed>>
controller == <<cpc, ctone>>

TonePc == {"lower", "take", "read", "set", "raise", "delay"}
SuspenderPc == {"spin", "stop", "sleep"}
ControllerPc == {"wait", "take_source", "read_source", "take_orientation",
                 "read_orientation", "resume", "ask", "wake", "set"}
CliPc == {"prompt", "take"}

(***************************************************************************)
(* Numbers: casts to uint8_t are modulo 256, abs of the int comes before   *)
(* the cast, and vs1053b__set_*_frequency clamps what it is given.         *)
(***************************************************************************)
Byte(n) == n % 256
Abs(n) == IF n < 0 THEN -n ELSE n
Clamp(n, low, high) == IF n < low THEN low ELSE IF n > high THEN high ELSE n

SetTreble(freq) == Clamp(freq, 1, 15)
SetBass(freq) == Clamp(freq, 2, 15)

(* What the task of a tone sets for a reading n. *)
FrequencyOf(t, n) ==
  IF t = "treble" THEN SetTreble(Byte(10 - Byte(Abs(n))))
                  ELSE SetBass(Byte(Byte(Abs(n)) * 2))

(* "Back to normal", and what the register image starts with (0x71F2). *)
NormalFrequency(t) == IF t = "treble" THEN SetTreble(15) ELSE SetBass(2)
InitialFrequency(t) == IF t = "treble" THEN 1 ELSE 2

TypeOK ==
  /\ tpc \in [Tone -> TonePc]
  /\ x \in [Tone -> Tilt \cup {0}]
  /\ allowed \in [Tone -> BOOLEAN]
  /\ spc \in [Tone -> SuspenderPc]
  /\ suspended \subseteq Task
  /\ holder \in Tone \cup {Controller, NoOne}
  /\ cpc \in ControllerPc
  /\ ctone \in Tone
  /\ cli \in CliPc
  /\ frequency \in [Tone -> 1..15]

(* create_all_tasks suspends all four before the scheduler starts. *)
Init ==
  /\ tpc = [t \in Tone |-> "lower"]
  /\ x = [t \in Tone |-> 0]
  /\ allowed = [t \in Tone |-> FALSE]
  /\ spc = [t \in Tone |-> "spin"]
  /\ suspended = Tone \cup Suspender
  /\ holder = NoOne
  /\ cpc = "wait" /\ ctone = "treble"
  /\ cli = "prompt"
  /\ frequency = [t \in Tone |-> InitialFrequency(t)]

-----------------------------------------------------------------------------
(* mp3_controller_acc__treble_task and __bass_task. *)

ToneGoto(t, statement) == tpc' = [tpc EXCEPT ![t] = statement]

(* Mutant: the flag is raised at the end and never lowered. *)
ToneLowerNothing(t) ==
  /\ tpc[t] = "lower"
  /\ ToneGoto(t, "take")
  /\ UNCHANGED <<x, allowed, holder, frequency>>

ToneLower(t) ==
  /\ tpc[t] = "lower"
  /\ allowed' = [allowed EXCEPT ![t] = FALSE]
  /\ ToneGoto(t, "take")
  /\ UNCHANGED <<x, holder, frequency>>

(* acceleration__get_acceleration_x: the bus is taken with portMAX_DELAY ... *)
ToneTake(t) ==
  /\ tpc[t] = "take"
  /\ holder = NoOne
  /\ holder' = t
  /\ ToneGoto(t, "read")
  /\ UNCHANGED <<x, allowed, frequency>>

(* Mutant: a failed transfer returns without giving the mutex back. *)
ToneReadNoGive(t) ==
  /\ tpc[t] = "read"
  /\ \E n \in Tilt : x' = [x EXCEPT ![t] = n]
  /\ holder' \in {holder, NoOne}
  /\ ToneGoto(t, "set")
  /\ UNCHANGED <<allowed, frequency>>

(* ... and given back when the transfer has ended, well or not. *)
ToneRead(t) ==
  /\ tpc[t] = "read"
  /\ \E n \in Tilt : x' = [x EXCEPT ![t] = n]
  /\ holder' = NoOne
  /\ ToneGoto(t, "set")
  /\ UNCHANGED <<allowed, frequency>>

(* Mutant: the decoder is sent what was computed, without the clamps. *)
ToneSetUnclamped(t) ==
  /\ tpc[t] = "set"
  /\ frequency' = [frequency EXCEPT ![t] = IF t = "treble"
                     THEN Byte(10 - Byte(Abs(x[t])))
                     ELSE Byte(Byte(Abs(x[t])) * 2)]
  /\ x' = [x EXCEPT ![t] = 0]
  /\ ToneGoto(t, "raise")
  /\ UNCHANGED <<allowed, holder>>

ToneSet(t) ==
  /\ tpc[t] = "set"
  /\ frequency' = [frequency EXCEPT ![t] = FrequencyOf(t, x[t])]
  /\ x' = [x EXCEPT ![t] = 0]
  /\ ToneGoto(t, "raise")
  /\ UNCHANGED <<allowed, holder>>

ToneRaise(t) ==
  /\ tpc[t] = "raise"
  /\ allowed' = [allowed EXCEPT ![t] = TRUE]
  /\ ToneGoto(t, "delay")
  /\ UNCHANGED <<x, holder, frequency>>

(* vTaskDelay(250) is over, or was cut short by a suspension. *)
ToneWakeUp(t) ==
  /\ tpc[t] = "delay"
  /\ ToneGoto(t, "lower")
  /\ UNCHANGED <<x, allowed, holder, frequency>>

(* A task in the suspended list takes no step. *)
ToneStep(t) ==
  /\ t \notin suspended
  /\ \/ ToneLower(t) \/ ToneTake(t) \/ ToneRead(t) \/ ToneSet(t)
     \/ ToneRaise(t) \/ ToneWakeUp(t)
  /\ UNCHANGED <<spc, suspended, controller, cli>>

-----------------------------------------------------------------------------
(* mp3_controller_acc__treble_task_suspender and __bass_task_suspender. *)

SuspenderGoto(t, statement) == spc' = [spc EXCEPT ![t] = statement]

(* while (!allowed) ; ends ... *)
SuspenderSees(t) ==
  /\ spc[t] = "spin"
  /\ allowed[t]
  /\ SuspenderGoto(t, "stop")
  /\ UNCHANGED suspended

(* ... and the task is suspended, wherever it is by now. *)
SuspenderStops(t) ==
  /\ spc[t] = "stop"
  /\ suspended' = VTaskSuspend(suspended, t)
  /\ SuspenderGoto(t, "sleep")

(* vTaskSuspend(NULL): the loop starts over when somebody resumes it. *)
SuspenderSleeps(t) ==
  /\ spc[t] = "sleep"
  /\ suspended' = VTaskSuspend(suspended, SuspenderOf[t])
  /\ SuspenderGoto(t, "spin")

SuspenderStep(t) ==
  /\ SuspenderOf[t] \notin suspended
  /\ SuspenderSees(t) \/ SuspenderStops(t) \/ SuspenderSleeps(t)
  /\ UNCHANGED <<tone_task, holder, controller, cli, frequency>>

-----------------------------------------------------------------------------
(* mp3_controller_task on an orientation interrupt.  The other inputs do    *)
(* not touch the tones or the bus, and wait as long as this one does.       *)

Goto(statement) == cpc' = statement /\ UNCHANGED ctone

(* vTaskResume does nothing to a task that is not in the suspended list. *)
Resume(task) == suspended' = VTaskResume(suspended, task)

(* Back to the queue of inputs: the tone is forgotten. *)
Finish == cpc' = "wait" /\ ctone' = "treble"

OrientationChanged ==
  /\ cpc = "wait"
  /\ Goto("take_source")
  /\ UNCHANGED <<holder, suspended, frequency>>

(* Mutant: the controller takes the bus with timeout 0. *)
ControllerTriesToTake ==
  /\ cpc \in {"take_source", "take_orientation"}
  /\ IF holder = NoOne
     THEN /\ holder' = Controller
          /\ Goto(IF cpc = "take_source" THEN "read_source" ELSE "read_orientation")
     ELSE UNCHANGED holder /\ Finish
  /\ UNCHANGED <<suspended, frequency>>

(* Two readings: the source of the interrupt, then the orientation. *)
ControllerTake ==
  /\ holder = NoOne
  /\ holder' = Controller
  /\ \/ cpc = "take_source" /\ Goto("read_source")
     \/ cpc = "take_orientation" /\ Goto("read_orientation")
  /\ UNCHANGED <<suspended, frequency>>

(* Any other source makes do_nothing of the input. *)
ReadSource ==
  /\ cpc = "read_source"
  /\ holder' = NoOne
  /\ Goto("take_orientation") \/ Finish
  /\ UNCHANGED <<suspended, frequency>>

(* Up and down start a tone, front clears both (treble first), the others   *)
(* are about songs.                                                         *)
ReadOrientation ==
  /\ cpc = "read_orientation"
  /\ holder' = NoOne
  /\ \/ cpc' = "resume" /\ ctone' \in Tone
     \/ cpc' = "ask" /\ ctone' = "treble"
     \/ Finish
  /\ UNCHANGED <<suspended, frequency>>

(* mp3_controller_acc__resume_treble_task, __resume_bass_task. *)
ResumeTone ==
  /\ cpc = "resume"
  /\ Resume(ctone)
  /\ Finish
  /\ UNCHANGED <<holder, frequency>>

(* mp3_controller_acc__suspend_treble_task, then __suspend_bass_task. *)
NextTone ==
  IF ctone = "treble" THEN cpc' = "ask" /\ ctone' = "bass" ELSE Finish

(* vTaskGetInfo: a tone that is suspended already is left alone. *)
AskTone ==
  /\ cpc = "ask"
  /\ IF IsSuspended(suspended, ctone) THEN NextTone ELSE Goto("wake")
  /\ UNCHANGED <<holder, suspended, frequency>>

(* Mutant: the suspender of the other tone is resumed. *)
WakeOtherSuspender ==
  /\ cpc = "wake"
  /\ \E t \in Tone \ {ctone} : Resume(SuspenderOf[t])
  /\ Goto("set")
  /\ UNCHANGED <<holder, frequency>>

(* The suspender is resumed; if it is not asleep yet, nothing happens. *)
WakeSuspender ==
  /\ cpc = "wake"
  /\ Resume(SuspenderOf[ctone])
  /\ Goto("set")
  /\ UNCHANGED <<holder, frequency>>

SetNormal ==
  /\ cpc = "set"
  /\ frequency' = [frequency EXCEPT ![ctone] = NormalFrequency(ctone)]
  /\ NextTone
  /\ UNCHANGED <<holder, suspended>>

ControllerExecute ==
  /\ Controller \notin suspended
  /\ \/ ControllerTake \/ ReadSource \/ ReadOrientation \/ ResumeTone
     \/ AskTone \/ WakeSuspender \/ SetNormal
  /\ UNCHANGED <<tone_task, spc, cli>>

Input ==
  /\ Controller \notin suspended
  /\ OrientationChanged
  /\ UNCHANGED <<tone_task, spc, cli>>

-----------------------------------------------------------------------------
(* The command line (sj2_cli__task): one command after the other.           *)

(* taskcontrol suspend, taskcontrol resume: any task, whatever it is doing. *)
(* Names are cut to eleven characters: "treble task" is the treble's task   *)
(* and its suspender, and the command gets the one it finds first.          *)
CliSuspend ==
  /\ cli = "prompt"
  /\ \E task \in Named : suspended' = VTaskSuspend(suspended, task)
  /\ UNCHANGED cli

CliResume ==
  /\ cli = "prompt"
  /\ \E task \in Named : Resume(task)
  /\ UNCHANGED cli

(* i2c read, i2c write: a transfer on the bus of the accelerometer.  The    *)
(* command line has the highest priority and waits for the bus like the     *)
(* others; what it does with it only makes them wait, so that it takes the  *)
(* mutex and gives it back in one step.                                     *)
CliI2c ==
  /\ cli = "prompt"
  /\ cli' = "take"
  /\ UNCHANGED suspended

CliTransfer ==
  /\ cli = "take"
  /\ holder = NoOne
  /\ cli' = "prompt"
  /\ UNCHANGED suspended

CliStep ==
  /\ CliSuspend \/ CliResume \/ CliI2c \/ CliTransfer
  /\ UNCHANGED <<tone_task, spc, holder, controller, frequency>>

Next ==
  \/ \E t \in Tone : ToneStep(t) \/ SuspenderStep(t)
  \/ ControllerExecute
  \/ Input
  \/ CliStep

Spec == Init /\ [][Next]_vars

(* A ready task gets its slice.  A waiter for the bus is served in turn,    *)
(* and a suspender that spins gets many slices while its flag is up for the *)
(* 250 ticks of the delay: both are strongly fair.  Nobody has to tilt      *)
(* or to type.                                                              *)
Fairness ==
  /\ \A t \in Tone :
       /\ WF_vars(ToneStep(t))
       /\ SF_vars(ToneStep(t) /\ holder' = t)
       /\ WF_vars(SuspenderStep(t))
       /\ SF_vars(SuspenderStep(t) /\ spc'[t] = "stop")
  /\ WF_vars(ControllerExecute)
  /\ SF_vars(ControllerExecute /\ holder' = Controller)

FairSpec == Spec /\ Fairness

-----------------------------------------------------------------------------
(* Properties *)

(* A tone task that is suspended while its flag is up is at rest, whoever   *)
(* suspends it: it does not have the bus, and no half of its settings is    *)
(* missing.  The danger is a suspension with the flag down: by an operator, *)
(* or by a suspender that saw it up before the task lowered it.             *)
SuspendedInTimeIsAtRest ==
  [][\A t \in Tone : t \in suspended' \ suspended /\ allowed[t] =>
       holder # t /\ tpc[t] \in {"delay", "lower"}]_vars

(* The bus belongs to a task that does not run. *)
BusIsStuck == \E t \in suspended : holder = t

LockedOut == BusIsStuck /\ cpc \in {"take_source", "take_orientation"}

(* Once a task is suspended with the bus and the controller waits for it,   *)
(* only the operator ends the wait, by resuming that very task from the     *)
(* prompt.  An operator whose own transfer waits for the bus cannot any     *)
(* more, and the lockout is for good.                                       *)
OnlyOperatorEndsLockout ==
  [][LockedOut =>
       LockedOut' \/ (cli = "prompt" /\ holder \in suspended \ suspended')]_vars

(* Apart from that, a controller that waits for the bus gets it, unless the *)
(* operator suspends it.                                                    *)
ControllerGetsBus ==
  cpc \in {"take_source", "take_orientation"}
    ~> (holder = Controller \/ BusIsStuck \/ Controller \in suspended)

(* A clear stops the tone's task, unless the bus is stuck, the suspender    *)
(* was caught on its way to sleep, where a resume is lost on it, or the     *)
(* operator suspends the controller.  An operator who suspends suspenders   *)
(* is promised nothing.                                                     *)
ClearStops ==
  \A t \in Tone :
    (cpc = "wake" /\ ctone = t /\ spc[t] # "sleep" /\ SuspenderOf[t] \notin Named)
      ~> (t \in suspended \/ BusIsStuck \/ Controller \in suspended)
=============================================================================
