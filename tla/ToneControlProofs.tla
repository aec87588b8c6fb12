-------------------------- MODULE ToneControlProofs --------------------------
(***************************************************************************)
(* For every set of tilts and every set of tasks the operator may name:    *)
(* the registers stay in range, a tone task that is suspended in time is   *)
(* at rest, and only the operator ends a lockout.  All three come from who *)
(* has the mutex of the bus and where a raised flag can be.                *)
(***************************************************************************)
EXTENDS ToneControl, TLAPS

(* The mutex is with the task that is between its take and its give. *)
HolderIsReading ==
  /\ \A t \in Tone : holder = t <=> tpc[t] = "read"
  /\ holder = Controller <=> cpc \in {"read_source", "read_orientation"}

(* A flag is up from the end of the settings to the start of the next ones. *)
FlagMeansRest == \A t \in Tone : allowed[t] => tpc[t] \in {"delay", "lower"}

ToneInv == TypeOK /\ HolderIsReading /\ FlagMeansRest

-----------------------------------------------------------------------------
(* Whatever is asked of the decoder, its fields get a value of four bits    *)
(* that is not 0 (vs1053b__set_treble_frequency, __set_bass_frequency).     *)
LEMMA SettersClamp ==
  ASSUME NEW freq \in Int
  PROVE  SetTreble(freq) \in 1..15 /\ SetBass(freq) \in 1..15
BY DEF SetTreble, SetBass, Clamp

(* A cast to uint8_t of the absolute value of any int is a byte.            *)
LEMMA ByteOfAbs ==
  ASSUME NEW n \in Int
  PROVE  Byte(n) \in 0..255 /\ Abs(n) \in Nat
BY DEF Byte, Abs

(* What a tone task sets is in range for any reading: 10 - |x| may wrap, and *)
(* 2 * |x| may be as large as it likes.                                      *)
LEMMA FrequencyInRange ==
  ASSUME NEW t, NEW n \in Int
  PROVE  FrequencyOf(t, n) \in 1..15
<1> DEFINE b == Byte(Abs(n))
<1>1. b \in Int
  BY ByteOfAbs
<1> HIDE DEF b
<1>2. Byte(10 - b) \in Int /\ Byte(b * 2) \in Int
  BY <1>1, ByteOfAbs
<1>3. SetTreble(Byte(10 - b)) \in 1..15 /\ SetBass(Byte(b * 2)) \in 1..15
  BY <1>2, SettersClamp
<1>4. QED
  BY <1>3 DEF FrequencyOf, b

(* A reading is a number: a tilt, or the 0 of a failed transfer. *)
LEMMA ReadingIsInt ==
  ASSUME NEW n \in Tilt \cup {0}
  PROVE  n \in Int
<1>1. CASE n = 0
  BY <1>1
<1>2. CASE n \in Tilt
  BY <1>2, TiltAssumption, Zenon DEF TiltAssumption
<1>3. QED
  BY <1>1, <1>2

LEMMA NormalInRange ==
  ASSUME NEW t
  PROVE  NormalFrequency(t) \in 1..15
BY SettersClamp DEF NormalFrequency

-----------------------------------------------------------------------------
LEMMA InitTone == Init => ToneInv
BY HolderAssumption
   DEF Init, ToneInv, TypeOK, HolderIsReading, FlagMeansRest, Tone, Suspender,
       Controller, Task, TonePc, SuspenderPc, ControllerPc, CliPc, InitialFrequency

(* One statement of a tone task. *)
LEMMA ToneStepKeepsInv ==
  ASSUME ToneInv, NEW t \in Tone, ToneStep(t)
  PROVE  ToneInv'
<1> USE DEF ToneInv, TypeOK, HolderIsReading, FlagMeansRest
<1>1. /\ UNCHANGED <<spc, suspended, cpc, ctone, cli>>
      /\ t # Controller /\ t # NoOne /\ Controller # NoOne /\ NoOne \notin Tone
  BY HolderAssumption DEF ToneStep, controller, Task, Tone, Controller
<1>2. CASE ToneLower(t)
  BY <1>1, <1>2 DEF ToneLower, ToneGoto, TonePc
<1>3. CASE ToneTake(t)
  BY <1>1, <1>3 DEF ToneTake, ToneGoto, TonePc
<1>4. CASE ToneRead(t)
  <2>1. PICK n \in Tilt : x' = [x EXCEPT ![t] = n]
    BY <1>4 DEF ToneRead
  <2>2. x' \in [Tone -> Tilt \cup {0}]
    BY <2>1
  <2>3. QED
    BY <1>1, <1>4, <2>2 DEF ToneRead, ToneGoto, TonePc
<1>5. CASE ToneSet(t)
  <2>1. x[t] \in Int
    <3>1. x \in [Tone -> Tilt \cup {0}]
      OBVIOUS
    <3>2. x[t] \in Tilt \cup {0}
      BY <3>1, Zenon
    <3>3. QED
      BY <3>2, ReadingIsInt
  <2>2. frequency' \in [Tone -> 1..15]
    BY <1>5, <2>1, FrequencyInRange DEF ToneSet
  <2>3. QED
    BY <1>1, <1>5, <2>2 DEF ToneSet, ToneGoto, TonePc
<1>6. CASE ToneRaise(t)
  BY <1>1, <1>6 DEF ToneRaise, ToneGoto, TonePc
<1>7. CASE ToneWakeUp(t)
  BY <1>1, <1>7 DEF ToneWakeUp, ToneGoto, TonePc
<1>8. QED
  BY <1>2, <1>3, <1>4, <1>5, <1>6, <1>7 DEF ToneStep

(* One statement of a suspender. *)
LEMMA SuspenderStepKeepsInv ==
  ASSUME ToneInv, NEW t \in Tone, SuspenderStep(t)
  PROVE  ToneInv'
<1> USE DEF ToneInv, TypeOK, HolderIsReading, FlagMeansRest
<1>1. /\ UNCHANGED <<tpc, x, allowed, holder, cpc, ctone, cli, frequency>>
      /\ t \in Task /\ SuspenderOf[t] \in Task
  BY DEF SuspenderStep, tone_task, controller, Task, Suspender
<1>2. CASE SuspenderSees(t)
  BY <1>1, <1>2 DEF SuspenderSees, SuspenderGoto, SuspenderPc
<1>3. CASE SuspenderStops(t)
  BY <1>1, <1>3 DEF SuspenderStops, SuspenderGoto, SuspenderPc, VTaskSuspend
<1>4. CASE SuspenderSleeps(t)
  BY <1>1, <1>4 DEF SuspenderSleeps, SuspenderGoto, SuspenderPc, VTaskSuspend
<1>5. QED
  BY <1>2, <1>3, <1>4 DEF SuspenderStep

(* One step of the command line: the operator may stop any task anywhere,   *)
(* but moves no task's program counter and takes no mutex from anybody.     *)
LEMMA CliKeepsInv ==
  ASSUME ToneInv, CliStep
  PROVE  ToneInv'
<1>1. UNCHANGED <<tpc, x, allowed, spc, holder, cpc, ctone, frequency>>
  BY DEF CliStep, tone_task, controller
<1>2. suspended' \subseteq Task /\ cli' \in CliPc
  BY NamedAssumption
     DEF ToneInv, TypeOK, CliStep, CliSuspend, CliResume, CliI2c, CliTransfer,
         Resume, VTaskSuspend, VTaskResume, CliPc
<1>3. QED
  BY <1>1, <1>2 DEF ToneInv, TypeOK, HolderIsReading, FlagMeansRest

(* An input, or one statement of the controller. *)
LEMMA ControllerKeepsInv ==
  ASSUME ToneInv, ControllerExecute \/ Input
  PROVE  ToneInv'
<1> USE DEF ToneInv, TypeOK, HolderIsReading, FlagMeansRest
<1>1. /\ UNCHANGED <<tpc, x, allowed, spc, cli>>
      /\ Controller \notin Tone /\ Controller # NoOne /\ NoOne \notin Tone
  BY HolderAssumption DEF ControllerExecute, Input, tone_task, Task, Tone, Controller
<1>2. CASE ControllerTake
  BY <1>1, <1>2 DEF ControllerTake, Goto, ControllerPc
<1>3. CASE ReadSource
  BY <1>1, <1>3 DEF ReadSource, Goto, Finish, ControllerPc, Tone
<1>4. CASE ReadOrientation
  BY <1>1, <1>4 DEF ReadOrientation, Finish, ControllerPc, Tone
<1>5. CASE ResumeTone
  BY <1>1, <1>5 DEF ResumeTone, Resume, Finish, ControllerPc, Tone, VTaskResume
<1>6. CASE AskTone
  BY <1>1, <1>6 DEF AskTone, NextTone, Goto, Finish, ControllerPc, Tone
<1>7. CASE WakeSuspender
  BY <1>1, <1>7 DEF WakeSuspender, Resume, Goto, ControllerPc, VTaskResume
<1>8. CASE SetNormal
  <2>1. frequency' \in [Tone -> 1..15]
    BY <1>8, NormalInRange DEF SetNormal
  <2>2. QED
    BY <1>1, <1>8, <2>1 DEF SetNormal, NextTone, Finish, ControllerPc, Tone
<1>9. CASE Input
  BY <1>1, <1>9 DEF Input, OrientationChanged, Goto, ControllerPc
<1>10. QED
  BY <1>2, <1>3, <1>4, <1>5, <1>6, <1>7, <1>8, <1>9 DEF ControllerExecute

LEMMA StutterKeepsInv ==
  ASSUME ToneInv, UNCHANGED vars
  PROVE  ToneInv'
BY DEF vars, ToneInv, TypeOK, HolderIsReading, FlagMeansRest

(* The inductive invariant: types, who has the bus, and where a raised flag *)
(* finds its task.                                                          *)
THEOREM ToneInvariant == Spec => []ToneInv
<1>1. Init => ToneInv
  BY InitTone
<1>2. ToneInv /\ [Next]_vars => ToneInv'
  BY ToneStepKeepsInv, SuspenderStepKeepsInv, ControllerKeepsInv, CliKeepsInv,
     StutterKeepsInv
     DEF Next
<1>3. QED
  BY <1>1, <1>2, PTL DEF Spec

(* The fields of the decoder's register stay in 1..15 for any tilt of the   *)
(* board, with the wrap-around of 10 - |x| and the doubling of |x|.         *)
THEOREM ToneTypeCorrect == Spec => []TypeOK
<1>1. ToneInv => TypeOK
  BY DEF ToneInv
<1>2. QED
  BY <1>1, ToneInvariant, PTL

(* A tone task suspended while its flag is up neither has the bus nor is in *)
(* the middle of its settings, whether its suspender or the operator        *)
(* suspends it.                                                             *)
THEOREM SuspendedInTimeIsAtRestAlways == Spec => SuspendedInTimeIsAtRest
<1> DEFINE AtRest ==
      \A t \in Tone : t \in suspended' \ suspended /\ allowed[t] =>
        holder # t /\ tpc[t] \in {"delay", "lower"}
<1>1. ToneInv => AtRest
  BY DEF ToneInv, HolderIsReading, FlagMeansRest
<1>2. ToneInv /\ [Next]_vars => [AtRest]_vars
  BY <1>1
<1>3. QED
  BY <1>2, ToneInvariant, PTL DEF Spec, SuspendedInTimeIsAtRest

(* Once a task is suspended with the bus and the controller waits for it,   *)
(* that stays so through every step, but for the operator's resume.         *)
LEMMA LockedOutStays ==
  ASSUME ToneInv, LockedOut, Next
  PROVE  LockedOut' \/ (cli = "prompt" /\ holder \in suspended \ suspended')
<1> USE DEF LockedOut, BusIsStuck
<1>1. holder \in Tone /\ holder \in suspended /\ tpc[holder] = "read"
      /\ holder # NoOne /\ holder # Controller
  <2>1. holder \in suspended
    OBVIOUS
  <2>2. holder \in Task /\ NoOne \notin Task
    BY <2>1, HolderAssumption DEF ToneInv, TypeOK
  <2>3. holder # Controller
    BY DEF ToneInv, HolderIsReading
  <2>4. holder \in Tone
    BY <2>2, <2>3 DEF ToneInv, TypeOK
  <2>5. QED
    BY <2>1, <2>2, <2>3, <2>4 DEF ToneInv, HolderIsReading
<1>2. ASSUME NEW t \in Tone, ToneStep(t)
      PROVE  LockedOut'
  <2>1. t # holder /\ UNCHANGED <<suspended, cpc>>
    BY <1>1, <1>2 DEF ToneStep, controller
  <2>2. tpc[t] # "read"
    BY <2>1 DEF ToneInv, HolderIsReading
  <2>3. UNCHANGED holder
    BY <1>1, <1>2, <2>2
       DEF ToneStep, ToneLower, ToneTake, ToneRead, ToneSet, ToneRaise, ToneWakeUp
  <2>4. QED
    BY <1>1, <2>1, <2>3
<1>3. ASSUME NEW t \in Tone, SuspenderStep(t)
      PROVE  LockedOut'
  <2>1. UNCHANGED <<holder, cpc>> /\ suspended \subseteq suspended'
    BY <1>3 DEF SuspenderStep, SuspenderSees, SuspenderStops, SuspenderSleeps,
                VTaskSuspend, controller
  <2>2. QED
    BY <1>1, <2>1
<1>4. CASE ControllerExecute
  BY <1>1, <1>4
     DEF ControllerExecute, ControllerTake, ReadSource, ReadOrientation,
         ResumeTone, AskTone, WakeSuspender, SetNormal
<1>5. CASE Input
  BY <1>5 DEF Input, OrientationChanged
<1>6. CASE CliStep
  <2>1. UNCHANGED <<holder, cpc>>
    BY <1>6 DEF CliStep, controller
  <2>2. CASE holder \in suspended'
    BY <1>1, <2>1, <2>2
  <2>3. CASE holder \notin suspended'
    <3>1. cli = "prompt"
      BY <1>1, <1>6, <2>3
         DEF CliStep, CliSuspend, CliResume, CliI2c, CliTransfer, VTaskSuspend
    <3>2. QED
      BY <1>1, <2>3, <3>1
  <2>4. QED
    BY <2>2, <2>3
<1>7. QED
  BY <1>2, <1>3, <1>4, <1>5, <1>6 DEF Next

(* Whatever the operator may name: nothing but a resume, typed at the prompt *)
(* for the very task that has the bus, lets the controller go on.            *)
THEOREM OnlyOperatorEndsLockoutAlways == Spec => OnlyOperatorEndsLockout
<1>1. ToneInv /\ [Next]_vars =>
        [LockedOut => LockedOut' \/
           (cli = "prompt" /\ holder \in suspended \ suspended')]_vars
  BY LockedOutStays
<1>2. QED
  BY <1>1, ToneInvariant, PTL DEF Spec, OnlyOperatorEndsLockout
=============================================================================
