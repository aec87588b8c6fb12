--------------------------- MODULE Mp3PlayerProofs ---------------------------
(***************************************************************************)
(* Theorems about Mp3Player, for every set of names and files, every       *)
(* length of song and of queue, and with or without faults of the card.    *)
(***************************************************************************)
EXTENDS Mp3Player, RtosQueueTheorems

USE DEF ReaderPc, PlayerPc, ControllerPc, Controls,
        queues, flags, reader, player, controller, vars

(* Every variable keeps its type: the queues of main.c hold names and blocks *)
(* and never more than their lengths, whatever the tasks do.                 *)
LEMMA InitTypeOK == Init => TypeOK
<1> SUFFICES ASSUME Init PROVE TypeOK
  OBVIOUS
<1>1. /\ is_song_playing \in BOOLEAN /\ is_song_paused \in BOOLEAN
      /\ is_break_required \in BOOLEAN /\ is_on_player_screen \in BOOLEAN
      /\ suspended \in BOOLEAN /\ list_ready \in BOOLEAN
  BY Zenon DEF Init
<1>2. /\ q_songname \in QueueOf(Name, NameLength)
      /\ q_songname_previous \in QueueOf(Name, HistoryLength)
      /\ q_songdata \in QueueOf(Block \cup {NoBlock}, DataLength)
  BY LengthAssumption, EmptyIsBounded DEF Init
<1>3. QED
  BY <1>1, <1>2, NameAssumption DEF Init, TypeOK

LEMMA ReaderTypeOK == TypeOK /\ ReaderStep => TypeOK'
<1> SUFFICES ASSUME TypeOK, ReaderStep PROVE TypeOK'
  OBVIOUS
<1>0. ReaderFrame
  BY DEF ReaderStep
<1> USE <1>0 DEF TypeOK, ReaderFrame
<1>1. CASE ReaderReceive
  BY <1>1, ReceiveStaysBounded, LengthAssumption DEF ReaderReceive
<1>2. CASE ReaderSkip
  BY <1>2 DEF ReaderSkip
<1>3. CASE ReaderOpen
  BY <1>3, ContentAssumption DEF ReaderOpen
<1>4. CASE ReaderSetPlaying
  BY <1>4 DEF ReaderSetPlaying
<1>5. CASE ReaderShow
  BY <1>5 DEF ReaderShow
<1>6. CASE ReaderEof
  BY <1>6 DEF ReaderEof
<1>7. CASE ReaderBreak
  BY <1>7 DEF ReaderBreak
<1>8. CASE ReaderRead
  BY <1>8, HeadTailProperties DEF ReaderRead
<1>9. CASE ReaderSend
  BY <1>9, AppendStaysBounded, LengthAssumption DEF ReaderSend
<1>10. CASE ReaderReset
  BY <1>10, EmptyIsBounded, LengthAssumption DEF ReaderReset, Reset
<1>11. CASE ReaderClose
  BY <1>11 DEF ReaderClose
<1>12. CASE ReaderRemember
  BY <1>12, SendToFrontStaysBounded, LengthAssumption
     DEF ReaderRemember
<1>13. CASE ReaderClearPlaying
  <2>1. is_song_playing' \in BOOLEAN
    BY <1>13, Zenon DEF ReaderClearPlaying
  <2>2. QED
    BY <1>13, <2>1 DEF ReaderClearPlaying
<1>14. CASE ReaderClearBreak
  <2>1. is_break_required' \in BOOLEAN
    BY <1>14, Zenon DEF ReaderClearBreak
  <2>2. QED
    BY <1>14, <2>1 DEF ReaderClearBreak
<1>15. CASE ReaderClearPaused
  <2>1. is_song_paused' \in BOOLEAN
    BY <1>15, Zenon DEF ReaderClearPaused
  <2>2. QED
    BY <1>15, <2>1 DEF ReaderClearPaused
<1>16. CASE ReaderShowEnd
  BY <1>16 DEF ReaderShowEnd
<1>17. QED
  BY <1>1, <1>2, <1>3, <1>4, <1>5, <1>6, <1>7, <1>8, <1>9, <1>10, <1>11, <1>12,
     <1>13, <1>14, <1>15, <1>16 DEF ReaderStep

LEMMA PlayerTypeOK == TypeOK /\ PlayerStep => TypeOK'
<1> SUFFICES ASSUME TypeOK, PlayerStep PROVE TypeOK'
  OBVIOUS
<1> USE DEF TypeOK
<1>1. CASE PlayerReceive
  BY <1>1, ReceiveStaysBounded, LengthAssumption DEF PlayerStep, PlayerReceive
<1>2. CASE PlayerPlay
  BY <1>2 DEF PlayerStep, PlayerPlay
<1>3. QED
  BY <1>1, <1>2 DEF PlayerStep

(* What a decoded input changes: a control and a song are chosen. *)
LEMMA DecodeTypeOK ==
  ASSUME TypeOK, ControllerFrame, NEW c \in Controls \ {"do_nothing"},
         NEW song \in Name, Decode(c, song)
  PROVE  TypeOK'
<1>1. FirstStatement(c) \in ControllerPc
  BY DEF FirstStatement
<1>2. QED
  BY <1>1 DEF TypeOK, Decode, ControllerFrame

LEMMA InputTypeOK == TypeOK /\ ControllerInput /\ ControllerFrame => TypeOK'
<1> SUFFICES ASSUME TypeOK, ControllerInput, ControllerFrame PROVE TypeOK'
  OBVIOUS
<1>1. NoName \in Name /\ ListedSong \subseteq Name
  BY NameAssumption DEF ListedSong
<1>2. PICK c \in Controls \ {"do_nothing"}, song \in Name : Decode(c, song)
  <2>1. CASE RotaryButton
    BY <1>1, <2>1 DEF RotaryButton
  <2>2. CASE LeftButton
    BY <1>1, <2>2 DEF LeftButton
  <2>3. CASE RightButton
    BY <1>1, <2>3 DEF RightButton
  <2>4. CASE TiltRight
    BY <1>1, <2>4 DEF TiltRight
  <2>5. CASE TiltLeft
    BY <1>1, <2>5 DEF TiltLeft
  <2>6. CASE TiltBack
    BY <1>1, <2>6 DEF TiltBack
  <2>7. CASE TiltUpOrDown
    BY <1>1, <2>7 DEF TiltUpOrDown
  <2>8. QED
    BY <2>1, <2>2, <2>3, <2>4, <2>5, <2>6, <2>7 DEF ControllerInput
<1>3. QED
  BY <1>2, DecodeTypeOK

LEMMA ExecuteTypeOK == TypeOK /\ ControllerExecute /\ ControllerFrame => TypeOK'
<1> SUFFICES ASSUME TypeOK, ControllerExecute, ControllerFrame PROVE TypeOK'
  OBVIOUS
<1> USE NameAssumption, LengthAssumption
    DEF TypeOK, ControllerFrame, Goto, Finish
<1>1. CASE EnqueueSong
  BY <1>1, SendToBackStaysBounded DEF EnqueueSong
<1>2. CASE PopHistory
  <2>1. CASE CanReceive(q_songname_previous)
    <3>1. /\ Head(q_songname_previous) \in Name
          /\ Tail(q_songname_previous) \in QueueOf(Name, HistoryLength)
      BY <2>1, ReceiveStaysBounded
    <3>2. /\ choice' \in Name
          /\ q_songname_previous' \in QueueOf(Name, HistoryLength)
          /\ cpc' = "request"
          /\ UNCHANGED <<q_songname, flags, is_on_player_screen, icon,
                         suspended, control>>
      BY <1>2, <2>1, <3>1, Zenon DEF PopHistory
    <3>3. QED
      BY <3>2
  <2>2. CASE ~CanReceive(q_songname_previous)
    BY <1>2, <2>2 DEF PopHistory
  <2>3. QED
    BY <2>1, <2>2
<1>3. CASE RequestSong
  BY <1>3, SendToFrontStaysBounded DEF RequestSong
<1>4. CASE CheckPlaying
  BY <1>4 DEF CheckPlaying
<1>5. CASE StopSetBreak
  BY <1>5 DEF StopSetBreak
<1>6. CASE StopClearPlaying
  <2>1. is_song_playing' \in BOOLEAN
    BY <1>6, Zenon DEF StopClearPlaying
  <2>2. QED
    BY <1>6, <2>1 DEF StopClearPlaying
<1>7. CASE StopClearPaused
  <2>1. is_song_paused' \in BOOLEAN
    BY <1>7, Zenon DEF StopClearPaused
  <2>2. QED
    BY <1>7, <2>1 DEF StopClearPaused
<1>8. CASE SetPlaying
  BY <1>8 DEF SetPlaying
<1>9. CASE ResumePlayer
  <2>1. suspended' \in BOOLEAN
    BY <1>9, Zenon DEF ResumePlayer
  <2>2. QED
    BY <1>9, <2>1 DEF ResumePlayer
<1>10. CASE ResumeClearPaused
  <2>1. is_song_paused' \in BOOLEAN
    BY <1>10, Zenon DEF ResumeClearPaused
  <2>2. QED
    BY <1>10, <2>1 DEF ResumeClearPaused
<1>11. CASE ShowPlaying
  BY <1>11 DEF ShowPlaying
<1>12. CASE GoToPlayerScreen
  BY <1>12 DEF GoToPlayerScreen
<1>13. CASE RememberInterrupted
  BY <1>13, SendToFrontStaysBounded DEF RememberInterrupted
<1>14. CASE GoToSongListScreen
  <2>1. is_on_player_screen' \in BOOLEAN
    BY <1>14, Zenon DEF GoToSongListScreen
  <2>2. QED
    BY <1>14, <2>1 DEF GoToSongListScreen
<1>15. CASE SuspendPlayer
  BY <1>15 DEF SuspendPlayer
<1>16. CASE SetPaused
  BY <1>16 DEF SetPaused
<1>17. CASE ShowPaused
  BY <1>17 DEF ShowPaused
<1>18. QED
  BY <1>1, <1>2, <1>3, <1>4, <1>5, <1>6, <1>7, <1>8, <1>9, <1>10, <1>11, <1>12,
     <1>13, <1>14, <1>15, <1>16, <1>17 DEF ControllerExecute

(* The queues and the flags keep their types and their bounds in every       *)
(* execution of the three tasks.                                             *)
THEOREM TypeCorrect == Spec => []TypeOK
<1>1. TypeOK /\ [Next]_vars => TypeOK'
  <2> SUFFICES ASSUME TypeOK, [Next]_vars PROVE TypeOK'
    OBVIOUS
  <2>1. CASE ReaderStep
    BY <2>1, ReaderTypeOK
  <2>2. CASE PlayerStep
    BY <2>2, PlayerTypeOK
  <2>3. CASE ControllerStep
    BY <2>3, InputTypeOK, ExecuteTypeOK DEF ControllerStep
  <2>4. CASE PopulateList
    BY <2>4 DEF TypeOK, PopulateList
  <2>5. CASE CliPlay
    BY <2>5, NameAssumption, LengthAssumption, AppendStaysBounded
       DEF TypeOK, CliPlay
  <2>6. CASE UNCHANGED vars
    BY <2>6 DEF TypeOK
  <2>7. QED
    BY <2>1, <2>2, <2>3, <2>4, <2>5, <2>6 DEF Next
<1>2. QED
  BY InitTypeOK, <1>1, PTL DEF Spec

-----------------------------------------------------------------------------
(* The flags.  The reader and the controller both write them, without a      *)
(* lock; the invariant says what each may rely on between its own writes.    *)

FlagInv ==
  /\ PausedMeansSuspended
  /\ cpc = "set_paused" => suspended
  /\ StreamingMeansPlaying
  /\ BreakMeansPlaying

LEMMA ReaderKeepsFlags == FlagInv /\ ReaderStep => FlagInv'
<1> SUFFICES ASSUME FlagInv, ReaderStep PROVE FlagInv'
  OBVIOUS
<1>1. UNCHANGED <<suspended, cpc>>
  BY DEF ReaderStep, ReaderFrame
<1>2. PausedMeansSuspended'
  <2>1. is_song_paused' = is_song_paused \/ is_song_paused' = FALSE
    BY DEF ReaderStep, ReaderReceive, ReaderSkip, ReaderOpen, ReaderSetPlaying,
       ReaderShow, ReaderEof, ReaderBreak, ReaderRead, ReaderSend, ReaderReset,
       ReaderClose, ReaderRemember, ReaderClearPlaying, ReaderClearBreak,
       ReaderClearPaused, ReaderShowEnd
  <2>2. QED
    BY <1>1, <2>1 DEF FlagInv, PausedMeansSuspended
<1>3. (cpc = "set_paused" => suspended)'
  BY <1>1 DEF FlagInv
<1>4. CASE ReaderSetPlaying
  BY <1>1, <1>2, <1>4
     DEF FlagInv, ReaderSetPlaying, StreamingMeansPlaying, BreakMeansPlaying, Streaming
<1>5. CASE ReaderClearPlaying
  BY <1>1, <1>2, <1>5
     DEF FlagInv, ReaderClearPlaying, StreamingMeansPlaying, BreakMeansPlaying,
         Streaming
<1>6. CASE ReaderClearBreak
  BY <1>1, <1>2, <1>6
     DEF FlagInv, ReaderClearBreak, StreamingMeansPlaying, BreakMeansPlaying, Streaming
<1>7. CASE ~(ReaderSetPlaying \/ ReaderClearPlaying \/ ReaderClearBreak)
  <2>1. /\ UNCHANGED <<is_song_playing, is_break_required>>
        /\ Streaming' => Streaming
        /\ rpc # "clear_break"
    BY <1>7 DEF ReaderStep, ReaderReceive, ReaderSkip, ReaderOpen, ReaderShow,
       ReaderEof, ReaderBreak, ReaderRead, ReaderSend, ReaderReset, ReaderClose,
       ReaderRemember, ReaderClearPaused, ReaderShowEnd, Streaming
  <2>2. QED
    BY <1>1, <1>2, <2>1 DEF FlagInv, StreamingMeansPlaying, BreakMeansPlaying
<1>8. QED
  BY <1>4, <1>5, <1>6, <1>7

LEMMA ExecuteKeepsFlags ==
  FlagInv /\ ControllerExecute /\ ControllerFrame => FlagInv'
<1> SUFFICES ASSUME FlagInv, ControllerExecute, ControllerFrame PROVE FlagInv'
  OBVIOUS
<1> USE DEF FlagInv, PausedMeansSuspended, StreamingMeansPlaying,
            BreakMeansPlaying, Streaming, ControllerFrame, Goto, Finish
<1>1. CASE EnqueueSong
  BY <1>1 DEF EnqueueSong
<1>2. CASE PopHistory
  BY <1>2 DEF PopHistory
<1>3. CASE RequestSong
  BY <1>3 DEF RequestSong
<1>4. CASE CheckPlaying
  BY <1>4 DEF CheckPlaying
<1>5. CASE StopSetBreak
  BY <1>5 DEF StopSetBreak
<1>6. CASE StopClearPlaying
  BY <1>6 DEF StopClearPlaying
<1>7. CASE StopClearPaused
  BY <1>7 DEF StopClearPaused
<1>8. CASE SetPlaying
  BY <1>8 DEF SetPlaying
<1>9. CASE ResumePlayer
  BY <1>9 DEF ResumePlayer
<1>10. CASE ResumeClearPaused
  BY <1>10 DEF ResumeClearPaused
<1>11. CASE ShowPlaying
  BY <1>11 DEF ShowPlaying
<1>12. CASE GoToPlayerScreen
  BY <1>12 DEF GoToPlayerScreen
<1>13. CASE RememberInterrupted
  BY <1>13 DEF RememberInterrupted
<1>14. CASE GoToSongListScreen
  BY <1>14 DEF GoToSongListScreen
<1>15. CASE SuspendPlayer
  BY <1>15 DEF SuspendPlayer
<1>16. CASE SetPaused
  BY <1>16 DEF SetPaused
<1>17. CASE ShowPaused
  BY <1>17 DEF ShowPaused
<1>18. QED
  BY <1>1, <1>2, <1>3, <1>4, <1>5, <1>6, <1>7, <1>8, <1>9, <1>10, <1>11, <1>12,
     <1>13, <1>14, <1>15, <1>16, <1>17 DEF ControllerExecute

LEMMA InputKeepsFlags ==
  FlagInv /\ ControllerInput /\ ControllerFrame => FlagInv'
<1> SUFFICES ASSUME FlagInv, ControllerInput, ControllerFrame PROVE FlagInv'
  OBVIOUS
<1>1. PICK c \in Controls \ {"do_nothing"}, song \in ListedSong \cup {NoName} : Decode(c, song)
  BY DEF ControllerInput, RotaryButton, LeftButton, RightButton, TiltRight,
         TiltLeft, TiltBack, TiltUpOrDown
<1>2. /\ cpc = "decode" /\ cpc' # "set_paused"
      /\ UNCHANGED <<flags, suspended, rpc>>
  BY <1>1 DEF Decode, FirstStatement, ControllerFrame
<1>3. QED
  BY <1>2 DEF FlagInv, PausedMeansSuspended, StreamingMeansPlaying,
              BreakMeansPlaying, Streaming

(* In every execution, a paused flag means a suspended player, a streaming   *)
(* song shows as playing, and a break asked for never outlives the playing   *)
(* flag, up to the windows the three definitions name.                       *)
THEOREM FlagsCoherent == Spec => []FlagInv
<1>1. Init => FlagInv
  BY DEF Init, FlagInv, PausedMeansSuspended, StreamingMeansPlaying,
         BreakMeansPlaying, Streaming
<1>2. FlagInv /\ [Next]_vars => FlagInv'
  <2> SUFFICES ASSUME FlagInv, [Next]_vars PROVE FlagInv'
    OBVIOUS
  <2>1. CASE ReaderStep
    BY <2>1, ReaderKeepsFlags
  <2>2. CASE ControllerStep
    BY <2>2, ExecuteKeepsFlags, InputKeepsFlags DEF ControllerStep
  <2>3. CASE PlayerStep \/ PopulateList \/ CliPlay \/ UNCHANGED vars
    BY <2>3 DEF PlayerStep, PopulateList, CliPlay, FlagInv,
                PausedMeansSuspended, StreamingMeansPlaying, BreakMeansPlaying,
                Streaming
  <2>4. QED
    BY <2>1, <2>2, <2>3 DEF Next
<1>3. QED
  BY <1>1, <1>2, PTL DEF Spec

(* The three parts, under the names the model-checking runs use. *)
COROLLARY PausedMeansSuspendedAlways == Spec => []PausedMeansSuspended
<1>1. FlagInv => PausedMeansSuspended
  BY DEF FlagInv
<1>2. QED
  BY <1>1, FlagsCoherent, PTL

COROLLARY StreamingMeansPlayingAlways == Spec => []StreamingMeansPlaying
<1>1. FlagInv => StreamingMeansPlaying
  BY DEF FlagInv
<1>2. QED
  BY <1>1, FlagsCoherent, PTL

COROLLARY BreakMeansPlayingAlways == Spec => []BreakMeansPlaying
<1>1. FlagInv => BreakMeansPlaying
  BY DEF FlagInv
<1>2. QED
  BY <1>1, FlagsCoherent, PTL

-----------------------------------------------------------------------------
(* The audio path.                                                           *)

(* Outside the read loop there is nothing left to read. *)
FileInv == file # << >> => rpc \in {"set_playing", "show", "loop", "send", "reset"}

LEMMA FileClosed == Spec => []FileInv
<1>1. Init => FileInv
  BY DEF Init, FileInv
<1>2. FileInv /\ [Next]_vars => FileInv'
  <2> SUFFICES ASSUME FileInv, [Next]_vars PROVE FileInv'
    OBVIOUS
  <2>1. CASE ReaderStep
    BY <2>1 DEF FileInv, ReaderStep, ReaderReceive, ReaderSkip, ReaderOpen,
       ReaderSetPlaying, ReaderShow, ReaderEof, ReaderBreak, ReaderRead,
       ReaderSend, ReaderReset, ReaderClose, ReaderRemember,
       ReaderClearPlaying, ReaderClearBreak, ReaderClearPaused, ReaderShowEnd
  <2>2. CASE ~ReaderStep
    BY <2>2 DEF FileInv, Next, PlayerStep, ControllerStep, ControllerFrame,
       PopulateList, CliPlay
  <2>3. QED
    BY <2>1, <2>2
<1>3. QED
  BY <1>1, <1>2, PTL DEF Spec

(* Facts on sequences the refinement rests on. *)
LEMMA ConcatFacts ==
  ASSUME NEW S, NEW q \in Seq(S), NEW f \in Seq(S), NEW b \in S
  PROVE  /\ q \o << >> = q
         /\ << >> \o q = q
         /\ Append(q, b) = q \o <<b>>
         /\ f # << >> => (q \o <<Head(f)>>) \o Tail(f) = q \o f
         /\ q # << >> => /\ q \o f # << >>
                        /\ Head(q \o f) = Head(q)
                        /\ Tail(q \o f) = Tail(q) \o f
<1>1. q \o << >> = q /\ << >> \o q = q
  OBVIOUS
<1>2. Append(q, b) = q \o <<b>>
  OBVIOUS
<1>3. f # << >> => (q \o <<Head(f)>>) \o Tail(f) = q \o f
  OBVIOUS
<1>4. q # << >> => /\ q \o f # << >>
                  /\ Head(q \o f) = Head(q)
                  /\ Tail(q \o f) = Tail(q) \o f
  OBVIOUS
<1>5. QED
  BY <1>1, <1>2, <1>3, <1>4

(* The three parts of the stream are sequences over the same set. *)
LEMMA StreamParts ==
  ASSUME TypeOK
  PROVE  LET S == Block \cup {NoBlock}
         IN  /\ q_songdata \in Seq(S) /\ file \in Seq(S) /\ buffer \in S
             /\ InFlight \in Seq(S)
<1> DEFINE S == Block \cup {NoBlock}
<1>1. file \in Seq(S)
  <2>1. file \in Seq(Block) /\ Block \subseteq S
    BY DEF TypeOK
  <2>2. QED
    BY <2>1, SeqMonotonic
<1>2. q_songdata \in Seq(S) /\ buffer \in S
  BY DEF TypeOK, QueueOf
<1>3. InFlight \in Seq(S)
  <2>1. <<buffer>> \in Seq(S) /\ << >> \in Seq(S)
    BY <1>2
  <2>2. QED
    BY <2>1, Zenon DEF InFlight
<1>4. QED
  BY <1>1, <1>2, <1>3

Pending == q_songdata \o InFlight \o file

AudioStep == [Audio!StreamNext]_<<Pending, playing_block>>

(* The statements of the reader: opening a file puts its blocks on the       *)
(* stream, a reset cuts the stream, reading and sending only move blocks.    *)
LEMMA ReaderRefines ==
  ASSUME ~DiskFaults, TypeOK, FileInv, ReaderStep
  PROVE  AudioStep
<1> DEFINE S == Block \cup {NoBlock}
<1>1. /\ q_songdata \in Seq(S) /\ file \in Seq(S) /\ buffer \in S
      /\ InFlight \in Seq(S)
  BY StreamParts
<1>2. UNCHANGED playing_block
  BY DEF ReaderStep, ReaderFrame
<1>3. CASE ReaderOpen
  <2>1. /\ file = << >> /\ InFlight = << >> /\ InFlight' = << >>
        /\ file' = Content[filename] /\ filename \in Files
        /\ q_songdata' = q_songdata
    BY <1>3 DEF ReaderOpen, FileInv, InFlight
  <2>2. Content[filename] \in Seq(S)
    BY <2>1, ContentAssumption
  <2>3. Pending = q_songdata /\ Pending' = q_songdata \o Content[filename]
    BY <1>1, <2>1, ConcatFacts DEF Pending
  <2>4. Audio!BeginSong(filename)
    BY <1>2, <2>3 DEF Audio!BeginSong, Pending
  <2>5. QED
    BY <2>1, <2>4 DEF Audio!StreamNext, AudioStep
<1>4. CASE ReaderRead
  <2>1. /\ file # << >> /\ InFlight = << >> /\ InFlight' = <<Head(file)>>
        /\ file' = Tail(file) /\ q_songdata' = q_songdata
    BY <1>4 DEF ReaderRead, InFlight
  <2>2. Pending' = Pending
    BY <1>1, <2>1, ConcatFacts DEF Pending
  <2>3. QED
    BY <1>2, <2>2 DEF AudioStep
<1>5. CASE ReaderSend
  <2>1. /\ InFlight = <<buffer>> /\ InFlight' = << >>
        /\ file' = file /\ q_songdata' = Append(q_songdata, buffer)
    BY <1>5 DEF ReaderSend, InFlight
  <2>2. Append(q_songdata, buffer) \in Seq(S)
    BY <1>1
  <2>3. Pending' = Pending
    BY <1>1, <2>1, <2>2, ConcatFacts DEF Pending
  <2>4. QED
    BY <1>2, <2>3 DEF AudioStep
<1>6. CASE ReaderReset
  <2>1. InFlight' = << >> /\ file' = << >> /\ q_songdata' = << >>
    BY <1>6 DEF ReaderReset, InFlight, Reset
  <2>2. Pending' = << >>
    BY <2>1 DEF Pending
  <2>3. Audio!CutSound
    BY <1>2, <2>2 DEF Audio!CutSound, Pending
  <2>4. QED
    BY <2>3 DEF Audio!StreamNext, AudioStep
<1>7. CASE ~(ReaderOpen \/ ReaderRead \/ ReaderSend \/ ReaderReset)
  <2>1. /\ rpc # "send" /\ rpc' # "send"
        /\ UNCHANGED <<q_songdata, file>>
    BY <1>7 DEF ReaderStep, ReaderReceive, ReaderSkip, ReaderSetPlaying,
       ReaderShow, ReaderEof, ReaderBreak, ReaderClose, ReaderRemember,
       ReaderClearPlaying, ReaderClearBreak, ReaderClearPaused, ReaderShowEnd
  <2>2. Pending' = Pending
    BY <2>1 DEF Pending, InFlight
  <2>3. QED
    BY <1>2, <2>2 DEF AudioStep
<1>8. QED
  BY <1>3, <1>4, <1>5, <1>6, <1>7

LEMMA PlayerRefines ==
  ASSUME TypeOK, PlayerStep
  PROVE  AudioStep
<1> DEFINE S == Block \cup {NoBlock}
<1>1. /\ q_songdata \in Seq(S) /\ InFlight \in Seq(S) /\ file \in Seq(S)
  BY StreamParts
<1>2. UNCHANGED <<rpc, file, buffer>> /\ InFlight' = InFlight
  BY DEF PlayerStep, InFlight
<1>3. CASE PlayerReceive
  <2>1. /\ q_songdata # << >> /\ playing_block' = Head(q_songdata)
        /\ q_songdata' = Tail(q_songdata)
    BY <1>3 DEF PlayerReceive, CanReceive
  <2>2. q_songdata \o InFlight \in Seq(S) /\ q_songdata \o InFlight # << >>
    BY <1>1, <2>1, ConcatFacts
  <2>3. /\ Head(q_songdata \o InFlight) = Head(q_songdata)
        /\ Tail(q_songdata \o InFlight) = Tail(q_songdata) \o InFlight
    BY <1>1, <2>1, ConcatFacts
  <2>4. /\ Pending # << >>
        /\ Head(Pending) = Head(q_songdata \o InFlight)
        /\ Tail(Pending) = Tail(q_songdata \o InFlight) \o file
    BY <1>1, <2>2, ConcatFacts DEF Pending
  <2>5. Pending' = Tail(Pending) /\ playing_block' = Head(Pending)
    BY <1>2, <2>1, <2>3, <2>4 DEF Pending
  <2>6. Audio!Hear
    BY <2>4, <2>5 DEF Audio!Hear, Pending
  <2>7. QED
    BY <2>6 DEF Audio!StreamNext, AudioStep
<1>4. CASE PlayerPlay
  BY <1>2, <1>4 DEF PlayerPlay, AudioStep, Pending
<1>5. QED
  BY <1>3, <1>4 DEF PlayerStep

(* With a card that does not fail, the reader, q_songdata and the player     *)
(* together are an audio stream: whatever the controller and the CLI do and  *)
(* however the tasks interleave, no block is lost, repeated or reordered,    *)
(* and only the reset that follows a break removes sound.                    *)
THEOREM AudioIsInOrder ==
  ASSUME ~DiskFaults
  PROVE  Spec => AudioInOrder
<1>1. Init => Audio!StreamInit
  <2> SUFFICES ASSUME Init PROVE Audio!StreamInit
    OBVIOUS
  <2>1. q_songdata = << >> /\ InFlight = << >> /\ file = << >>
    BY DEF Init, InFlight
  <2>2. QED
    BY <2>1 DEF Init, Audio!StreamInit
<1>2. TypeOK /\ FileInv /\ [Next]_vars => AudioStep
  <2> SUFFICES ASSUME TypeOK, FileInv, [Next]_vars PROVE AudioStep
    OBVIOUS
  <2>1. CASE ReaderStep
    BY <2>1, ReaderRefines
  <2>2. CASE PlayerStep
    BY <2>2, PlayerRefines
  <2>3. CASE ControllerStep \/ PopulateList \/ CliPlay \/ UNCHANGED vars
    BY <2>3 DEF ControllerStep, ControllerFrame, PopulateList, CliPlay,
                AudioStep, Pending, InFlight
  <2>4. QED
    BY <2>1, <2>2, <2>3 DEF Next
<1>3. QED
  BY <1>1, <1>2, TypeCorrect, FileClosed, PTL
     DEF Spec, AudioInOrder, Audio!StreamSpec, AudioStep, Pending
=============================================================================
