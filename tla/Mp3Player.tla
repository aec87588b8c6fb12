------------------------------ MODULE Mp3Player ------------------------------
(***************************************************************************)
(* The core of the player: the reader task, the player task and the        *)
(* controller task of main.c, and mp3_controller.c which they share.  All  *)
(* three have the same priority and are time-sliced, so they interleave    *)
(* between any two statements: a step below makes one access to the shared *)
(* flags, the shared queues or the scheduler.                              *)
(*                                                                         *)
(* Not here: what the screen draws and its queue (the icon the controller  *)
(* last asked for is kept), the tone tasks, the volume, and the decoder    *)
(* bus.  A block stands for the 512 bytes one f_read returns.              *)
(***************************************************************************)
EXTENDS RtosQueue

CONSTANTS
  Name,          \* file names a queue can carry
  NoName,        \* "": `filename` before the first song, and the name of an
                 \* item beyond the end of the song list
  Files,         \* the names f_open succeeds on
  SongList,      \* the names mp3_song_list__populate finds
  CliNames,      \* the names typed at the CLI's play command
  Block,         \* blocks of audio
  NoBlock,       \* the contents of a buffer nothing was read into
  Content,       \* Content[f]: the blocks of file f after its metadata
  NameLength,    \* length of q_songname (10)
  HistoryLength, \* length of q_songname_previous (10)
  DataLength,    \* length of q_songdata (2)
  DiskFaults     \* may the card refuse an f_open or an f_read?

ASSUME NameAssumption ==
  /\ NoName \in Name \ Files
  /\ Files \subseteq Name
  /\ SongList \subseteq Name
  /\ CliNames \subseteq Name
ASSUME ContentAssumption ==
  /\ NoBlock \notin Block
  /\ Content \in [Files -> Seq(Block)]
ASSUME LengthAssumption ==
  /\ {NameLength, HistoryLength, DataLength} \subseteq Nat \ {0}
  /\ DiskFaults \in BOOLEAN

VARIABLES
  q_songname, q_songname_previous, q_songdata,
  filename,           \* the global the reader receives names into
  is_song_playing, is_song_paused, is_break_required, is_on_player_screen,
  icon,               \* mp3_oled_screen.is_song_paused: the icon to draw
  suspended,          \* is the player task suspended?
  list_ready,         \* has the screen task populated the song list?
  rpc, file, buffer,  \* reader: next statement, blocks not read yet, buffer
  ppc, playing_block, \* player: next statement, the block it received
  cpc, control, choice \* controller: next statement, control, its song

queues == <<q_songname, q_songname_previous, q_songdata>>
flags == <<is_song_playing, is_song_paused, is_break_required>>
reader == <<rpc, file, buffer>>
player == <<ppc, playing_block>>
controller == <<cpc, control, choice>>
vars == <<queues, filename, flags, is_on_player_screen, icon, suspended,
          list_ready, reader, player, controller>>

ReaderPc == {"receive", "open", "set_playing", "show", "loop", "send", "reset",
             "close", "remember", "clear_playing", "clear_break",
             "clear_paused", "show_end"}
PlayerPc == {"receive", "play"}
Controls == {"show_songs", "show_player", "play_song", "play_enqueued_song",
             "play_previous_song", "enqueue_song", "pause_song", "resume_song",
             "set_tone", "do_nothing"}
ControllerPc == {"decode", "enqueue", "request", "pop", "check", "set_break",
                 "stop_playing", "stop_paused", "set_playing", "resume",
                 "clear_paused", "show_playing", "player_screen", "remember",
                 "suspend", "set_paused", "show_paused", "list_screen"}

TypeOK ==
  /\ q_songname \in QueueOf(Name, NameLength)
  /\ q_songname_previous \in QueueOf(Name, HistoryLength)
  /\ q_songdata \in QueueOf(Block \cup {NoBlock}, DataLength)
  /\ filename \in Name
  /\ is_song_playing \in BOOLEAN
  /\ is_song_paused \in BOOLEAN
  /\ is_break_required \in BOOLEAN
  /\ is_on_player_screen \in BOOLEAN
  /\ icon \in {"play", "pause"}
  /\ suspended \in BOOLEAN
  /\ list_ready \in BOOLEAN
  /\ rpc \in ReaderPc
  /\ file \in Seq(Block)
  /\ buffer \in Block \cup {NoBlock}
  /\ ppc \in PlayerPc
  /\ playing_block \in Block \cup {NoBlock}
  /\ cpc \in ControllerPc
  /\ control \in Controls
  /\ choice \in Name

Init ==
  /\ q_songname = << >> /\ q_songname_previous = << >> /\ q_songdata = << >>
  /\ filename = NoName
  /\ is_song_playing = FALSE
  /\ is_song_paused = FALSE
  /\ is_break_required = FALSE
  /\ is_on_player_screen = FALSE
  /\ icon = "play"
  /\ suspended = FALSE
  /\ list_ready = FALSE
  /\ rpc = "receive" /\ file = << >> /\ buffer = NoBlock
  /\ ppc = "receive" /\ playing_block = NoBlock
  /\ cpc = "decode" /\ control = "do_nothing" /\ choice = NoName

-----------------------------------------------------------------------------
(* mp3_reader_task: each action is followed by the statement it goes to and *)
(* by what it leaves alone of the state the reader can write at all.        *)

(* Waits for a name; the item is copied into the global `filename`. *)
ReaderReceive ==
  /\ rpc = "receive"
  /\ CanReceive(q_songname)
  /\ filename' = Head(q_songname)
  /\ q_songname' = Tail(q_songname)
  /\ rpc' = "open"
  /\ UNCHANGED <<q_songname_previous, q_songdata, flags, icon, file, buffer>>

(* The name cannot be opened: the reader goes back to its queue and leaves *)
(* the flags the controller set for this song as they are.                 *)
ReaderSkip ==
  /\ rpc = "open"
  /\ filename \notin Files \/ DiskFaults
  /\ rpc' = "receive"
  /\ UNCHANGED <<queues, filename, flags, icon, file, buffer>>

(* The file is opened, its metadata decoded and skipped. *)
ReaderOpen ==
  /\ rpc = "open"
  /\ filename \in Files
  /\ file' = Content[filename]
  /\ rpc' = "set_playing"
  /\ UNCHANGED <<queues, filename, flags, icon, buffer>>

(* song_begin, first the flag ... *)
ReaderSetPlaying ==
  /\ rpc = "set_playing"
  /\ is_song_playing' = TRUE
  /\ rpc' = "show"
  /\ UNCHANGED <<queues, filename, is_song_paused, is_break_required, icon,
                 file, buffer>>

(* ... then the icon, which changes whichever screen the user is on. *)
ReaderShow ==
  /\ rpc = "show"
  /\ icon' = "pause"
  /\ rpc' = "loop"
  /\ UNCHANGED <<queues, filename, flags, file, buffer>>

(* The head of the read loop: end of file, a break, or one more block. *)
ReaderEof ==
  /\ rpc = "loop"
  /\ file = << >>
  /\ rpc' = "close"
  /\ UNCHANGED <<queues, filename, flags, icon, file, buffer>>

ReaderBreak ==
  /\ rpc = "loop"
  /\ file # << >>
  /\ is_break_required
  /\ rpc' = "reset"
  /\ UNCHANGED <<queues, filename, flags, icon, file, buffer>>

(* The result of f_read is not looked at: when the card refuses, the file  *)
(* position stays and the buffer is sent as it is.                         *)
ReaderRead ==
  /\ rpc = "loop"
  /\ file # << >>
  /\ ~is_break_required
  /\ \/ buffer' = Head(file) /\ file' = Tail(file)
     \/ DiskFaults /\ UNCHANGED <<file, buffer>>
  /\ rpc' = "send"
  /\ UNCHANGED <<queues, filename, flags, icon>>

(* Mutant: the block is sent with timeout 0 and dropped when there is no room. *)
ReaderSendNoWait ==
  /\ rpc = "send"
  /\ q_songdata' = SendToBack(q_songdata, DataLength, buffer)
  /\ rpc' = "loop"
  /\ UNCHANGED <<q_songname, q_songname_previous, filename, flags, icon,
                 file, buffer>>

ReaderSend ==
  /\ rpc = "send"
  /\ CanSend(q_songdata, DataLength)
  /\ q_songdata' = Append(q_songdata, buffer)
  /\ rpc' = "loop"
  /\ UNCHANGED <<q_songname, q_songname_previous, filename, flags, icon,
                 file, buffer>>

(* xQueueReset(q_songdata) and break: the rest of the file is not read. *)
ReaderReset ==
  /\ rpc = "reset"
  /\ q_songdata' = Reset
  /\ file' = << >>
  /\ rpc' = "close"
  /\ UNCHANGED <<q_songname, q_songname_previous, filename, flags, icon, buffer>>

(* The break flag is read a second time after f_close. *)
ReaderClose ==
  /\ rpc = "close"
  /\ rpc' = IF is_break_required THEN "clear_playing" ELSE "remember"
  /\ UNCHANGED <<queues, filename, flags, icon, file, buffer>>

ReaderRemember ==
  /\ rpc = "remember"
  /\ q_songname_previous' =
       SendToFront(q_songname_previous, HistoryLength, filename)
  /\ rpc' = "clear_playing"
  /\ UNCHANGED <<q_songname, q_songdata, filename, flags, icon, file, buffer>>

(* Mutant: reset_flags forgets is_break_required. *)
ReaderClearPlayingOnly ==
  /\ rpc = "clear_playing"
  /\ is_song_playing' = FALSE
  /\ rpc' = "clear_paused"
  /\ UNCHANGED <<queues, filename, is_song_paused, is_break_required, icon,
                 file, buffer>>

(* song_end: the three writes of mp3_controller__reset_flags, then the icon. *)
ReaderClearPlaying ==
  /\ rpc = "clear_playing"
  /\ is_song_playing' = FALSE
  /\ rpc' = "clear_break"
  /\ UNCHANGED <<queues, filename, is_song_paused, is_break_required, icon,
                 file, buffer>>

ReaderClearBreak ==
  /\ rpc = "clear_break"
  /\ is_break_required' = FALSE
  /\ rpc' = "clear_paused"
  /\ UNCHANGED <<queues, filename, is_song_playing, is_song_paused, icon,
                 file, buffer>>

ReaderClearPaused ==
  /\ rpc = "clear_paused"
  /\ is_song_paused' = FALSE
  /\ rpc' = "show_end"
  /\ UNCHANGED <<queues, filename, is_song_playing, is_break_required, icon,
                 file, buffer>>

ReaderShowEnd ==
  /\ rpc = "show_end"
  /\ icon' = "play"
  /\ rpc' = "receive"
  /\ UNCHANGED <<queues, filename, flags, file, buffer>>

ReaderFrame ==
  UNCHANGED <<is_on_player_screen, suspended, list_ready, player, controller>>

ReaderStep ==
  /\ \/ ReaderReceive \/ ReaderSkip \/ ReaderOpen
     \/ ReaderSetPlaying \/ ReaderShow
     \/ ReaderEof \/ ReaderBreak \/ ReaderRead \/ ReaderSend \/ ReaderReset
     \/ ReaderClose \/ ReaderRemember
     \/ ReaderClearPlaying \/ ReaderClearBreak \/ ReaderClearPaused
     \/ ReaderShowEnd
  /\ ReaderFrame

-----------------------------------------------------------------------------
(* mp3_player_task: takes a block and feeds it to the decoder, byte by byte *)
(* as the decoder asks for data.  A suspended task takes no step.           *)

(* Mutant: the player peeks at the block instead of receiving it. *)
PlayerPeek ==
  /\ ppc = "receive"
  /\ CanReceive(q_songdata)
  /\ playing_block' = Head(q_songdata)
  /\ ppc' = "play"
  /\ UNCHANGED q_songdata

PlayerReceive ==
  /\ ppc = "receive"
  /\ CanReceive(q_songdata)
  /\ playing_block' = Head(q_songdata)
  /\ q_songdata' = Tail(q_songdata)
  /\ ppc' = "play"

PlayerPlay ==
  /\ ppc = "play"
  /\ ppc' = "receive"
  /\ UNCHANGED <<playing_block, q_songdata>>

PlayerStep ==
  /\ ~suspended
  /\ PlayerReceive \/ PlayerPlay
  /\ UNCHANGED <<q_songname, q_songname_previous, filename, flags,
                 is_on_player_screen, icon, suspended, list_ready, reader,
                 controller>>

-----------------------------------------------------------------------------
(* mp3_controller_task: a control is decoded from the input and the state,  *)
(* then executed statement by statement.                                    *)

Goto(statement) == cpc' = statement /\ UNCHANGED <<control, choice>>

(* Back to the queue of inputs: the locals of the handler are gone. *)
Finish == cpc' = "decode" /\ control' = "do_nothing" /\ choice' = NoName

(* The song under scroll_index: none before the list is populated. *)
ListedSong == IF list_ready /\ SongList # {} THEN SongList ELSE {NoName}

(* The first statement of the case of execute_control for a control. *)
FirstStatement(c) ==
  CASE c = "show_songs" -> "list_screen"
    [] c \in {"show_player", "set_tone"} -> "player_screen"
    [] c = "play_song" -> "request"
    [] c = "play_enqueued_song" -> "check"
    [] c = "play_previous_song" -> "pop"
    [] c = "enqueue_song" -> "enqueue"
    [] c = "pause_song" -> "suspend"
    [] c = "resume_song" -> "resume"

Decode(c, song) ==
  /\ cpc = "decode"
  /\ control' = c
  /\ choice' = song
  /\ cpc' = FirstStatement(c)
  /\ UNCHANGED <<q_songname, q_songname_previous, flags, is_on_player_screen,
                 icon, suspended>>

RotaryButton ==
  \/ /\ is_on_player_screen /\ is_song_playing
     /\ Decode(IF is_song_paused THEN "resume_song" ELSE "pause_song", NoName)
  \/ /\ ~(is_on_player_screen /\ is_song_playing)
     /\ \E song \in ListedSong : Decode("play_song", song)

LeftButton ==
  \/ is_on_player_screen /\ Decode("show_songs", NoName)
  \/ /\ ~is_on_player_screen
     /\ \E song \in ListedSong : Decode("enqueue_song", song)

(* The queue is peeked at here, and not looked at again when the control is *)
(* executed.  An empty queue makes do_nothing of the input.                 *)
RightButton ==
  \/ ~is_on_player_screen /\ Decode("show_player", NoName)
  \/ /\ is_on_player_screen
     /\ CanReceive(q_songname)
     /\ Decode("play_enqueued_song", NoName)

(* The accelerometer's second interrupt, by the new orientation. *)
TiltRight == CanReceive(q_songname) /\ Decode("play_enqueued_song", NoName)

TiltLeft ==
  CanReceive(q_songname_previous) /\ Decode("play_previous_song", NoName)

TiltBack == Decode("pause_song", NoName)

(* Treble and bass: their tasks are not here, the change of screen is. *)
TiltUpOrDown == Decode("set_tone", NoName)

EnqueueSong ==
  /\ cpc = "enqueue"
  /\ q_songname' = SendToBack(q_songname, NameLength, choice)
  /\ Finish
  /\ UNCHANGED <<q_songname_previous, flags, is_on_player_screen, icon, suspended>>

(* play_previous_song takes the song off the history first. *)
PopHistory ==
  /\ cpc = "pop"
  /\ IF CanReceive(q_songname_previous)
     THEN /\ choice' = Head(q_songname_previous)
          /\ q_songname_previous' = Tail(q_songname_previous)
          /\ cpc' = "request"
          /\ UNCHANGED control
     ELSE Finish /\ UNCHANGED q_songname_previous
  /\ UNCHANGED <<q_songname, flags, is_on_player_screen, icon, suspended>>

(* The chosen song goes ahead of the queue; it is lost if the queue is full. *)
RequestSong ==
  /\ cpc = "request"
  /\ q_songname' = SendToFront(q_songname, NameLength, choice)
  /\ Goto("check")
  /\ UNCHANGED <<q_songname_previous, flags, is_on_player_screen, icon, suspended>>

(* if (is_song_playing) mp3_controller__stop_song(); *)
CheckPlaying ==
  /\ cpc = "check"
  /\ Goto(IF is_song_playing THEN "set_break" ELSE "set_playing")
  /\ UNCHANGED <<q_songname, q_songname_previous, flags, is_on_player_screen,
                 icon, suspended>>

StopSetBreak ==
  /\ cpc = "set_break"
  /\ is_break_required' = TRUE
  /\ Goto("stop_playing")
  /\ UNCHANGED <<q_songname, q_songname_previous, is_song_playing,
                 is_song_paused, is_on_player_screen, icon, suspended>>

StopClearPlaying ==
  /\ cpc = "stop_playing"
  /\ is_song_playing' = FALSE
  /\ Goto("stop_paused")
  /\ UNCHANGED <<q_songname, q_songname_previous, is_break_required,
                 is_song_paused, is_on_player_screen, icon, suspended>>

(* Mutant: is_song_playing = true only when nothing had to be stopped. *)
StopClearPausedOnly ==
  /\ cpc = "stop_paused"
  /\ is_song_paused' = FALSE
  /\ Goto("resume")
  /\ UNCHANGED <<q_songname, q_songname_previous, is_break_required,
                 is_song_playing, is_on_player_screen, icon, suspended>>

StopClearPaused ==
  /\ cpc = "stop_paused"
  /\ is_song_paused' = FALSE
  /\ Goto("set_playing")
  /\ UNCHANGED <<q_songname, q_songname_previous, is_break_required,
                 is_song_playing, is_on_player_screen, icon, suspended>>

(* Mutant: the player task is not resumed before the flag is lowered. *)
SetPlayingNoResume ==
  /\ cpc = "set_playing"
  /\ is_song_playing' = TRUE
  /\ Goto("clear_paused")
  /\ UNCHANGED <<q_songname, q_songname_previous, is_break_required,
                 is_song_paused, is_on_player_screen, icon, suspended>>

SetPlaying ==
  /\ cpc = "set_playing"
  /\ is_song_playing' = TRUE
  /\ Goto("resume")
  /\ UNCHANGED <<q_songname, q_songname_previous, is_break_required,
                 is_song_paused, is_on_player_screen, icon, suspended>>

(* Mutant: resume_song forgets to lower is_song_paused. *)
ResumePlayerOnly ==
  /\ cpc = "resume"
  /\ suspended' = FALSE
  /\ Goto("show_playing")
  /\ UNCHANGED <<q_songname, q_songname_previous, flags, is_on_player_screen, icon>>

(* mp3_controller__resume_song: the task, the flag, the icon. *)
ResumePlayer ==
  /\ cpc = "resume"
  /\ suspended' = FALSE
  /\ Goto("clear_paused")
  /\ UNCHANGED <<q_songname, q_songname_previous, flags, is_on_player_screen, icon>>

ResumeClearPaused ==
  /\ cpc = "clear_paused"
  /\ is_song_paused' = FALSE
  /\ Goto("show_playing")
  /\ UNCHANGED <<q_songname, q_songname_previous, is_break_required,
                 is_song_playing, is_on_player_screen, icon, suspended>>

ShowPlaying ==
  /\ cpc = "show_playing"
  /\ icon' = "pause"
  /\ IF control = "resume_song" THEN Finish ELSE Goto("player_screen")
  /\ UNCHANGED <<q_songname, q_songname_previous, flags, is_on_player_screen,
                 suspended>>

GoToPlayerScreen ==
  /\ cpc = "player_screen"
  /\ is_on_player_screen' = TRUE
  /\ IF control \in {"play_song", "play_enqueued_song"}
     THEN Goto("remember") ELSE Finish
  /\ UNCHANGED <<q_songname, q_songname_previous, flags, icon, suspended>>

(* The interrupted song is pushed on the history by the global `filename`, *)
(* whatever the reader has received into it by then.                       *)
RememberInterrupted ==
  /\ cpc = "remember"
  /\ q_songname_previous' =
       SendToFront(q_songname_previous, HistoryLength, filename)
  /\ Finish
  /\ UNCHANGED <<q_songname, flags, is_on_player_screen, icon, suspended>>

GoToSongListScreen ==
  /\ cpc = "list_screen"
  /\ is_on_player_screen' = FALSE
  /\ Finish
  /\ UNCHANGED <<q_songname, q_songname_previous, flags, icon, suspended>>

(* mp3_controller__pause_song: the task, the flag, the icon. *)
SuspendPlayer ==
  /\ cpc = "suspend"
  /\ suspended' = TRUE
  /\ Goto("set_paused")
  /\ UNCHANGED <<q_songname, q_songname_previous, flags, is_on_player_screen, icon>>

SetPaused ==
  /\ cpc = "set_paused"
  /\ is_song_paused' = TRUE
  /\ Goto("show_paused")
  /\ UNCHANGED <<q_songname, q_songname_previous, is_break_required,
                 is_song_playing, is_on_player_screen, icon, suspended>>

ShowPaused ==
  /\ cpc = "show_paused"
  /\ icon' = "play"
  /\ Finish
  /\ UNCHANGED <<q_songname, q_songname_previous, flags, is_on_player_screen,
                 suspended>>

ControllerInput ==
  \/ RotaryButton \/ LeftButton \/ RightButton
  \/ TiltRight \/ TiltLeft \/ TiltBack \/ TiltUpOrDown

ControllerExecute ==
  \/ EnqueueSong \/ PopHistory \/ RequestSong
  \/ CheckPlaying \/ StopSetBreak \/ StopClearPlaying \/ StopClearPaused
  \/ SetPlaying \/ ResumePlayer \/ ResumeClearPaused \/ ShowPlaying
  \/ GoToPlayerScreen \/ RememberInterrupted \/ GoToSongListScreen
  \/ SuspendPlayer \/ SetPaused \/ ShowPaused

ControllerFrame == UNCHANGED <<q_songdata, filename, list_ready, reader, player>>

ControllerStep ==
  (ControllerInput \/ ControllerExecute) /\ ControllerFrame

-----------------------------------------------------------------------------
(* The other tasks, as far as they touch this state. *)

(* mp3_oled_screen_task reads the card's directory as it starts. *)
PopulateList ==
  /\ ~list_ready
  /\ list_ready' = TRUE
  /\ UNCHANGED <<queues, filename, flags, is_on_player_screen, icon, suspended,
                 reader, player, controller>>

(* The CLI's play command waits for room and appends what was typed. *)
CliPlay ==
  /\ CanSend(q_songname, NameLength)
  /\ \E song \in CliNames : q_songname' = Append(q_songname, song)
  /\ UNCHANGED <<q_songname_previous, q_songdata, filename, flags,
                 is_on_player_screen, icon, suspended, list_ready, reader,
                 player, controller>>

Next == ReaderStep \/ PlayerStep \/ ControllerStep \/ PopulateList \/ CliPlay

Spec == Init /\ [][Next]_vars

(* The scheduler gives every ready task its slice, so a task that can      *)
(* always take a step takes one.  Nobody has to press a button or type.    *)
Fairness ==
  /\ WF_vars(ReaderStep)
  /\ WF_vars(PlayerStep)
  /\ WF_vars(ControllerExecute /\ ControllerFrame)

FairSpec == Spec /\ Fairness

-----------------------------------------------------------------------------
(* Properties *)

(* The paused flag, which decides what the rotary button does next, is never *)
(* up while the player task runs: pause_song suspends before it raises the   *)
(* flag and resume_song lowers the flag right after it resumes, while the    *)
(* reader may lower it at any time (reset_flags).                            *)
PausedMeansSuspended == is_song_paused => suspended \/ cpc = "clear_paused"

(* From song_begin until song_end a song is being streamed. *)
Streaming ==
  rpc \in {"show", "loop", "send", "reset", "close", "remember", "clear_playing"}

(* While a song streams the playing flag is up, except between the two       *)
(* writes with which the controller passes from one song to the next: so a   *)
(* play command never takes a streaming song for silence and leaves it on.   *)
StreamingMeansPlaying ==
  Streaming => is_song_playing \/ cpc \in {"stop_paused", "set_playing"}

(* A break asked for and not honoured yet never survives with the playing    *)
(* flag down, except while one of the two tasks is about to repair it.       *)
BreakMeansPlaying ==
  is_break_required =>
    \/ is_song_playing
    \/ cpc \in {"stop_playing", "stop_paused", "set_playing"}
    \/ rpc = "clear_break"

(* The path from the card through q_songdata to the decoder is an audio      *)
(* stream: what is pending is the queue, the block the reader is blocked on, *)
(* and what it has not read yet.                                             *)
InFlight == IF rpc = "send" THEN <<buffer>> ELSE << >>

Audio == INSTANCE AudioStream
  WITH Song <- Files, Silence <- NoBlock,
       pending <- q_songdata \o InFlight \o file, heard <- playing_block

AudioInOrder == Audio!StreamSpec

(* A break asked for while a song streams ends that song, even when the      *)
(* player is suspended and the reader blocked on the full data queue: the    *)
(* handler that asked resumes the player.  Only a pause may hold it up.      *)
StopIsHonoured ==
  (Streaming /\ is_break_required)
    ~> (~Streaming \/ (is_song_paused /\ cpc = "decode"))

(* A queued song is eventually taken, unless the user holds the player.      *)
QueueMoves ==
  CanReceive(q_songname) ~> (rpc = "open" \/ (suspended /\ cpc = "decode"))

(* mp3_oled_controller.c:173: the pause icon is shown "because there is a    *)
(* song playing currently".                                                  *)
Silent ==
  /\ rpc = "receive" /\ q_songname = << >>
  /\ ppc = "receive" /\ q_songdata = << >>
  /\ cpc = "decode"

PauseIconMeansPlaying == icon = "pause" => ~Silent
=============================================================================
