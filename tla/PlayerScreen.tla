---------------------------- MODULE PlayerScreen ----------------------------
(***************************************************************************)
(* The screen of the player: mp3_oled_controller.c and the tasks around    *)
(* it.  The controller task, the reader task and the two tone tasks write  *)
(* the fields of one shared struct, without a lock, and send an update to  *)
(* a short queue, without waiting: what does not fit is dropped.  The      *)
(* screen task takes an update and draws the list or the player, reading   *)
(* each field as it draws it.  Before its loop it reads the song list from *)
(* the card, while the controller may already be scrolling.                *)
(*                                                                         *)
(* Bitmaps, columns, pages and the text of a song's metadata are not here. *)
(* What the controls do to the song and to the tones is in Mp3Player and   *)
(* ToneControl.                                                            *)
(***************************************************************************)
EXTENDS Integers, RtosQueue

CONSTANTS
  SongCount,      \* .mp3 files in the card's root directory
  Lines,          \* mp3_oled_controller__max_lines_on_screen (8)
  QueueLength,    \* length of the queue of updates (10)
  MaxVolume,      \* 100
  InitialVolume,  \* 70
  Tone,           \* the tones whose tasks run, of treble and bass
  Level,          \* levels the tone tasks compute
  MaxEarly        \* bound: how far the index is scrolled in an empty list

(* list_of_songs has 32 rows and no test for more files. *)
ASSUME ListAssumption == SongCount \in 0..32 /\ MaxEarly \in Nat
ASSUME ScreenAssumption ==
  /\ {Lines, QueueLength} \subseteq Nat \ {0}
  /\ MaxVolume \in Nat /\ InitialVolume \in 0..MaxVolume
ASSUME LevelAssumption ==
  /\ Tone \subseteq {"treble", "bass"}
  /\ Level \subseteq 0..255

Writer == Tone \cup {"controller", "reader"}
Kind == {"list", "player"}
None == "none"     \* no update, and a screen that was never drawn
Blank == -1        \* a field that is not on the screen

VARIABLES
  queue,             \* mp3_oled_controller__screen_update_queue
  number_of_songs,   \* of mp3_song_list.c
  (* mp3_oled_screen; bass_level and treble_level are level[t] *)
  current_top_song_index, current_bottom_song_index, highlighted_song_index,
  mp3_playing_song, is_song_paused, volume_percentage, level,
  pending,           \* pending[w]: the update writer w is about to send
  (* controller *)
  cpc, scroll_index, cached_songs, controller_volume, is_on_player_screen,
  rpc,               \* reader
  (* screen task, and what is on the screen *)
  spc, line, shown, shown_rows, shown_song, shown_paused, shown_volume,
  shown_level,
  (* history *)
  early,   \* was the index last moved down in an empty list?
  raced    \* did the user come to the player screen under the reader's eyes?

window == <<current_top_song_index, current_bottom_song_index,
            highlighted_song_index>>
song == <<mp3_playing_song, is_song_paused>>
levels == <<volume_percentage, level>>
choice == <<scroll_index, cached_songs, early>>
controller == <<cpc, choice, controller_volume, is_on_player_screen>>
picture == <<shown, shown_rows, shown_song, shown_paused, shown_volume,
             shown_level>>
screen_task == <<spc, line, number_of_songs, picture>>
vars == <<queue, window, song, levels, pending, controller, rpc,
          screen_task, raced>>

ControllerPc == {"ready", "window", "highlight", "volume"}
ReaderPc == {"idle", "check", "show_playing", "set_playing",
             "streaming", "show_paused", "set_paused"}
ScreenPc == {"populate", "wait", "rows", "song", "icon", "volume", "treble",
             "bass"}

(* The songs the list has room for on the screen. *)
Row == 0..(Lines - 1)
RowContent == [item : Int, inverse : BOOLEAN]
BlankRow == [item |-> Blank, inverse |-> FALSE]

TypeOK ==
  /\ queue \in QueueOf(Kind, QueueLength)
  /\ number_of_songs \in 0..SongCount
  /\ current_top_song_index \in Nat
  /\ current_bottom_song_index \in Nat
  /\ highlighted_song_index \in Nat
  /\ mp3_playing_song \in BOOLEAN
  /\ is_song_paused \in BOOLEAN
  /\ volume_percentage \in 0..MaxVolume
  /\ level \in [Tone -> 0..255]
  /\ pending \in [Writer -> Kind \cup {None}]
  /\ cpc \in ControllerPc
  /\ scroll_index \in Nat
  /\ cached_songs \in 0..SongCount
  /\ controller_volume \in 0..MaxVolume
  /\ is_on_player_screen \in BOOLEAN
  /\ rpc \in ReaderPc
  /\ spc \in ScreenPc
  /\ line \in 0..Lines
  /\ shown \in Kind \cup {None}
  /\ shown_rows \in [Row -> RowContent]
  /\ shown_song \in BOOLEAN
  /\ shown_paused \in BOOLEAN
  /\ shown_volume \in 0..MaxVolume \cup {Blank}
  /\ shown_level \in [Tone -> 0..255 \cup {Blank}]
  /\ early \in BOOLEAN
  /\ raced \in BOOLEAN

(* A screen without the player's fields or rows. *)
ClearedPicture ==
  /\ shown_rows' = [i \in Row |-> BlankRow]
  /\ shown_song' = FALSE
  /\ shown_paused' = FALSE
  /\ shown_volume' = Blank
  /\ shown_level' = [t \in Tone |-> Blank]

Init ==
  /\ queue = << >>
  /\ number_of_songs = 0
  /\ current_top_song_index = 0
  /\ current_bottom_song_index = Lines - 1
  /\ highlighted_song_index = 0
  /\ mp3_playing_song = FALSE
  /\ is_song_paused = TRUE
  /\ volume_percentage = InitialVolume
  /\ level = [t \in Tone |-> IF t = "treble" THEN 1 ELSE 2]
  /\ pending = [w \in Writer |-> None]
  /\ cpc = "ready" /\ scroll_index = 0 /\ cached_songs = 0
  /\ controller_volume = InitialVolume
  /\ is_on_player_screen = FALSE
  /\ rpc = "idle"
  /\ spc = "populate" /\ line = 0
  /\ shown = None
  /\ shown_rows = [i \in Row |-> BlankRow]
  /\ shown_song = FALSE
  /\ shown_paused = FALSE
  /\ shown_volume = Blank
  /\ shown_level = [t \in Tone |-> Blank]
  /\ early = FALSE /\ raced = FALSE

-----------------------------------------------------------------------------
(* Every writer: first the field, then, with the next statement, the update. *)

WillSend(w, kind) == pending' = [pending EXCEPT ![w] = kind]

(* xQueueSend with timeout 0. *)
Send(w) ==
  /\ pending[w] # None
  /\ queue' = SendToBack(queue, QueueLength, pending[w])
  /\ WillSend(w, None)
  /\ UNCHANGED <<window, song, levels, controller, rpc, screen_task, raced>>

(* mp3_oled_controller__player_show_treble, __player_show_bass. *)
ShowLevel(w, t, n) ==
  /\ level' = [level EXCEPT ![t] = n]
  /\ WillSend(w, "player")
  /\ UNCHANGED <<queue, window, song, volume_percentage, controller, rpc,
                 screen_task, raced>>

(* A tone task has computed a level. *)
ToneShows(t) ==
  /\ pending[t] = None
  /\ \E n \in Level : ShowLevel(t, t, n)

-----------------------------------------------------------------------------
(* mp3_controller_task: the controls that change the screen.                *)

Ready == cpc = "ready" /\ pending["controller"] = None

Others == <<queue, song, levels, rpc, screen_task, raced>>

(* The reader has found the user on the list screen, and is about to write  *)
(* the icon without sending an update.                                      *)
SilentSoon == rpc \in {"set_playing", "set_paused"}

(* A static of mp3_controller__scroll: looked up until it is not 0. *)
CountSongs == IF cached_songs = 0 THEN number_of_songs ELSE cached_songs

(* The remainder by 0 that an empty list leads to: UDIV gives 0 on this     *)
(* processor, so the index is what it was incremented to.                   *)
Remainder(a, n) == IF n = 0 THEN a ELSE a % n

(* Mutant: the index may be the number of songs itself. *)
ScrollDownPastEnd ==
  /\ Ready /\ ~is_on_player_screen
  /\ CountSongs = 0 => scroll_index < MaxEarly
  /\ cached_songs' = CountSongs
  /\ scroll_index' = Remainder(scroll_index + 1, CountSongs + 1)
  /\ early' = (CountSongs = 0)
  /\ cpc' = "window"
  /\ UNCHANGED <<window, pending, controller_volume, is_on_player_screen>>
  /\ UNCHANGED Others

ScrollDown ==
  /\ Ready /\ ~is_on_player_screen
  /\ CountSongs = 0 => scroll_index < MaxEarly
  /\ cached_songs' = CountSongs
  /\ scroll_index' = Remainder(scroll_index + 1, CountSongs)
  /\ early' = (CountSongs = 0)
  /\ cpc' = "window"
  /\ UNCHANGED <<window, pending, controller_volume, is_on_player_screen>>
  /\ UNCHANGED Others

ScrollUp ==
  /\ Ready /\ ~is_on_player_screen
  /\ cached_songs' = CountSongs
  /\ IF scroll_index > 0
     THEN scroll_index' = scroll_index - 1 /\ cpc' = "window"
     ELSE UNCHANGED <<scroll_index, cpc>>
  /\ UNCHANGED <<early, window, pending, controller_volume, is_on_player_screen>>
  /\ UNCHANGED Others

(* Mutant: the window moves a line too late. *)
MoveWindowLate ==
  /\ cpc = "window"
  /\ \/ /\ scroll_index < current_top_song_index
        /\ current_top_song_index' = scroll_index
        /\ current_bottom_song_index' = scroll_index + Lines - 1
     \/ /\ scroll_index > current_bottom_song_index + 1
        /\ current_bottom_song_index' = scroll_index
        /\ current_top_song_index' = scroll_index - Lines + 1
     \/ /\ scroll_index \in current_top_song_index..(current_bottom_song_index + 1)
        /\ UNCHANGED <<current_top_song_index, current_bottom_song_index>>
  /\ cpc' = "highlight"
  /\ UNCHANGED <<highlighted_song_index, pending, choice, controller_volume,
                 is_on_player_screen>>
  /\ UNCHANGED Others

(* mp3_oled_controller__song_list_highlight_song: a song out of the window  *)
(* becomes its first or its last line ...                                   *)
MoveWindow ==
  /\ cpc = "window"
  /\ \/ /\ scroll_index < current_top_song_index
        /\ current_top_song_index' = scroll_index
        /\ current_bottom_song_index' = scroll_index + Lines - 1
     \/ /\ scroll_index > current_bottom_song_index
        /\ current_bottom_song_index' = scroll_index
        /\ current_top_song_index' = scroll_index - Lines + 1
     \/ /\ scroll_index \in current_top_song_index..current_bottom_song_index
        /\ UNCHANGED <<current_top_song_index, current_bottom_song_index>>
  /\ cpc' = "highlight"
  /\ UNCHANGED <<highlighted_song_index, pending, choice, controller_volume,
                 is_on_player_screen>>
  /\ UNCHANGED Others

(* Mutant: the list is drawn again only when another window of it is shown. *)
HighlightQuietly ==
  /\ cpc = "highlight"
  /\ highlighted_song_index' = scroll_index
  /\ IF highlighted_song_index < current_top_song_index
        \/ highlighted_song_index > current_bottom_song_index
     THEN WillSend("controller", "list") ELSE UNCHANGED pending
  /\ cpc' = "ready"
  /\ UNCHANGED <<current_top_song_index, current_bottom_song_index, choice,
                 controller_volume, is_on_player_screen>>
  /\ UNCHANGED Others

(* ... and is highlighted. *)
Highlight ==
  /\ cpc = "highlight"
  /\ highlighted_song_index' = scroll_index
  /\ WillSend("controller", "list")
  /\ cpc' = "ready"
  /\ UNCHANGED <<current_top_song_index, current_bottom_song_index, choice,
                 controller_volume, is_on_player_screen>>
  /\ UNCHANGED Others

(* The volume cases of mp3_controller__scroll: the controller's own volume, *)
(* which goes to the decoder, then the screen's.                            *)
ChangeVolume ==
  /\ Ready /\ is_on_player_screen
  /\ cached_songs' = CountSongs
  /\ \/ /\ controller_volume < MaxVolume
        /\ controller_volume' = controller_volume + 1
        /\ cpc' = "volume"
     \/ /\ controller_volume > 0
        /\ controller_volume' = controller_volume - 1
        /\ cpc' = "volume"
     \/ /\ controller_volume \in {0, MaxVolume}
        /\ UNCHANGED <<controller_volume, cpc>>
  /\ UNCHANGED <<scroll_index, early, window, pending, is_on_player_screen>>
  /\ UNCHANGED Others

ShowVolume ==
  /\ cpc = "volume"
  /\ volume_percentage' = controller_volume
  /\ WillSend("controller", "player")
  /\ cpc' = "ready"
  /\ UNCHANGED <<queue, window, song, level, choice, controller_volume,
                 is_on_player_screen, rpc, screen_task, raced>>

(* resume_song and pause_song show the icon; a pause by tilting the board   *)
(* does so whichever screen the user is on.                                 *)
ShowIcon ==
  /\ Ready
  /\ is_song_paused' \in BOOLEAN
  /\ WillSend("controller", "player")
  /\ UNCHANGED <<queue, window, mp3_playing_song, levels, controller, rpc,
                 screen_task, raced>>

(* mp3_controller_acc__suspend_treble_task and __suspend_bass_task. *)
ShowNormalLevel ==
  /\ Ready
  /\ \E t \in Tone : ShowLevel("controller", t, IF t = "treble" THEN 1 ELSE 2)

GoToPlayerScreen ==
  /\ Ready
  /\ is_on_player_screen' = TRUE
  /\ WillSend("controller", "player")
  /\ raced' = (raced \/ SilentSoon)
  /\ UNCHANGED <<queue, window, song, levels, cpc, choice, controller_volume,
                 rpc, screen_task>>

GoToSongListScreen ==
  /\ Ready /\ is_on_player_screen
  /\ is_on_player_screen' = FALSE
  /\ WillSend("controller", "list")
  /\ UNCHANGED <<window, cpc, choice, controller_volume>>
  /\ UNCHANGED Others

ControllerInput ==
  \/ ScrollDown \/ ScrollUp \/ ChangeVolume \/ ShowIcon \/ ShowNormalLevel
  \/ GoToPlayerScreen \/ GoToSongListScreen

ControllerExecute == MoveWindow \/ Highlight \/ ShowVolume

-----------------------------------------------------------------------------
(* mp3_reader_task, song_begin and song_end of main.c. *)

ReaderFrame ==
  UNCHANGED <<queue, window, levels, controller, screen_task>>

(* The struct the tag of each song is decoded into is on the screen from    *)
(* the first song on.                                                       *)
SetPlayingSong ==
  /\ rpc = "idle"
  /\ mp3_playing_song' = TRUE
  /\ rpc' = "check"
  /\ UNCHANGED <<is_song_paused, pending, raced>>

(* Mutant: song_end always takes the branch for the list screen. *)
CheckScreenAtBeginOnly ==
  /\ \/ /\ rpc = "check"
        /\ rpc' = (IF is_on_player_screen THEN "show_playing" ELSE "set_playing")
     \/ rpc = "streaming" /\ rpc' = "set_paused"
  /\ UNCHANGED <<song, pending, raced>>

(* Is the user on the player screen?  The answer is used a statement later. *)
CheckScreen ==
  /\ \/ /\ rpc = "check"
        /\ rpc' = (IF is_on_player_screen THEN "show_playing" ELSE "set_playing")
     \/ /\ rpc = "streaming"
        /\ rpc' = (IF is_on_player_screen THEN "show_paused" ELSE "set_paused")
  /\ UNCHANGED <<song, pending, raced>>

(* player_show_playing, player_show_paused. *)
ReaderShows ==
  /\ \/ rpc = "show_playing" /\ is_song_paused' = FALSE /\ rpc' = "streaming"
     \/ rpc = "show_paused" /\ is_song_paused' = TRUE /\ rpc' = "idle"
  /\ WillSend("reader", "player")
  /\ UNCHANGED <<mp3_playing_song, raced>>

(* player_set_playing, player_set_paused. *)
ReaderSets ==
  /\ \/ rpc = "set_playing" /\ is_song_paused' = FALSE /\ rpc' = "streaming"
     \/ rpc = "set_paused" /\ is_song_paused' = TRUE /\ rpc' = "idle"
  /\ UNCHANGED <<mp3_playing_song, pending, raced>>

ReaderStep ==
  /\ pending["reader"] = None
  /\ SetPlayingSong \/ CheckScreen \/ ReaderShows \/ ReaderSets
  /\ ReaderFrame

-----------------------------------------------------------------------------
(* mp3_oled_screen_task. *)

ScreenFrame ==
  UNCHANGED <<window, song, levels, pending, controller, rpc>>

(* mp3_song_list__populate: one more .mp3 file in the directory. *)
PopulateSong ==
  /\ spc = "populate"
  /\ number_of_songs < SongCount
  /\ number_of_songs' = number_of_songs + 1
  /\ UNCHANGED <<queue, spc, line, picture, raced>>

(* The directory ends (a card that fails is a shorter directory).  The list *)
(* is the first to be shown.                                                *)
PopulateEnd ==
  /\ spc = "populate"
  /\ number_of_songs = SongCount
  /\ queue' = SendToBack(queue, QueueLength, "list")
  /\ spc' = "wait"
  /\ UNCHANGED <<line, number_of_songs, picture, raced>>

(* The update is received and the screen cleared. *)
ReceiveUpdate ==
  /\ spc = "wait"
  /\ CanReceive(queue)
  /\ queue' = Tail(queue)
  /\ shown' = Head(queue)
  /\ ClearedPicture
  /\ spc' = IF Head(queue) = "list" THEN "rows" ELSE "song"
  /\ line' = 0
  /\ UNCHANGED <<number_of_songs, raced>>

(* mp3_song_list__get_name_for_item: an item beyond the end is empty. *)
NameOf(item) == IF item < number_of_songs THEN item ELSE Blank

RowAt(i) ==
  [item |-> NameOf(current_top_song_index + i),
   inverse |-> highlighted_song_index = current_top_song_index + i]

DrawRow ==
  /\ spc = "rows"
  /\ line < Lines
  /\ shown_rows' = [shown_rows EXCEPT ![line] = RowAt(line)]
  /\ line' = line + 1
  /\ UNCHANGED <<queue, spc, number_of_songs, shown, shown_song, shown_paused,
                 shown_volume, shown_level, raced>>

(* Every line of the list has been drawn. *)
DrawRowsEnd ==
  /\ spc = "rows"
  /\ line = Lines
  /\ spc' = "wait" /\ line' = 0
  /\ UNCHANGED <<queue, number_of_songs, picture, raced>>

DrawSong ==
  /\ spc = "song"
  /\ shown_song' = mp3_playing_song
  /\ spc' = "icon"
  /\ UNCHANGED <<queue, line, number_of_songs, shown, shown_rows, shown_paused,
                 shown_volume, shown_level, raced>>

DrawIcon ==
  /\ spc = "icon"
  /\ shown_paused' = is_song_paused
  /\ raced' = (raced /\ SilentSoon)
  /\ spc' = "volume"
  /\ UNCHANGED <<queue, line, number_of_songs, shown, shown_rows, shown_song,
                 shown_volume, shown_level>>

(* The order of the last bars. *)
AfterTreble == IF "bass" \in Tone THEN "bass" ELSE "wait"
AfterVolume == IF "treble" \in Tone THEN "treble" ELSE AfterTreble

DrawVolume ==
  /\ spc = "volume"
  /\ shown_volume' = volume_percentage
  /\ spc' = AfterVolume
  /\ UNCHANGED <<queue, line, number_of_songs, shown, shown_rows, shown_song,
                 shown_paused, shown_level, raced>>

DrawLevel(t) ==
  /\ spc = t
  /\ shown_level' = [shown_level EXCEPT ![t] = level[t]]
  /\ spc' = IF t = "treble" THEN AfterTreble ELSE "wait"
  /\ UNCHANGED <<queue, line, number_of_songs, shown, shown_rows, shown_song,
                 shown_paused, shown_volume, raced>>

ScreenStep ==
  /\ \/ PopulateSong \/ PopulateEnd \/ ReceiveUpdate
     \/ DrawRow \/ DrawRowsEnd
     \/ DrawSong \/ DrawIcon \/ DrawVolume \/ \E t \in Tone : DrawLevel(t)
  /\ ScreenFrame

Next ==
  \/ \E w \in Writer : Send(w)
  \/ \E t \in Tone : ToneShows(t)
  \/ ControllerInput \/ ControllerExecute
  \/ ReaderStep
  \/ ScreenStep

Spec == Init /\ [][Next]_vars

-----------------------------------------------------------------------------
(* Properties *)

(* Nothing is on its way to the screen, and nobody is in between two        *)
(* statements of an update.                                                 *)
Quiet ==
  /\ spc = "wait"
  /\ queue = << >>
  /\ \A w \in Writer : pending[w] = None
  /\ cpc = "ready"

(* Between controls, the window of the list has exactly as many songs as    *)
(* the screen has lines, and the highlighted one is among them.             *)
WindowHolds ==
  /\ current_bottom_song_index = current_top_song_index + Lines - 1
  /\ cpc = "ready" =>
       highlighted_song_index \in current_top_song_index..current_bottom_song_index

(* However many updates were dropped, and whatever was written while the    *)
(* screen was being drawn: when all is quiet, the list that is shown is the *)
(* window of the list, and the player that is shown has the controller's    *)
(* volume and the current levels.                                           *)
DrawnIsCurrent ==
  Quiet =>
    /\ shown = "list" => shown_rows = [i \in Row |-> RowAt(i)]
    /\ shown = "player" =>
         shown_volume = controller_volume /\ shown_level = level

(* When all is quiet and the list is shown, exactly one of its lines is     *)
(* inverse, and it is the song a press of the button would play.            *)
HighlightedIsChosen ==
  Quiet /\ shown = "list" =>
    \E i \in Row :
      /\ \A j \in Row : shown_rows[j].inverse <=> j = i
      /\ shown_rows[i].item = NameOf(scroll_index)

(* The chosen song exists, although the number of songs is looked up while  *)
(* the list is still growing and kept from then on - unless the list was    *)
(* empty when the index was last moved down.                                *)
ChosenExists ==
  number_of_songs > 0 /\ ~early => scroll_index < number_of_songs

(* The icon is right on the player screen, unless the reader found the user *)
(* on the other screen a statement before the user came over.               *)
IconIsCurrent ==
  Quiet /\ shown = "player" /\ is_on_player_screen /\ ~raced =>
    shown_paused = is_song_paused
=============================================================================
