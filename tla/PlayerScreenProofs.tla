------------------------- MODULE PlayerScreenProofs --------------------------
(***************************************************************************)
(* For any number of songs, lines and updates, and any bound on what is    *)
(* scrolled early: the window holds the chosen song, and when all is quiet *)
(* the screen shows the current state.                                     *)
(*                                                                         *)
(* The argument about the screen is that a field that differs from what    *)
(* was drawn of it is always followed by a drawing: an update is in the    *)
(* queue, or about to be sent, or the drawing has not come to the field.   *)
(* An update may be dropped only because the queue is full, and then there *)
(* is another one in it.                                                   *)
(***************************************************************************)
EXTENDS PlayerScreen, RtosQueueTheorems

(* The window follows the index; the highlight does so between controls. *)
WindowInv ==
  /\ current_bottom_song_index = current_top_song_index + Lines - 1
  /\ cpc \in {"ready", "volume"} => highlighted_song_index = scroll_index
  /\ cpc # "window" =>
       scroll_index \in current_top_song_index..current_bottom_song_index

(* The number that was kept is one the list has had. *)
ChoiceInv ==
  /\ cached_songs <= number_of_songs
  /\ ~early => scroll_index = 0 \/ scroll_index < number_of_songs

VolumeInv == cpc # "volume" => volume_percentage = controller_volume

(* Another drawing is bound to begin. *)
Awaited ==
  \/ queue # << >>
  \/ \E w \in Writer : pending[w] # None
  \/ cpc # "ready"

RowsInv ==
  /\ spc = "populate" => shown = None
  /\ shown = "list" =>
       \A i \in Row :
         shown_rows[i] = RowAt(i) \/ Awaited \/ (spc = "rows" /\ line <= i)

BarsInv ==
  shown = "player" =>
    /\ shown_volume = volume_percentage \/ Awaited
       \/ spc \in {"song", "icon", "volume"}
    /\ \A t \in Tone :
         shown_level[t] = level[t] \/ Awaited
         \/ spc \in {"song", "icon", "volume", "treble", t}

IconInv ==
  /\ SilentSoon /\ is_on_player_screen => raced
  /\ shown = "player" /\ is_on_player_screen /\ ~raced =>
       shown_paused = is_song_paused \/ Awaited \/ spc \in {"song", "icon"}

ControlInv == TypeOK /\ WindowInv /\ ChoiceInv /\ VolumeInv
ScreenInv == ControlInv /\ RowsInv /\ BarsInv /\ IconInv

(* Everybody but the reader and the screen task. *)
UserStep ==
  \/ \E w \in Writer : Send(w)
  \/ \E t \in Tone : ToneShows(t)
  \/ ControllerInput \/ ControllerExecute

-----------------------------------------------------------------------------
(* The controller's arithmetic. *)

(* Every index the list is scrolled to is below the number of songs, when   *)
(* there are any (mp3_controller__scroll).                                  *)
LEMMA RemainderIsIndex ==
  ASSUME NEW a \in Nat, NEW n \in Nat
  PROVE  /\ Remainder(a, n) \in Nat
         /\ n > 0 => Remainder(a, n) < n
<1>1. CASE n = 0
  BY <1>1 DEF Remainder
<1>2. CASE n > 0
  <2>1. a % n \in 0..(n - 1)
    BY <1>2
  <2>2. QED
    BY <1>2, <2>1 DEF Remainder
<1>3. QED
  BY <1>1, <1>2

LEMMA CountIsKnown ==
  ASSUME TypeOK, ChoiceInv
  PROVE  CountSongs \in 0..SongCount /\ CountSongs <= number_of_songs
BY ListAssumption DEF TypeOK, ChoiceInv, CountSongs

(* An update to be sent is a change of nothing but its writer's turn. *)
LEMMA WillSendType ==
  ASSUME TypeOK, NEW w \in Writer, NEW kind \in Kind \cup {None}, WillSend(w, kind)
  PROVE  /\ pending' \in [Writer -> Kind \cup {None}]
         /\ pending'[w] = kind
BY DEF TypeOK, WillSend

LEMMA WritersAndKinds ==
  /\ "controller" \in Writer /\ "reader" \in Writer
  /\ "list" \in Kind /\ "player" \in Kind /\ None \notin Kind
  /\ \A t \in Tone : t \in Writer /\ t \in {"treble", "bass"}
BY LevelAssumption DEF Writer, Kind, None

-----------------------------------------------------------------------------
(* The initial state. *)
LEMMA InitScreen == Init => ScreenInv
<1> SUFFICES ASSUME Init PROVE ScreenInv
  OBVIOUS
<1> USE DEF Init
<1>1. queue \in QueueOf(Kind, QueueLength)
  BY EmptyIsBounded, ScreenAssumption
<1>2. /\ shown_rows \in [Row -> RowContent]
      /\ shown_level \in [Tone -> 0..255 \cup {Blank}]
      /\ level \in [Tone -> 0..255]
  BY DEF RowContent, BlankRow, Blank
<1>3. TypeOK
  <2>1. /\ current_bottom_song_index \in Nat /\ number_of_songs \in 0..SongCount
        /\ volume_percentage \in 0..MaxVolume /\ line \in 0..Lines
        /\ cached_songs \in 0..SongCount
        /\ controller_volume \in 0..MaxVolume
    BY ScreenAssumption, ListAssumption
  <2>2. pending \in [Writer -> Kind \cup {None}]
    OBVIOUS
  <2>3. QED
    BY <1>1, <1>2, <2>1, <2>2 DEF TypeOK, ControllerPc, ReaderPc, ScreenPc
<1>4. WindowInv
  BY ScreenAssumption DEF WindowInv
<1>5. ChoiceInv /\ VolumeInv
  BY DEF ChoiceInv, VolumeInv
<1>6. RowsInv /\ BarsInv
  BY DEF RowsInv, BarsInv, None
<1>7. IconInv
  BY DEF IconInv, SilentSoon, None
<1>8. QED
  BY <1>3, <1>4, <1>5, <1>6, <1>7 DEF ScreenInv, ControlInv

-----------------------------------------------------------------------------
(* Types, the window and the choice, one lemma per kind of step. *)

LEMMA SendKeepsControl ==
  ASSUME ControlInv, NEW w \in Writer, Send(w)
  PROVE  ControlInv'
<1>1. pending[w] \in Kind
  BY DEF ControlInv, TypeOK, Send
<1>2. queue' \in QueueOf(Kind, QueueLength)
  BY <1>1, SendToBackStaysBounded, ScreenAssumption DEF ControlInv, TypeOK, Send
<1>3. pending' \in [Writer -> Kind \cup {None}]
  BY WillSendType DEF ControlInv, Send
<1>4. UNCHANGED <<window, song, levels, controller, rpc, screen_task, raced>>
  BY DEF Send
<1>5. QED
  BY <1>2, <1>3, <1>4
     DEF ControlInv, TypeOK, WindowInv, ChoiceInv, VolumeInv, window, song,
         levels, controller, choice, screen_task, picture, CountSongs

LEMMA ShowLevelKeepsControl ==
  ASSUME ControlInv, NEW w \in Writer, NEW t \in Tone, NEW n \in 0..255,
         ShowLevel(w, t, n)
  PROVE  ControlInv'
<1>1. level' \in [Tone -> 0..255]
  BY DEF ControlInv, TypeOK, ShowLevel
<1>2. pending' \in [Writer -> Kind \cup {None}]
  BY WillSendType, WritersAndKinds DEF ControlInv, ShowLevel
<1>3. UNCHANGED <<queue, window, song, volume_percentage, controller, rpc,
                  screen_task, raced>>
  BY DEF ShowLevel
<1>4. QED
  BY <1>1, <1>2, <1>3
     DEF ControlInv, TypeOK, WindowInv, ChoiceInv, VolumeInv, window, song,
         controller, choice, screen_task, picture

LEMMA ToneShowsKeepsControl ==
  ASSUME ControlInv, NEW t \in Tone, ToneShows(t)
  PROVE  ControlInv'
<1>1. PICK n \in Level : ShowLevel(t, t, n)
  BY DEF ToneShows
<1>2. QED
  BY <1>1, ShowLevelKeepsControl, WritersAndKinds, LevelAssumption

(* What the scrolling actions leave alone. *)
LEMMA ScrollFrame ==
  ASSUME ControlInv, UNCHANGED Others,
         UNCHANGED <<controller_volume, is_on_player_screen>>,
         cpc' \in ControllerPc \ {"volume"}, cpc # "volume",
         scroll_index' \in Nat, cached_songs' \in 0..SongCount,
         early' \in BOOLEAN, pending' \in [Writer -> Kind \cup {None}],
         current_top_song_index' \in Nat, current_bottom_song_index' \in Nat,
         highlighted_song_index' \in Nat
  PROVE  TypeOK' /\ VolumeInv'
BY DEF ControlInv, TypeOK, VolumeInv, Others, song, levels, screen_task, picture

LEMMA ScrollKeepsControl ==
  ASSUME ControlInv, ScrollDown \/ ScrollUp
  PROVE  ControlInv'
<1>0. /\ TypeOK /\ WindowInv /\ ChoiceInv /\ cpc = "ready"
      /\ UNCHANGED Others
      /\ UNCHANGED <<window, pending, controller_volume, is_on_player_screen>>
      /\ UNCHANGED number_of_songs
  BY DEF ControlInv, ScrollDown, ScrollUp, Ready, Others, screen_task
<1> DEFINE c == CountSongs
<1>1. c \in 0..SongCount /\ c <= number_of_songs /\ c \in Nat
      /\ number_of_songs \in Nat /\ cached_songs' = c
  BY <1>0, CountIsKnown, ListAssumption DEF ScrollDown, ScrollUp, TypeOK
<1> HIDE DEF c
<1>2. CASE ScrollDown
  <2>1. /\ scroll_index' = Remainder(scroll_index + 1, c)
        /\ early' = (c = 0) /\ cpc' = "window"
    BY <1>2 DEF ScrollDown, c
  <2>2. scroll_index' \in Nat /\ (c > 0 => scroll_index' < c)
    BY <1>0, <1>1, <2>1, RemainderIsIndex DEF TypeOK
  <2>3. TypeOK' /\ VolumeInv'
    BY <1>0, <1>1, <2>1, <2>2, ScrollFrame DEF TypeOK, ControllerPc, window
  <2>4. ~early' => c # 0
    BY <2>1, Zenon
  <2>5. ChoiceInv'
    BY <1>0, <1>1, <2>2, <2>4 DEF ChoiceInv
  <2>6. WindowInv'
    BY <1>0, <2>1 DEF WindowInv, window
  <2>7. QED
    BY <2>3, <2>5, <2>6 DEF ControlInv
<1>3. CASE ScrollUp
  <2>1. /\ early' = early
        /\ \/ scroll_index > 0 /\ scroll_index' = scroll_index - 1 /\ cpc' = "window"
           \/ scroll_index' = scroll_index /\ cpc' = cpc
    BY <1>3 DEF ScrollUp
  <2>2. scroll_index' \in Nat /\ scroll_index' <= scroll_index
    BY <1>0, <2>1 DEF TypeOK
  <2>3. TypeOK' /\ VolumeInv'
    BY <1>0, <1>1, <2>1, <2>2, ScrollFrame DEF TypeOK, ControllerPc, window
  <2>4. ChoiceInv'
    BY <1>0, <1>1, <2>1, <2>2 DEF ChoiceInv, TypeOK
  <2>5. WindowInv'
    BY <1>0, <2>1 DEF WindowInv, window
  <2>6. QED
    BY <2>3, <2>4, <2>5 DEF ControlInv
<1>4. QED
  BY <1>2, <1>3

(* mp3_oled_controller__song_list_highlight_song: the window stays as long  *)
(* as the screen and comes to hold the index.                               *)
LEMMA HighlightKeepsControl ==
  ASSUME ControlInv, MoveWindow \/ Highlight
  PROVE  ControlInv'
<1>0. /\ TypeOK /\ WindowInv /\ ChoiceInv /\ cpc # "volume"
      /\ UNCHANGED Others
      /\ UNCHANGED <<choice, controller_volume, is_on_player_screen>>
      /\ UNCHANGED number_of_songs
      /\ Lines \in Nat \ {0}
  BY ScreenAssumption DEF ControlInv, MoveWindow, Highlight, Others, screen_task
<1>1. ChoiceInv'
  BY <1>0 DEF ChoiceInv, choice
<1>2. CASE MoveWindow
  <2>1. /\ current_top_song_index' \in Nat /\ current_bottom_song_index' \in Nat
        /\ current_bottom_song_index' = current_top_song_index' + Lines - 1
        /\ scroll_index \in current_top_song_index'..current_bottom_song_index'
    BY <1>0, <1>2 DEF MoveWindow, TypeOK, WindowInv
  <2>2. cpc' = "highlight" /\ UNCHANGED <<highlighted_song_index, pending>>
    BY <1>2 DEF MoveWindow
  <2>3. TypeOK' /\ VolumeInv'
    BY <1>0, <2>1, <2>2, ScrollFrame DEF TypeOK, ControllerPc, choice
  <2>4. WindowInv'
    BY <1>0, <2>1, <2>2 DEF WindowInv, choice
  <2>5. QED
    BY <1>1, <2>3, <2>4 DEF ControlInv
<1>3. CASE Highlight
  <2>1. /\ cpc = "highlight" /\ cpc' = "ready"
        /\ highlighted_song_index' = scroll_index
        /\ UNCHANGED <<current_top_song_index, current_bottom_song_index>>
    BY <1>3 DEF Highlight
  <2>2. pending' \in [Writer -> Kind \cup {None}]
    BY <1>0, <1>3, WillSendType, WritersAndKinds DEF Highlight
  <2>3. TypeOK' /\ VolumeInv'
    BY <1>0, <2>1, <2>2, ScrollFrame DEF TypeOK, ControllerPc, choice
  <2>4. WindowInv'
    BY <1>0, <2>1 DEF WindowInv, choice
  <2>5. QED
    BY <1>1, <2>3, <2>4 DEF ControlInv
<1>4. QED
  BY <1>2, <1>3

(* Volume, icon, levels back to normal, and the two screens. *)
LEMMA VolumeKeepsControl ==
  ASSUME ControlInv, ChangeVolume
  PROVE  ControlInv'
<1>0. /\ TypeOK /\ WindowInv /\ ChoiceInv /\ VolumeInv /\ cpc = "ready"
      /\ UNCHANGED Others
      /\ UNCHANGED <<scroll_index, early, window, pending, is_on_player_screen>>
      /\ UNCHANGED <<number_of_songs, levels>>
  BY DEF ControlInv, ChangeVolume, Ready, Others, screen_task
<1>1. /\ cached_songs' \in 0..SongCount /\ cached_songs' <= number_of_songs
  BY <1>0, CountIsKnown DEF ChangeVolume
<1>2. /\ controller_volume' \in 0..MaxVolume
      /\ \/ cpc' = "volume"
         \/ cpc' = cpc /\ controller_volume' = controller_volume
  <2>1. controller_volume \in 0..MaxVolume /\ MaxVolume \in Nat
    BY <1>0, ScreenAssumption DEF TypeOK
  <2>2. QED
    BY <2>1 DEF ChangeVolume
<1>3. TypeOK'
  BY <1>0, <1>1, <1>2
     DEF TypeOK, Others, window, song, levels, screen_task, picture, ControllerPc
<1>4. WindowInv'
  BY <1>0, <1>2 DEF WindowInv, window
<1>5. ChoiceInv'
  BY <1>0, <1>1 DEF ChoiceInv
<1>6. VolumeInv'
  BY <1>0, <1>2 DEF VolumeInv, levels
<1>7. QED
  BY <1>3, <1>4, <1>5, <1>6 DEF ControlInv

LEMMA UpdateKeepsControl ==
  ASSUME ControlInv, ShowVolume \/ ShowIcon \/ GoToPlayerScreen \/ GoToSongListScreen
  PROVE  ControlInv'
<1>1. pending' \in [Writer -> Kind \cup {None}]
  BY WillSendType, WritersAndKinds
     DEF ControlInv, ShowVolume, ShowIcon, GoToPlayerScreen, GoToSongListScreen
<1>2. CASE ShowVolume
  BY <1>1, <1>2
     DEF ControlInv, TypeOK, WindowInv, ChoiceInv, VolumeInv, ShowVolume, window,
         song, choice, screen_task, picture, ControllerPc
<1>3. CASE ShowIcon
  BY <1>1, <1>3
     DEF ControlInv, TypeOK, WindowInv, ChoiceInv, VolumeInv, ShowIcon, window,
         levels, choice, controller, screen_task, picture
<1>4. CASE GoToPlayerScreen
  <2>1. raced' \in BOOLEAN
    BY <1>4, Zenon DEF GoToPlayerScreen
  <2>2. QED
    BY <1>1, <1>4, <2>1
       DEF ControlInv, TypeOK, WindowInv, ChoiceInv, VolumeInv, GoToPlayerScreen,
           window, song, levels, choice, screen_task, picture
<1>5. CASE GoToSongListScreen
  <2>1. is_on_player_screen' \in BOOLEAN
    BY <1>5, Zenon DEF GoToSongListScreen
  <2>2. QED
    BY <1>1, <1>5, <2>1
       DEF ControlInv, TypeOK, WindowInv, ChoiceInv, VolumeInv, GoToSongListScreen,
           Others, window, song, levels, choice, screen_task, picture
<1>6. QED
  BY <1>2, <1>3, <1>4, <1>5

LEMMA ControllerKeepsControl ==
  ASSUME ControlInv, ControllerInput \/ ControllerExecute
  PROVE  ControlInv'
<1>1. CASE ShowNormalLevel
  <2>1. PICK t \in Tone :
          ShowLevel("controller", t, IF t = "treble" THEN 1 ELSE 2)
    BY <1>1 DEF ShowNormalLevel
  <2>2. (IF t = "treble" THEN 1 ELSE 2) \in 0..255
    OBVIOUS
  <2>3. QED
    BY <2>1, <2>2, ShowLevelKeepsControl, WritersAndKinds
<1>2. QED
  BY <1>1, ScrollKeepsControl, HighlightKeepsControl, VolumeKeepsControl,
     UpdateKeepsControl
     DEF ControllerInput, ControllerExecute

(* song_begin and song_end. *)
LEMMA ReaderKeepsControl ==
  ASSUME ControlInv, ReaderStep
  PROVE  ControlInv'
<1>1. UNCHANGED <<queue, window, levels, controller, screen_task, raced>>
  BY DEF ReaderStep, ReaderFrame, SetPlayingSong, CheckScreen, ReaderShows, ReaderSets
<1>2. pending' \in [Writer -> Kind \cup {None}]
  BY WillSendType, WritersAndKinds
     DEF ControlInv, TypeOK, ReaderStep, SetPlayingSong, CheckScreen,
         ReaderShows, ReaderSets
<1>3. /\ rpc' \in ReaderPc
      /\ mp3_playing_song' \in BOOLEAN /\ is_song_paused' \in BOOLEAN
  <2>1. mp3_playing_song \in BOOLEAN /\ is_song_paused \in BOOLEAN
    BY DEF ControlInv, TypeOK
  <2>2. CASE SetPlayingSong
    BY <2>1, <2>2 DEF SetPlayingSong, ReaderPc
  <2>3. CASE CheckScreen
    BY <2>1, <2>3 DEF CheckScreen, song, ReaderPc
  <2>4. CASE ReaderShows
    BY <2>1, <2>4 DEF ReaderShows, ReaderPc
  <2>5. CASE ReaderSets
    BY <2>1, <2>5 DEF ReaderSets, ReaderPc
  <2>6. QED
    BY <2>2, <2>3, <2>4, <2>5 DEF ReaderStep
<1>4. QED
  BY <1>1, <1>2, <1>3
     DEF ControlInv, TypeOK, WindowInv, ChoiceInv, VolumeInv, window, levels,
         controller, choice, screen_task, picture

(* The screen task draws what it reads, whatever that is. *)
LEMMA ScreenKeepsControl ==
  ASSUME ControlInv, ScreenStep
  PROVE  ControlInv'
<1> USE DEF ControlInv, TypeOK, WindowInv, ChoiceInv, VolumeInv
<1>0. UNCHANGED <<window, song, levels, pending, controller, rpc>>
  BY DEF ScreenStep, ScreenFrame
<1> USE DEF window, song, levels, controller, choice
<1>1. CASE PopulateSong
  BY <1>0, <1>1, ListAssumption DEF PopulateSong, picture
<1>2. CASE PopulateEnd
  <2>1. queue' \in QueueOf(Kind, QueueLength)
    BY <1>2, SendToBackStaysBounded, WritersAndKinds, ScreenAssumption DEF PopulateEnd
  <2>2. QED
    BY <1>0, <1>2, <2>1 DEF PopulateEnd, picture, ScreenPc
<1>3. CASE ReceiveUpdate
  <2>1. queue' \in QueueOf(Kind, QueueLength) /\ shown' \in Kind
    BY <1>3, ReceiveStaysBounded, ScreenAssumption DEF ReceiveUpdate
  <2>2. spc' \in ScreenPc
    BY <1>3, Zenon DEF ReceiveUpdate, ScreenPc
  <2>3. /\ shown_rows' \in [Row -> RowContent]
        /\ shown_volume' \in 0..MaxVolume \cup {Blank}
        /\ shown_level' \in [Tone -> 0..255 \cup {Blank}]
    BY <1>3 DEF ReceiveUpdate, ClearedPicture, RowContent, BlankRow, Blank
  <2>4. line' \in 0..Lines /\ UNCHANGED <<number_of_songs, raced>>
    BY <1>3, ScreenAssumption DEF ReceiveUpdate
  <2>5. shown_song' \in BOOLEAN /\ shown_paused' \in BOOLEAN
    BY <1>3, Zenon DEF ReceiveUpdate, ClearedPicture
  <2>6. QED
    BY <1>0, <2>1, <2>2, <2>3, <2>4, <2>5
<1>4. CASE DrawRow
  <2>1. RowAt(line) \in RowContent
    BY ScreenAssumption, ListAssumption DEF RowAt, RowContent, NameOf, Blank
  <2>2. shown_rows' \in [Row -> RowContent]
    BY <1>4, <2>1 DEF DrawRow
  <2>3. line' \in 0..Lines
    BY <1>4, ScreenAssumption DEF DrawRow
  <2>4. QED
    BY <1>0, <1>4, <2>2, <2>3 DEF DrawRow
<1>5. CASE DrawRowsEnd
  BY <1>0, <1>5, ScreenAssumption DEF DrawRowsEnd, picture, ScreenPc
<1>6. CASE DrawSong
  BY <1>0, <1>6 DEF DrawSong, ScreenPc
<1>7. CASE DrawIcon
  <2>1. raced' \in BOOLEAN
    BY <1>7, Zenon DEF DrawIcon
  <2>2. QED
    BY <1>0, <1>7, <2>1 DEF DrawIcon, ScreenPc
<1>8. CASE DrawVolume
  BY <1>0, <1>8 DEF DrawVolume, ScreenPc, AfterVolume, AfterTreble
<1>9. ASSUME NEW t \in Tone, DrawLevel(t)
      PROVE  ControlInv'
  BY <1>0, <1>9 DEF DrawLevel, ScreenPc, AfterTreble
<1>10. QED
  BY <1>1, <1>2, <1>3, <1>4, <1>5, <1>6, <1>7, <1>8, <1>9 DEF ScreenStep

LEMMA ControlStep ==
  ASSUME ControlInv, [Next]_vars
  PROVE  ControlInv'
<1>1. CASE UNCHANGED vars
  BY <1>1
     DEF vars, ControlInv, TypeOK, WindowInv, ChoiceInv, VolumeInv, window, song,
         levels, controller, choice, screen_task, picture
<1>2. QED
  BY <1>1, SendKeepsControl, ToneShowsKeepsControl, ControllerKeepsControl,
     ReaderKeepsControl, ScreenKeepsControl DEF Next

-----------------------------------------------------------------------------
(* Whoever writes a field leaves an update to be sent, and an update is     *)
(* forgotten only when the screen task takes the last one.                  *)

LEMMA WrittenIsAwaited ==
  ASSUME TypeOK, NEW w \in Writer, NEW kind \in Kind, WillSend(w, kind)
  PROVE  Awaited'
BY WillSendType, WritersAndKinds DEF Awaited

(* Sending with timeout 0: dropped or not, the queue holds an update. *)
LEMMA SentIsAwaited ==
  ASSUME TypeOK, NEW w \in Writer, Send(w)
  PROVE  Awaited'
<1>1. queue \in QueueOf(Kind, QueueLength) /\ QueueLength \in Nat \ {0}
  BY ScreenAssumption DEF TypeOK
<1>2. CASE CanSend(queue, QueueLength)
  <2>1. queue' = Append(queue, pending[w]) /\ queue \in Seq(Kind)
    BY <1>1, <1>2 DEF Send, SendToBack, QueueOf
  <2>2. pending[w] \in Kind
    BY DEF TypeOK, Send
  <2>3. Len(queue') = Len(queue) + 1 /\ Len(queue) \in Nat
    BY <2>1, <2>2
  <2>4. queue' # << >>
    BY <2>3
  <2>5. QED
    BY <2>4 DEF Awaited
<1>3. CASE ~CanSend(queue, QueueLength)
  <2>1. queue' = queue
    BY <1>3 DEF Send, SendToBack
  <2>2. queue # << >>
    BY <1>1, <1>3 DEF CanSend
  <2>3. QED
    BY <2>1, <2>2 DEF Awaited
<1>4. QED
  BY <1>2, <1>3

LEMMA UserStepIsAwaited ==
  ASSUME TypeOK, UserStep
  PROVE  /\ UNCHANGED <<screen_task, rpc>>
         /\ Awaited => Awaited'
         /\ Awaited' \/ UNCHANGED <<window, song, levels, is_on_player_screen>>
         /\ raced => raced'
         /\ is_on_player_screen' /\ SilentSoon => is_on_player_screen \/ raced'
<1> DEFINE Goal ==
      /\ UNCHANGED <<screen_task, rpc>>
      /\ Awaited => Awaited'
      /\ Awaited' \/ UNCHANGED <<window, song, levels, is_on_player_screen>>
      /\ raced => raced'
      /\ is_on_player_screen' /\ SilentSoon => is_on_player_screen \/ raced'
<1>1. ASSUME NEW w \in Writer, Send(w) PROVE Goal
  <2>1. Awaited'
    BY <1>1, SentIsAwaited
  <2>2. UNCHANGED <<screen_task, rpc, raced, is_on_player_screen>>
    BY <1>1 DEF Send, controller
  <2>3. QED
    BY <2>1, <2>2
<1>2. ASSUME NEW w \in Writer, NEW t \in Tone, NEW n, ShowLevel(w, t, n) PROVE Goal
  <2>1. Awaited'
    BY <1>2, WrittenIsAwaited, WritersAndKinds DEF ShowLevel
  <2>2. UNCHANGED <<screen_task, rpc, raced, is_on_player_screen>>
    BY <1>2 DEF ShowLevel, controller
  <2>3. QED
    BY <2>1, <2>2
<1>3. CASE ScrollDown \/ ScrollUp
  <2>1. UNCHANGED Others /\ UNCHANGED <<window, pending, is_on_player_screen>>
        /\ Ready
    BY <1>3 DEF ScrollDown, ScrollUp
  <2>2. UNCHANGED <<queue, song, levels, rpc, screen_task, raced>>
    BY <2>1 DEF Others
  <2>3. Awaited => Awaited'
    BY <2>1, <2>2 DEF Awaited, Ready
  <2>4. QED
    BY <2>1, <2>2, <2>3
<1>4. CASE ChangeVolume
  <2>1. UNCHANGED Others /\ UNCHANGED <<window, pending, is_on_player_screen>>
        /\ Ready
    BY <1>4 DEF ChangeVolume
  <2>2. UNCHANGED <<queue, song, levels, rpc, screen_task, raced>>
    BY <2>1 DEF Others
  <2>3. Awaited => Awaited'
    BY <2>1, <2>2 DEF Awaited, Ready
  <2>4. QED
    BY <2>1, <2>2, <2>3
<1>5. CASE MoveWindow
  <2>1. cpc' = "highlight" /\ UNCHANGED is_on_player_screen /\ UNCHANGED Others
    BY <1>5 DEF MoveWindow
  <2>2. QED
    BY <2>1 DEF Awaited, Others
<1>6. CASE Highlight \/ GoToSongListScreen
  <2>1. Awaited'
    BY <1>6, WrittenIsAwaited, WritersAndKinds DEF Highlight, GoToSongListScreen
  <2>2. /\ UNCHANGED Others
        /\ is_on_player_screen' => is_on_player_screen
    BY <1>6 DEF Highlight, GoToSongListScreen
  <2>3. QED
    BY <2>1, <2>2 DEF Others
<1>7. CASE ShowVolume \/ ShowIcon
  <2>1. Awaited'
    BY <1>7, WrittenIsAwaited, WritersAndKinds DEF ShowVolume, ShowIcon
  <2>2. UNCHANGED <<screen_task, rpc, raced, is_on_player_screen>>
    BY <1>7 DEF ShowVolume, ShowIcon, controller
  <2>3. QED
    BY <2>1, <2>2
<1>8. CASE GoToPlayerScreen
  <2>1. Awaited'
    BY <1>8, WrittenIsAwaited, WritersAndKinds DEF GoToPlayerScreen
  <2>2. UNCHANGED <<screen_task, rpc>> /\ (raced \/ SilentSoon => raced')
    BY <1>8, Zenon DEF GoToPlayerScreen
  <2>3. QED
    BY <2>1, <2>2
<1>9. QED
  BY <1>1, <1>2, <1>3, <1>4, <1>5, <1>6, <1>7, <1>8, WritersAndKinds
     DEF UserStep, ToneShows, ControllerInput, ControllerExecute, ShowNormalLevel

LEMMA ReaderStepIsAwaited ==
  ASSUME TypeOK, ReaderStep
  PROVE  /\ UNCHANGED <<screen_task, window, levels, is_on_player_screen, raced>>
         /\ Awaited => Awaited'
         /\ SilentSoon' /\ is_on_player_screen => SilentSoon
         /\ Awaited' \/ UNCHANGED is_song_paused \/ SilentSoon
<1>1. UNCHANGED <<queue, window, levels, controller, screen_task, raced>>
  BY DEF ReaderStep, ReaderFrame, SetPlayingSong, CheckScreen, ReaderShows, ReaderSets
<1>2. UNCHANGED <<cpc, is_on_player_screen>>
  BY <1>1 DEF controller
<1>3. CASE SetPlayingSong \/ CheckScreen
  <2>1. UNCHANGED <<is_song_paused, pending>>
    BY <1>3 DEF SetPlayingSong, CheckScreen, song
  <2>2. SilentSoon' => ~is_on_player_screen
    BY <1>3 DEF SetPlayingSong, CheckScreen, SilentSoon
  <2>3. QED
    BY <1>1, <1>2, <2>1, <2>2 DEF Awaited
<1>4. CASE ReaderShows
  <2>1. Awaited'
    BY <1>4, WrittenIsAwaited, WritersAndKinds DEF ReaderShows
  <2>2. ~SilentSoon'
    BY <1>4 DEF ReaderShows, SilentSoon
  <2>3. QED
    BY <1>1, <1>2, <2>1, <2>2
<1>5. CASE ReaderSets
  BY <1>1, <1>2, <1>5 DEF ReaderSets, SilentSoon, Awaited
<1>6. QED
  BY <1>3, <1>4, <1>5 DEF ReaderStep

-----------------------------------------------------------------------------
(* What is drawn, after a step of anybody else and of the screen task.      *)

LEMMA UserStepKeepsScreen ==
  ASSUME ScreenInv, UserStep
  PROVE  RowsInv' /\ BarsInv' /\ IconInv'
<1>1. /\ UNCHANGED <<screen_task, rpc>>
      /\ Awaited => Awaited'
      /\ Awaited' \/ UNCHANGED <<window, song, levels, is_on_player_screen>>
      /\ raced => raced'
      /\ is_on_player_screen' /\ SilentSoon => is_on_player_screen \/ raced'
  BY UserStepIsAwaited DEF ScreenInv, ControlInv
<1>2. UNCHANGED <<spc, line, number_of_songs, shown, shown_rows, shown_paused,
                  shown_volume, shown_level>>
  BY <1>1 DEF screen_task, picture
<1>3. SilentSoon' = SilentSoon
  BY <1>1 DEF SilentSoon
<1>4. CASE Awaited'
  <2>1. RowsInv' /\ BarsInv'
    BY <1>2, <1>4 DEF ScreenInv, RowsInv, BarsInv
  <2>2. IconInv'
    BY <1>1, <1>3, <1>4 DEF ScreenInv, IconInv
  <2>3. QED
    BY <2>1, <2>2
<1>5. CASE ~Awaited'
  <2>1. UNCHANGED <<window, song, levels, is_on_player_screen>> /\ ~Awaited
    BY <1>1, <1>5
  <2>2. \A i \in Row : RowAt(i)' = RowAt(i)
    BY <1>2, <2>1 DEF RowAt, NameOf, window
  <2>3. RowsInv'
    BY <1>2, <2>1, <2>2 DEF ScreenInv, RowsInv
  <2>4. BarsInv'
    BY <1>2, <2>1 DEF ScreenInv, BarsInv, levels
  <2>5. IconInv'
    BY <1>1, <1>2, <1>3, <2>1 DEF ScreenInv, IconInv, song
  <2>6. QED
    BY <2>3, <2>4, <2>5
<1>6. QED
  BY <1>4, <1>5

LEMMA ReaderStepKeepsScreen ==
  ASSUME ScreenInv, ReaderStep
  PROVE  RowsInv' /\ BarsInv' /\ IconInv'
<1>1. /\ UNCHANGED <<screen_task, window, levels, is_on_player_screen, raced>>
      /\ Awaited => Awaited'
      /\ SilentSoon' /\ is_on_player_screen => SilentSoon
      /\ Awaited' \/ UNCHANGED is_song_paused \/ SilentSoon
  BY ReaderStepIsAwaited DEF ScreenInv, ControlInv
<1>2. UNCHANGED <<spc, line, number_of_songs, shown, shown_rows, shown_paused,
                  shown_volume, shown_level>>
  BY <1>1 DEF screen_task, picture
<1>3. \A i \in Row : RowAt(i)' = RowAt(i)
  BY <1>1, <1>2 DEF RowAt, NameOf, window
<1>4. RowsInv'
  BY <1>1, <1>2, <1>3 DEF ScreenInv, RowsInv
<1>5. BarsInv'
  BY <1>1, <1>2 DEF ScreenInv, BarsInv, levels
<1>6. IconInv'
  BY <1>1, <1>2 DEF ScreenInv, IconInv
<1>7. QED
  BY <1>4, <1>5, <1>6

LEMMA ScreenStepKeepsScreen ==
  ASSUME ScreenInv, ScreenStep
  PROVE  RowsInv' /\ BarsInv' /\ IconInv'
<1>1. UNCHANGED <<window, volume_percentage, level, is_song_paused, pending, cpc,
                  is_on_player_screen, rpc>>
  BY DEF ScreenStep, ScreenFrame, song, levels, controller
<1>2. SilentSoon' = SilentSoon
  BY <1>1 DEF SilentSoon
<1>3. UNCHANGED queue => Awaited' = Awaited
  BY <1>1 DEF Awaited
<1>4. UNCHANGED number_of_songs => \A i \in Row : RowAt(i)' = RowAt(i)
  BY <1>1 DEF RowAt, NameOf, window
<1>5. CASE PopulateSong \/ PopulateEnd
  <2>1. shown = None /\ None # "list" /\ None # "player"
    BY <1>5 DEF ScreenInv, RowsInv, PopulateSong, PopulateEnd, None
  <2>2. UNCHANGED <<shown, raced>>
    BY <1>5 DEF PopulateSong, PopulateEnd, picture
  <2>3. QED
    BY <1>1, <1>2, <2>1, <2>2 DEF ScreenInv, RowsInv, BarsInv, IconInv
<1>6. CASE ReceiveUpdate
  <2>1. Head(queue) \in Kind /\ shown' = Head(queue) /\ line' = 0
        /\ spc' = (IF Head(queue) = "list" THEN "rows" ELSE "song")
        /\ UNCHANGED raced
    BY <1>6, ReceiveStaysBounded, ScreenAssumption
       DEF ScreenInv, ControlInv, TypeOK, ReceiveUpdate
  <2>2. \/ shown' = "list" /\ spc' = "rows"
        \/ shown' = "player" /\ spc' = "song"
    BY <2>1, Zenon DEF Kind
  <2>3. \A i \in Row : line' <= i
    BY <2>1, ScreenAssumption DEF Row
  <2>4. QED
    BY <1>1, <1>2, <2>1, <2>2, <2>3 DEF ScreenInv, RowsInv, BarsInv, IconInv
<1>7. CASE DrawRow
  <2>1. /\ spc = "rows" /\ line \in Row /\ line' = line + 1
        /\ shown_rows' = [shown_rows EXCEPT ![line] = RowAt(line)]
        /\ shown_rows \in [Row -> RowContent]
        /\ UNCHANGED <<queue, spc, number_of_songs, shown, shown_paused,
                       shown_volume, shown_level, raced>>
    BY <1>7, ScreenAssumption DEF DrawRow, ScreenInv, ControlInv, TypeOK, Row
  <2>2. ASSUME NEW i \in Row, shown = "list"
        PROVE  shown_rows'[i] = RowAt(i) \/ Awaited \/ line' <= i
    <3>1. CASE i = line
      BY <2>1, <3>1
    <3>2. CASE i # line
      BY <2>1, <2>2, <3>2 DEF ScreenInv, RowsInv, Row
    <3>3. QED
      BY <3>1, <3>2
  <2>3. RowsInv'
    BY <1>3, <1>4, <2>1, <2>2 DEF RowsInv
  <2>4. QED
    BY <1>1, <1>2, <1>3, <2>1, <2>3 DEF ScreenInv, BarsInv, IconInv
<1>8. CASE DrawRowsEnd
  <2>1. /\ spc = "rows" /\ line = Lines /\ spc' = "wait"
        /\ UNCHANGED <<queue, number_of_songs, shown, shown_rows, shown_paused,
                       shown_volume, shown_level, raced>>
    BY <1>8 DEF DrawRowsEnd, picture
  <2>2. \A i \in Row : ~(line <= i)
    BY <2>1, ScreenAssumption DEF Row
  <2>3. RowsInv'
    BY <1>3, <1>4, <2>1, <2>2 DEF ScreenInv, RowsInv
  <2>4. \A t \in Tone : spc # t
    BY <2>1, WritersAndKinds
  <2>5. QED
    BY <1>1, <1>2, <1>3, <2>1, <2>3, <2>4 DEF ScreenInv, BarsInv, IconInv
<1>9. CASE DrawSong \/ DrawIcon \/ DrawVolume \/ \E t \in Tone : DrawLevel(t)
  <2>1. /\ spc \notin {"populate", "rows"} /\ spc' \notin {"populate", "rows"}
        /\ UNCHANGED <<queue, number_of_songs, shown, shown_rows>>
    BY <1>9, WritersAndKinds
       DEF DrawSong, DrawIcon, DrawVolume, DrawLevel, AfterVolume, AfterTreble
  <2>2. RowsInv'
    BY <1>3, <1>4, <2>1 DEF ScreenInv, RowsInv
  <2>3. CASE DrawSong
    BY <1>1, <1>2, <1>3, <2>1, <2>2, <2>3 DEF DrawSong, ScreenInv, BarsInv, IconInv
  <2>4. CASE DrawIcon
    <3>1. /\ spc = "icon" /\ spc' = "volume" /\ shown_paused' = is_song_paused
          /\ UNCHANGED <<shown_volume, shown_level>>
          /\ raced /\ SilentSoon => raced'
      BY <2>4, Zenon DEF DrawIcon
    <3>2. QED
      BY <1>1, <1>2, <1>3, <2>1, <2>2, <3>1 DEF ScreenInv, BarsInv, IconInv
  <2>5. CASE DrawVolume
    <3>1. /\ spc = "volume" /\ spc' = AfterVolume
          /\ shown_volume' = volume_percentage
          /\ UNCHANGED <<shown_paused, shown_level, raced>>
      BY <2>5 DEF DrawVolume
    <3>2. \A t \in Tone : spc' \in {"treble", t}
      BY <3>1, WritersAndKinds DEF AfterVolume, AfterTreble
    <3>3. QED
      BY <1>1, <1>2, <1>3, <2>1, <2>2, <3>1, <3>2 DEF ScreenInv, BarsInv, IconInv
  <2>6. ASSUME NEW t \in Tone, DrawLevel(t)
        PROVE  BarsInv' /\ IconInv'
    <3>1. /\ spc = t /\ t \in {"treble", "bass"}
          /\ shown_level' = [shown_level EXCEPT ![t] = level[t]]
          /\ spc' = (IF t = "treble" THEN AfterTreble ELSE "wait")
          /\ shown_level \in [Tone -> 0..255 \cup {Blank}]
          /\ UNCHANGED <<shown_volume, shown_paused, raced>>
      BY <2>6, WritersAndKinds DEF DrawLevel, ScreenInv, ControlInv, TypeOK
    <3>2. ASSUME NEW u \in Tone, shown = "player"
          PROVE  shown_level'[u] = level[u] \/ Awaited \/ spc' = u
      <4>1. CASE u = t
        BY <3>1, <4>1
      <4>2. CASE u # t /\ t = "treble"
        BY <3>1, <4>2, WritersAndKinds DEF AfterTreble
      <4>3. CASE u # t /\ t = "bass"
        BY <3>1, <3>2, <4>3 DEF ScreenInv, BarsInv
      <4>4. QED
        BY <3>1, <4>1, <4>2, <4>3
    <3>3. shown_volume = volume_percentage \/ Awaited \/ shown # "player"
      BY <3>1 DEF ScreenInv, BarsInv
    <3>4. BarsInv'
      BY <1>1, <1>3, <2>1, <3>1, <3>2, <3>3 DEF BarsInv
    <3>5. IconInv'
      BY <1>1, <1>2, <1>3, <2>1, <3>1 DEF ScreenInv, IconInv
    <3>6. QED
      BY <3>4, <3>5
  <2>7. QED
    BY <1>9, <2>2, <2>3, <2>4, <2>5, <2>6
<1>10. QED
  BY <1>5, <1>6, <1>7, <1>8, <1>9 DEF ScreenStep

LEMMA StutterKeepsScreen ==
  ASSUME ScreenInv, UNCHANGED vars
  PROVE  RowsInv' /\ BarsInv' /\ IconInv'
<1> USE DEF vars, window, song, levels, controller, choice, screen_task, picture
<1>1. Awaited' = Awaited /\ SilentSoon' = SilentSoon
  BY DEF Awaited, SilentSoon
<1>2. \A i \in Row : RowAt(i)' = RowAt(i)
  BY DEF RowAt, NameOf
<1>3. QED
  BY <1>1, <1>2 DEF ScreenInv, RowsInv, BarsInv, IconInv

-----------------------------------------------------------------------------
(* The inductive invariant: types, window, choice, and for every field that *)
(* is on the screen, that it is current or that a drawing of it is to come. *)
THEOREM ScreenInvariant == Spec => []ScreenInv
<1>1. Init => ScreenInv
  BY InitScreen
<1>2. ScreenInv /\ [Next]_vars => ScreenInv'
  <2> SUFFICES ASSUME ScreenInv, [Next]_vars PROVE ScreenInv'
    OBVIOUS
  <2>1. ControlInv'
    BY ControlStep DEF ScreenInv
  <2>2. RowsInv' /\ BarsInv' /\ IconInv'
    BY UserStepKeepsScreen, ReaderStepKeepsScreen, ScreenStepKeepsScreen,
       StutterKeepsScreen DEF Next, UserStep
  <2>3. QED
    BY <2>1, <2>2 DEF ScreenInv
<1>3. QED
  BY <1>1, <1>2, PTL DEF Spec

(* Types: the queue of updates within its length, no index negative, for    *)
(* any list.                                                                *)
THEOREM ScreenTypeCorrect == Spec => []TypeOK
<1>1. ScreenInv => TypeOK
  BY DEF ScreenInv, ControlInv
<1>2. QED
  BY <1>1, ScreenInvariant, PTL

(* The window has the screen's height and holds the highlighted song        *)
(* (mp3_oled_controller__song_list_highlight_song).                         *)
THEOREM WindowHoldsAlways == Spec => []WindowHolds
<1>1. ScreenInv => WindowHolds
  BY DEF ScreenInv, ControlInv, WindowInv, WindowHolds
<1>2. QED
  BY <1>1, ScreenInvariant, PTL

(* The song a press of the button would play exists (mp3_controller__scroll *)
(* with its kept number of songs).                                          *)
THEOREM ChosenExistsAlways == Spec => []ChosenExists
<1>1. ScreenInv => ChosenExists
  BY DEF ScreenInv, ControlInv, ChoiceInv, ChosenExists
<1>2. QED
  BY <1>1, ScreenInvariant, PTL

LEMMA QuietIsNotAwaited == Quiet => ~Awaited /\ spc = "wait" /\ cpc = "ready"
BY DEF Quiet, Awaited

(* When all is quiet the screen shows the current window, volume and        *)
(* levels, although updates are dropped and fields written while it draws.  *)
THEOREM DrawnIsCurrentAlways == Spec => []DrawnIsCurrent
<1>1. ScreenInv => DrawnIsCurrent
  <2> SUFFICES ASSUME ScreenInv, Quiet
               PROVE  /\ shown = "list" => shown_rows = [i \in Row |-> RowAt(i)]
                      /\ shown = "player" =>
                           shown_volume = controller_volume /\ shown_level = level
    BY DEF DrawnIsCurrent
  <2>1. /\ shown_rows \in [Row -> RowContent]
        /\ shown_level \in [Tone -> 0..255 \cup {Blank}]
        /\ level \in [Tone -> 0..255]
    BY DEF ScreenInv, ControlInv, TypeOK
  <2>2. ASSUME shown = "list" PROVE shown_rows = [i \in Row |-> RowAt(i)]
    BY <2>1, <2>2, QuietIsNotAwaited DEF ScreenInv, RowsInv
  <2>3. ASSUME shown = "player"
        PROVE  shown_volume = controller_volume /\ shown_level = level
    <3>1. \A t \in Tone : spc \notin {"song", "icon", "volume", "treble", t}
      BY QuietIsNotAwaited, WritersAndKinds
    <3>2. \A t \in Tone : shown_level[t] = level[t]
      BY <2>3, <3>1, QuietIsNotAwaited DEF ScreenInv, BarsInv
    <3>3. shown_level = level
      BY <2>1, <3>2
    <3>4. shown_volume = controller_volume
      BY <2>3, QuietIsNotAwaited DEF ScreenInv, ControlInv, BarsInv, VolumeInv
    <3>5. QED
      BY <3>3, <3>4
  <2>4. QED
    BY <2>2, <2>3
<1>2. QED
  BY <1>1, ScreenInvariant, PTL

(* When all is quiet and the list is shown, its one inverse line is the     *)
(* chosen song.                                                             *)
THEOREM HighlightedIsChosenAlways == Spec => []HighlightedIsChosen
<1>1. ScreenInv => HighlightedIsChosen
  <2> SUFFICES ASSUME ScreenInv, Quiet, shown = "list"
               PROVE  \E i \in Row :
                        /\ \A j \in Row : shown_rows[j].inverse <=> j = i
                        /\ shown_rows[i].item = NameOf(scroll_index)
    BY DEF HighlightedIsChosen
  <2>1. \A j \in Row : shown_rows[j] = RowAt(j)
    BY QuietIsNotAwaited DEF ScreenInv, RowsInv
  <2>2. /\ highlighted_song_index = scroll_index
        /\ scroll_index \in current_top_song_index..current_bottom_song_index
        /\ current_bottom_song_index = current_top_song_index + Lines - 1
    BY QuietIsNotAwaited DEF ScreenInv, ControlInv, WindowInv
  <2>3. current_top_song_index \in Nat /\ scroll_index \in Nat /\ Lines \in Nat
    BY ScreenAssumption DEF ScreenInv, ControlInv, TypeOK
  <2> DEFINE i == scroll_index - current_top_song_index
  <2>4. i \in Row /\ current_top_song_index + i = scroll_index
    BY <2>2, <2>3 DEF Row
  <2>5. \A j \in Row : scroll_index = current_top_song_index + j <=> j = i
    BY <2>3 DEF Row
  <2> HIDE DEF i
  <2>6. \A j \in Row :
          /\ RowAt(j).inverse = (highlighted_song_index = current_top_song_index + j)
          /\ RowAt(j).item = NameOf(current_top_song_index + j)
    BY DEF RowAt
  <2>7. \A j \in Row : shown_rows[j].inverse <=> j = i
    BY <2>1, <2>2, <2>5, <2>6, Zenon
  <2>8. shown_rows[i].item = NameOf(scroll_index)
    BY <2>1, <2>4, <2>6
  <2>9. QED
    BY <2>4, <2>7, <2>8
<1>2. QED
  BY <1>1, ScreenInvariant, PTL

(* When all is quiet on the player screen the icon is the right one, unless *)
(* the user came over under the reader's eyes.                              *)
THEOREM IconIsCurrentAlways == Spec => []IconIsCurrent
<1>1. ScreenInv => IconIsCurrent
  BY QuietIsNotAwaited DEF ScreenInv, IconInv, IconIsCurrent
<1>2. QED
  BY <1>1, ScreenInvariant, PTL
=============================================================================
