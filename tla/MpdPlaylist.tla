----------------------------- MODULE MpdPlaylist -----------------------------
(***************************************************************************)
(* The playlist of g15mpd: the thread of the media keys counts presses in  *)
(* playlist_selection, the drawing thread takes them from there, without a *)
(* lock, moves the song that is highlighted and remembers its id for the   *)
(* play key, and the thread of the L keys enters and leaves the playlist   *)
(* and follows the daemon's answers about the foreground.                  *)
(***************************************************************************)
EXTENDS Integers

CONSTANTS Length,         \* songs in the playlist; a song's id is its position
          MaxPresses,     \* presses not taken yet, a bound of the model
          MaxAbove        \* how far above the list it may go, another bound

VARIABLES playlist_mode, own_keyboard,
          foreground,         \* at the daemon
          current_fg_check, last_fg_check,
          playlist_selection, current, currentsong, item_selected,
          playing_song,       \* at mpd
          on_canvas, shown,   \* the song highlighted on the canvas and on the LCD, or None
          changed,
          dpc                 \* of the drawing thread

mvars == <<playlist_mode, own_keyboard, foreground, current_fg_check, last_fg_check,
           playlist_selection, current, currentsong, item_selected, playing_song,
           on_canvas, shown, changed, dpc>>

None == -1
keysvars == <<playlist_mode, own_keyboard, foreground, current_fg_check, last_fg_check>>

-----------------------------------------------------------------------------
(* Lkeys_thread *)
FgCheck ==
  /\ current_fg_check' = foreground
  /\ IF playlist_mode /\ last_fg_check # foreground
     THEN own_keyboard' = foreground /\ last_fg_check' = foreground
     ELSE UNCHANGED <<own_keyboard, last_fg_check>>
  /\ UNCHANGED <<playlist_mode, foreground, playlist_selection, current, currentsong,
                 item_selected, playing_song, on_canvas, shown, changed, dpc>>

(* L3: the song of position 0 does not become the current one. *)
KeyL3 ==
  /\ foreground
  /\ own_keyboard' = ~own_keyboard /\ playlist_mode' = ~own_keyboard
  /\ currentsong' = IF ~own_keyboard /\ playing_song > 0 THEN playing_song ELSE currentsong
  /\ UNCHANGED <<foreground, current_fg_check, last_fg_check, playlist_selection, current,
                 item_selected, playing_song, on_canvas, shown, changed, dpc>>

-----------------------------------------------------------------------------
(* event_key_thread *)
KeyNextPrev(step) ==
  /\ current_fg_check /\ playlist_mode
  /\ playlist_selection' = playlist_selection + step
  /\ playlist_selection' \in -MaxPresses..MaxPresses
  /\ current + playlist_selection' >= -MaxAbove
  /\ UNCHANGED <<keysvars, current, currentsong, item_selected, playing_song,
                 on_canvas, shown, changed, dpc>>

KeyPlay ==
  /\ current_fg_check /\ playlist_mode
  /\ playing_song' = item_selected
  /\ UNCHANGED <<keysvars, playlist_selection, current, currentsong, item_selected,
                 on_canvas, shown, changed, dpc>>

-----------------------------------------------------------------------------
(* g15display_thread, between its reads and writes of playlist_selection *)
TakeCurrentSong ==
  /\ dpc = "idle" /\ playlist_mode
  /\ changed' = (currentsong > -1)
  /\ current' = IF currentsong > -1 THEN currentsong ELSE current
  /\ currentsong' = -1
  /\ dpc' = "test"
  /\ UNCHANGED <<keysvars, playlist_selection, item_selected, playing_song, on_canvas, shown>>

TestSelection ==
  /\ dpc = "test"
  /\ dpc' = IF playlist_selection > 0 THEN "down" ELSE "test above"
  /\ UNCHANGED <<keysvars, playlist_selection, current, currentsong, item_selected,
                 playing_song, on_canvas, shown, changed>>
TestAbove ==
  /\ dpc = "test above"
  /\ dpc' = IF playlist_selection < 0 THEN "up" ELSE "draw"
  /\ UNCHANGED <<keysvars, playlist_selection, current, currentsong, item_selected,
                 playing_song, on_canvas, shown, changed>>

(* Down goes by the presses there are now, up by one and, once presses in    *)
(* both directions led above the list, without end.                          *)
MoveDown ==
  /\ dpc = "down"
  /\ IF current + 1 < Length
     THEN current' = current + playlist_selection /\ changed' = TRUE
     ELSE UNCHANGED <<current, changed>>
  /\ dpc' = "clear down"
  /\ UNCHANGED <<keysvars, playlist_selection, currentsong, item_selected, playing_song,
                 on_canvas, shown>>
MoveUp ==
  /\ dpc = "up"
  /\ IF current # 0 THEN current' = current - 1 /\ changed' = TRUE
                    ELSE UNCHANGED <<current, changed>>
  /\ dpc' = "clear up"
  /\ UNCHANGED <<keysvars, playlist_selection, currentsong, item_selected, playing_song,
                 on_canvas, shown>>
ClearSelection ==
  /\ dpc \in {"clear down", "clear up"}
  /\ playlist_selection' = 0
  /\ dpc' = IF dpc = "clear down" THEN "test above" ELSE "draw"
  /\ UNCHANGED <<keysvars, current, currentsong, item_selected, playing_song,
                 on_canvas, shown, changed>>

(* With a bug: the song below the highlighted one becomes the selected one. *)
ItemBelow(c) == IF c + 1 \in 1..(Length - 1) THEN c + 1 ELSE item_selected
(* The highlighted song becomes the selected one, if there is one and its   *)
(* id is not 0; rows after the end of the playlist are not drawn.           *)
ItemOf(c) == IF c \in 1..(Length - 1) THEN c ELSE item_selected
DrawPlaylist ==
  /\ dpc = "draw"
  /\ IF changed
     THEN item_selected' = ItemOf(current)
          /\ on_canvas' = IF current =< Length THEN current ELSE None
     ELSE UNCHANGED <<item_selected, on_canvas>>
  /\ dpc' = "send"
  /\ UNCHANGED <<keysvars, playlist_selection, current, currentsong, playing_song,
                 shown, changed>>

(* Not in the playlist, the track is drawn instead. *)
DrawTrack ==
  /\ dpc = "idle" /\ ~playlist_mode
  /\ on_canvas' = None
  /\ dpc' = "send"
  /\ UNCHANGED <<keysvars, playlist_selection, current, currentsong, item_selected,
                 playing_song, shown, changed>>

(* When it got daemon_mutex, which the other threads hold while they talk to *)
(* the daemon or to mpd, the thread sends the canvas.                        *)
SendFrame ==
  /\ dpc = "send"
  /\ shown' = on_canvas
  /\ dpc' = "idle"
  /\ UNCHANGED <<keysvars, playlist_selection, current, currentsong, item_selected,
                 playing_song, on_canvas, changed>>

Switch ==
  /\ foreground' = ~foreground
  /\ UNCHANGED <<playlist_mode, own_keyboard, current_fg_check, last_fg_check,
                 playlist_selection, current, currentsong, item_selected, playing_song,
                 on_canvas, shown, changed, dpc>>

Init ==
  /\ playlist_mode = FALSE /\ own_keyboard = FALSE
  /\ foreground = TRUE /\ current_fg_check = FALSE /\ last_fg_check = FALSE
  /\ playlist_selection = 0 /\ current = 0 /\ currentsong = 0 /\ item_selected = 0
  /\ playing_song \in {0, 1} /\ on_canvas = None /\ shown = None
  /\ changed = FALSE /\ dpc = "idle"

Next ==
  \/ FgCheck \/ KeyL3 \/ KeyPlay \/ Switch
  \/ \E step \in {-1, 1} : KeyNextPrev(step)
  \/ TakeCurrentSong \/ TestSelection \/ TestAbove \/ MoveDown \/ MoveUp \/ ClearSelection
  \/ DrawPlaylist \/ DrawTrack \/ SendFrame

Spec == Init /\ [][Next]_mvars

-----------------------------------------------------------------------------
Songs == 1..(Length - 1)

(* The play key plays the song that is highlighted, however the presses and *)
(* the drawing thread interleave; between the moment a frame is drawn and   *)
(* the one it reaches the LCD (378, 493-503) the song that frame highlights *)
(* already.  Nothing is said when the song has the id 0 or the highlight    *)
(* was moved past the end, by presses taken together (event_key_thread,     *)
(* g15display_thread).                                                      *)
PlaysTheHighlighted ==
  [][KeyPlay =>
       IF dpc = "send" /\ on_canvas \in Songs THEN playing_song' = on_canvas
       ELSE shown \in Songs => playing_song' = shown]_mvars
=============================================================================
