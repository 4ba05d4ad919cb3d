------------------------------- MODULE MCPrograms ------------------------------
(***************************************************************************)
(* For TLC, the models of the programs that show something on the LCD, one *)
(* at a time (part) while the others stand still: g15stats, the spectrum   *)
(* plugins of xmms and audacious, and g15mpd.                              *)
(***************************************************************************)
EXTENDS Integers, Sequences, FiniteSetsExt

CONSTANTS MAX_SENSOR, RETRY_COUNT, MaxCpu, RowNumbers, AnalogSteps, Heights,
          MaxBars, MaxRows,
          MaxVolume, VolumeFrames, Length, MaxPresses, MaxAbove, MaxAdjust

ASSUME ProgramsAssumption ==
  /\ {MAX_SENSOR, RETRY_COUNT, MaxCpu, MaxVolume, VolumeFrames, Length,
      MaxPresses, MaxAdjust} \subseteq Nat \ {0}
  /\ MaxBars \in {4, 8, 16, 32, 64, 128}
  /\ MaxRows \in Nat \ {0, 1}
  /\ RowNumbers \subseteq 1..4 /\ AnalogSteps \subseteq 2..9
  /\ Heights \subseteq Int /\ \A h \in Heights : -32768 =< h /\ h =< 32767
  /\ MaxAbove \in Nat

SomeHeights == {-23, 20, 73}  \* for TLC

VARIABLES part,
          cycle, cycle_old, have, kpc, change, mpc, candidate, backward, shown,
          pressed,
          path, sensor_id, sensor_type, sensor_lost, have_sensor, gpc, trying,
          failed, moved,
          ncpu, view, view_mode, unicore, shows, probes,
          set, limit, bar, peak, top, mark, lowered,
          settings, file, dialog, tmp_bars, tmp_rownum, state, polls,
          locked, leftover, reopened,
          main_volume, player, playing, paused, lastvolume, vol_timeout, link,
          last_chksum, lcd, lost,
          playlist_mode, own_keyboard, foreground, current_fg_check,
          last_fg_check, playlist_selection, current, currentsong,
          item_selected, playing_song, on_canvas, song_shown, changed, dpc,
          volume, mute, volume_adjust, muted_volume, mpd_pc, got, lkey, before,
          touched

Screens  == INSTANCE StatsScreens
Sensors  == INSTANCE StatsSensors
Layout   == INSTANCE StatsLayout
Bars     == INSTANCE SpectrumBars
Settings == INSTANCE SpectrumSettings
Link     == INSTANCE SpectrumLink
Playlist == INSTANCE MpdPlaylist WITH shown <- song_shown
Volume   == INSTANCE MpdVolume WITH mpc <- mpd_pc

svars  == <<cycle, cycle_old, have, kpc, change, mpc, candidate, backward, shown,
            pressed>>
gvars  == <<path, sensor_id, sensor_type, sensor_lost, have_sensor, gpc, trying,
            failed, moved>>
lvars  == <<ncpu, view, view_mode, unicore, shows, probes>>
bvars  == <<set, limit, bar, peak, top, mark, lowered>>
pvars  == <<settings, file, dialog, tmp_bars, tmp_rownum, state, polls,
            locked, leftover, reopened>>
lkvars == <<main_volume, player, playing, paused, lastvolume, vol_timeout, link,
            last_chksum, lcd, lost>>
mvars  == <<playlist_mode, own_keyboard, foreground, current_fg_check,
            last_fg_check, playlist_selection, current, currentsong,
            item_selected, playing_song, on_canvas, song_shown, changed, dpc>>
vvars  == <<volume, mute, volume_adjust, muted_volume, mpd_pc, got, lkey, before,
            touched>>
stats    == <<svars, gvars, lvars>>
spectrum == <<bvars, pvars, lkvars>>
mpd      == <<mvars, vvars>>

(* A part that stands still keeps the first of its initial states. *)
Still(p, first) == part = p \/ first
MCInit ==
  /\ part \in {"screens", "sensors", "layout", "bars", "settings",
               "link", "playlist", "volume"}
  /\ Screens!Init /\ Still("screens", \A s \in DOMAIN have : have[s])
  /\ Sensors!Init
  /\ Still("sensors", sensor_id = 0 /\ \A s \in DOMAIN path : path[s] = "hwmon")
  /\ Layout!Init /\ Still("layout", ncpu = 1 /\ ~unicore /\ shows = {} /\ probes = 1)
  /\ Bars!Init
  /\ Settings!Init /\ Still("settings", file = Settings!NoFile)
  /\ Link!Init /\ Still("link", main_volume = 0)
  /\ Playlist!Init /\ Still("playlist", playing_song = 0)
  /\ Volume!Init /\ Still("volume", volume = 0)

StatsNext ==
  /\ UNCHANGED <<part, spectrum, mpd>>
  /\ \/ part = "screens" /\ Screens!Next /\ UNCHANGED <<gvars, lvars>>
     \/ part = "sensors" /\ Sensors!Next /\ UNCHANGED <<svars, lvars>>
     \/ part = "layout"  /\ Layout!Next  /\ UNCHANGED <<svars, gvars>>
SpectrumNext ==
  /\ UNCHANGED <<part, stats, mpd>>
  /\ \/ part = "bars"     /\ Bars!Next     /\ UNCHANGED <<pvars, lkvars>>
     \/ part = "settings" /\ Settings!Next /\ UNCHANGED <<bvars, lkvars>>
     \/ part = "link"     /\ Link!Next     /\ UNCHANGED <<bvars, pvars>>
MpdNext ==
  /\ UNCHANGED <<part, stats, spectrum>>
  /\ \/ part = "playlist" /\ Playlist!Next /\ UNCHANGED vvars
     \/ part = "volume"   /\ Volume!Next   /\ UNCHANGED mvars
MCNext == StatsNext \/ SpectrumNext \/ MpdNext

MCSpec == MCInit /\ [][MCNext]_<<part, stats, spectrum, mpd>>

-----------------------------------------------------------------------------
(* g15stats shows the screen that is selected: StatsScreens. *)
ShowsSelected == Screens!ShowsSelected

(* L2 and L3 undo each other: StatsScreens. *)
PreviousUndoesNext == Screens!PreviousUndoesNext

(* A screen is disabled when no sensor is there: StatsSensors. *)
DisabledIfNoneIsThere == Sensors!DisabledIfNoneIsThere

(* The bars of a screen lie apart: StatsLayout. *)
BarsApart == part = "layout" => Layout!BarsApart

(* The bars of the spectrum stay off the title: SpectrumBars. *)
BarsOffTheTitle == Bars!BarsOffTheTitle

(* Apply and Ok put into use what the dialog shows: SpectrumSettings. *)
AppliedIsShown == Settings!AppliedIsShown

(* The daemon shows the last frame: SpectrumLink. *)
LastFrameIsShown == Link!LastFrameIsShown

(* The play key plays the song that is highlighted: MpdPlaylist. *)
PlaysTheHighlighted == Playlist!PlaysTheHighlighted

(* Muting once more gives back the volume: MpdVolume. *)
MuteGivesBack == Volume!MuteGivesBack
================================================================================
