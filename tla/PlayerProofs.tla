----------------------------- MODULE PlayerProofs -----------------------------
(***************************************************************************)
(* What holds of the programs that play music for every volume, playlist   *)
(* and number of bars: the frame on the LCD (SpectrumLink), the volume     *)
(* mute gives back (MpdVolume), the song the play key plays (MpdPlaylist), *)
(* the settings Apply puts into use (SpectrumSettings) and the rows of a   *)
(* bar (SpectrumBars).                                                     *)
(***************************************************************************)
EXTENDS MCPrograms, TLAPS

-----------------------------------------------------------------------------
(* SpectrumLink *)

LEMMA LinkStep ==
  ASSUME LastFrameIsShown, [Link!Next]_Link!lkvars
  PROVE  LastFrameIsShown'
<1> USE DEF LastFrameIsShown, Link!LastFrameIsShown
<1>1. CASE Link!SendFrame
  BY <1>1 DEF Link!SendFrame, Link!Differs, Link!Reconnect
<1>2. CASE Link!LinkBreaks
  BY <1>2 DEF Link!LinkBreaks
<1>3. CASE UNCHANGED <<link, last_chksum, lcd, lost>>
  BY <1>3
<1>4. CASE Link!Next
  BY <1>1, <1>2, <1>3, <1>4
  DEF Link!Next, Link!KeyLowerVolume, Link!KeyRaiseVolume, Link!SetVolume,
      Link!KeyMute, Link!KeyPlay, Link!Playback
<1>5. CASE UNCHANGED Link!lkvars
  BY <1>3, <1>5 DEF Link!lkvars
<1> QED
  BY <1>4, <1>5

(* For any volumes and frames: the daemon shows the frame that was drawn   *)
(* last while the plugin is connected, although only frames that differ    *)
(* are sent, unless that one could not be sent.                            *)
THEOREM LastFrameStays == Link!Spec => []LastFrameIsShown
<1>1. Link!Init => LastFrameIsShown
  BY DEF Link!Init, LastFrameIsShown, Link!LastFrameIsShown
<1> QED
  BY <1>1, LinkStep, PTL DEF Link!Spec

-----------------------------------------------------------------------------
(* MpdVolume *)

VolumeTypes ==
  /\ volume \in 0..MaxVolume /\ muted_volume \in 0..MaxVolume
  /\ lkey \in {Volume!None} \cup 0..MaxVolume
  /\ volume_adjust \in Int /\ got \in 0..MaxVolume

(* What was muted is kept, the volume is 0 unless someone else changed it, *)
(* and the main loop has not lost sight of it between two calls of mpd.    *)
KeptWhileMuted ==
  muted_volume # 0 /\ ~touched =>
    /\ before = muted_volume
    /\ mpd_pc # "silence" => volume = 0
    /\ mpd_pc = "unmute" => got = volume /\ volume_adjust = 0
    /\ mpd_pc = "adjust" => got = muted_volume

VolumeInv == VolumeTypes /\ KeptWhileMuted

LEMMA ClipIs ==
  ASSUME NEW v \in Int
  PROVE  /\ Volume!Clip(v) \in 0..MaxVolume
         /\ v \in 0..MaxVolume => Volume!Clip(v) = v
BY ProgramsAssumption DEF Volume!Clip

LEMMA VolumeInit == Volume!Init => VolumeInv
BY ProgramsAssumption
DEF Volume!Init, Volume!None, VolumeInv, VolumeTypes, KeptWhileMuted

LEMMA VolumeTypesStep ==
  ASSUME VolumeTypes, [Volume!Next]_Volume!vvars
  PROVE  VolumeTypes'
<1> USE ProgramsAssumption DEF VolumeTypes
<1>1. CASE \E step \in {-1, 1} : Volume!KeyVolume(step) \/ Volume!LkeyGet(step)
  BY <1>1 DEF Volume!KeyVolume, Volume!LkeyGet
<1>2. CASE Volume!LkeySet
  BY <1>2 DEF Volume!LkeySet, Volume!None
<1>3. CASE Volume!AdjustSet
  BY <1>3, ClipIs DEF Volume!AdjustSet
<1>4. CASE Volume!KeyMute \/ Volume!OtherClient \/ Volume!MuteGet \/ Volume!Silence
           \/ Volume!Unmute \/ Volume!AdjustGet
  BY <1>4 DEF Volume!KeyMute, Volume!OtherClient, Volume!MuteGet, Volume!Silence,
              Volume!Unmute, Volume!AdjustGet
<1>5. CASE Volume!Next
  BY <1>1, <1>2, <1>3, <1>4, <1>5 DEF Volume!Next
<1>6. CASE UNCHANGED Volume!vvars
  BY <1>6 DEF Volume!vvars
<1> QED
  BY <1>5, <1>6

LEMMA KeptStep ==
  ASSUME VolumeInv, [Volume!Next]_Volume!vvars
  PROVE  KeptWhileMuted'
<1> USE DEF VolumeInv, KeptWhileMuted
<1>1. CASE Volume!KeyMute
  BY <1>1 DEF Volume!KeyMute
<1>2. ASSUME NEW step \in {-1, 1}, Volume!KeyVolume(step) PROVE KeptWhileMuted'
  BY <1>2 DEF Volume!KeyVolume
<1>3. ASSUME NEW step \in {-1, 1}, Volume!LkeyGet(step) PROVE KeptWhileMuted'
  BY <1>3 DEF Volume!LkeyGet
<1>4. CASE Volume!LkeySet \/ Volume!OtherClient
  BY <1>4 DEF Volume!LkeySet, Volume!OtherClient
<1>5. CASE Volume!MuteGet
  BY <1>5 DEF Volume!MuteGet, VolumeTypes
<1>6. CASE Volume!Silence
  BY <1>6 DEF Volume!Silence
<1>7. CASE Volume!Unmute \/ Volume!AdjustSet
  BY <1>7 DEF Volume!Unmute, Volume!AdjustSet
<1>8. CASE Volume!AdjustGet
  BY <1>8 DEF Volume!AdjustGet
<1>9. CASE Volume!Next
  BY <1>1, <1>2, <1>3, <1>4, <1>5, <1>6, <1>7, <1>8, <1>9 DEF Volume!Next
<1>10. CASE UNCHANGED Volume!vvars
  BY <1>10 DEF Volume!vvars
<1> QED
  BY <1>9, <1>10

(* Only the end of a mute clears muted_volume; it starts from that volume. *)
LEMMA GivesBackStep ==
  ASSUME VolumeInv, Volume!Next, muted_volume # 0, muted_volume' = 0, ~touched
  PROVE  volume' = Volume!Clip(before + volume_adjust)
<1>1. before = muted_volume /\ muted_volume \in 0..MaxVolume
  BY DEF VolumeInv, VolumeTypes, KeptWhileMuted
<1>2. Volume!Unmute \/ Volume!AdjustSet
  BY DEF Volume!Next, Volume!KeyMute, Volume!KeyVolume, Volume!LkeyGet, Volume!LkeySet,
         Volume!OtherClient, Volume!MuteGet, Volume!Silence, Volume!AdjustGet
<1>3. CASE Volume!Unmute
  <2>1. volume' = muted_volume /\ volume_adjust = 0
    BY <1>3 DEF Volume!Unmute, VolumeInv, KeptWhileMuted
  <2> QED
    BY <1>1, <2>1, ClipIs
<1>4. CASE Volume!AdjustSet
  BY <1>1, <1>4 DEF Volume!AdjustSet, VolumeInv, KeptWhileMuted
<1> QED
  BY <1>2, <1>3, <1>4

(* For every volume and number of presses: what ends a mute in g15mpd       *)
(* starts again from the volume that was muted, unless the L keys or        *)
(* another client of mpd changed the volume in between.                     *)
THEOREM MutedVolumeComesBack == Volume!Spec => MuteGivesBack
<1>1. VolumeInv /\ [Volume!Next]_Volume!vvars => VolumeInv'
  BY VolumeTypesStep, KeptStep DEF VolumeInv
<1>2. VolumeInv /\ [Volume!Next]_Volume!vvars =>
        [muted_volume # 0 /\ muted_volume' = 0 /\ ~touched
           => volume' = Volume!Clip(before + volume_adjust)]_Volume!vvars
  BY GivesBackStep
<1> QED
  BY VolumeInit, <1>1, <1>2, PTL DEF Volume!Spec, MuteGivesBack, Volume!MuteGivesBack

-----------------------------------------------------------------------------
(* MpdPlaylist *)

(* The song the canvas highlights, if it is one with an id, is the one the  *)
(* play key will play.  The LCD highlights the same song, except while the  *)
(* canvas holds a frame of another one that was not sent yet.               *)
HighlightedIsSelected ==
  /\ on_canvas \in Playlist!Songs => item_selected = on_canvas
  /\ dpc # "send" => on_canvas = song_shown
  /\ song_shown \in Playlist!Songs /\ ~(dpc = "send" /\ on_canvas \in Playlist!Songs)
       => item_selected = song_shown

LEMMA NoneIsNoSong == Playlist!None \notin Playlist!Songs
BY ProgramsAssumption DEF Playlist!None, Playlist!Songs

LEMMA HighlightedStep ==
  ASSUME HighlightedIsSelected, [Playlist!Next]_Playlist!mvars
  PROVE  HighlightedIsSelected'
<1> USE NoneIsNoSong DEF HighlightedIsSelected
<1>1. CASE Playlist!DrawPlaylist
  <2>1. /\ dpc = "draw" /\ dpc' = "send" /\ UNCHANGED song_shown
        /\ \/ UNCHANGED <<item_selected, on_canvas>>
           \/ /\ item_selected' = Playlist!ItemOf(current)
              /\ \/ on_canvas' = current
                 \/ on_canvas' = Playlist!None /\ current \notin Playlist!Songs
    <3>1. ~(current =< Length) => current \notin Playlist!Songs
      BY ProgramsAssumption DEF Playlist!Songs
    <3> QED
      BY <1>1, <3>1 DEF Playlist!DrawPlaylist
  <2> QED
    BY <2>1 DEF Playlist!ItemOf, Playlist!Songs
<1>2. CASE Playlist!DrawTrack
  BY <1>2 DEF Playlist!DrawTrack
<1>3. CASE Playlist!SendFrame
  BY <1>3 DEF Playlist!SendFrame
<1>4. CASE UNCHANGED <<item_selected, on_canvas, song_shown>> /\ dpc # "send" /\ dpc' # "send"
  BY <1>4
<1>5. CASE UNCHANGED <<item_selected, on_canvas, song_shown, dpc>>
  BY <1>5
<1>6. CASE Playlist!Next
  BY <1>1, <1>2, <1>3, <1>4, <1>5, <1>6
  DEF Playlist!Next, Playlist!FgCheck, Playlist!KeyL3, Playlist!KeyPlay, Playlist!Switch,
      Playlist!KeyNextPrev, Playlist!TakeCurrentSong, Playlist!TestSelection,
      Playlist!TestAbove, Playlist!MoveDown, Playlist!MoveUp, Playlist!ClearSelection
<1>7. CASE UNCHANGED Playlist!mvars
  BY <1>5, <1>7 DEF Playlist!mvars
<1> QED
  BY <1>6, <1>7

(* For a playlist of any length: the play key plays the song that is       *)
(* highlighted, however presses and drawing interleave, or the one in the  *)
(* frame that is about to replace it; nothing is said of the song whose id *)
(* is 0 nor of a highlight below the last one.                             *)
THEOREM HighlightedIsPlayed == Playlist!Spec => PlaysTheHighlighted
<1>1. Playlist!Init => HighlightedIsSelected
  BY NoneIsNoSong DEF Playlist!Init, HighlightedIsSelected
<1>2. HighlightedIsSelected =>
        [Playlist!KeyPlay =>
           IF dpc = "send" /\ on_canvas \in Playlist!Songs THEN playing_song' = on_canvas
           ELSE song_shown \in Playlist!Songs => playing_song' = song_shown]_Playlist!mvars
  BY DEF HighlightedIsSelected, Playlist!KeyPlay
<1> QED
  BY <1>1, <1>2, HighlightedStep, PTL
  DEF Playlist!Spec, PlaysTheHighlighted, Playlist!PlaysTheHighlighted

-----------------------------------------------------------------------------
(* SpectrumBars *)

(* The numbers of a bar stay below the half of the unsigned ones; those     *)
(* bounds are what keeps the comparisons of signed and unsigned ones apart. *)
BarsTypes ==
  /\ set \in [pbar : 0..1, overlay : 0..1, rownum : 1..4,
              effect : {"none", "peak", "analog", "line"}, detached : 0..1,
              analog_step : 2..9]
  /\ limit = Bars!LimitOf(set)
  /\ bar \in Int /\ -32768 =< bar /\ bar =< 32767
  /\ peak \in Int /\ -1 =< peak /\ peak =< 32767

(* Since it was last raised, with the settings of now, the peak is two rows *)
(* below the limit.                                                         *)
PeakBelow == ~lowered /\ set.effect = "peak" /\ ~Bars!LimitWraps => peak =< limit - 2

BarsInv == BarsTypes /\ PeakBelow /\ BarsOffTheTitle

LEMMA UnsignedIs ==
  ASSUME NEW n \in Int, 0 =< n + 65536, n =< 65535
  PROVE  /\ n >= 0 => Bars!Unsigned(n) = n
         /\ n < 0 => Bars!Unsigned(n) = n + 65536
<1>1. Bars!Unsigned(n) = n % 65536
  BY DEF Bars!Unsigned, Bars!WORD
<1>2. \A m \in Nat : m =< 65535 => m % 65536 = m /\ (m - 65536) % 65536 = m
  OBVIOUS
<1>3. CASE n >= 0
  BY <1>1, <1>2, <1>3
<1>4. CASE n < 0
  <2>1. n + 65536 \in Nat /\ n + 65536 =< 65535 /\ n = (n + 65536) - 65536
    BY <1>4
  <2>2. ((n + 65536) - 65536) % 65536 = n + 65536
    BY <1>2, <2>1
  <2> QED
    BY <1>1, <1>4, <2>1, <2>2
<1> QED
  BY <1>3, <1>4

(* Whatever the settings, there is room for a bar, or none and a limit that *)
(* wraps around; a limit that does not is one row less than the room.       *)
LEMMA Room ==
  ASSUME BarsTypes
  PROVE  /\ Bars!TitleRows(set) \in 0..36 /\ Bars!BottomLine(set) \in 36..42
         /\ ~Bars!LimitWraps =>
              limit \in 6..42 /\ limit + Bars!TitleRows(set) + set.pbar = Bars!BottomLine(set)
         /\ Bars!LimitWraps => limit = 65535
<1>1. set.pbar \in 0..1 /\ set.overlay \in 0..1 /\ set.rownum \in 1..4
  BY DEF BarsTypes
<1>2. Bars!TitleRows(set) \in {0, 9, 18, 27, 36}
  <2>1. CASE set.overlay = 0
    BY <1>1, <2>1 DEF Bars!TitleRows, Bars!CHAR_HEIGH
  <2>2. CASE set.overlay = 1
    BY <1>1, <2>2 DEF Bars!TitleRows, Bars!CHAR_HEIGH
  <2> QED
    BY <1>1, <2>1, <2>2
<1>3. /\ Bars!Space(set) = 43 - 7 * set.pbar - Bars!TitleRows(set)
      /\ Bars!BottomLine(set) = 42 - 6 * set.pbar
  BY <1>1, <1>2 DEF Bars!Space, Bars!BottomLine, Bars!G15_LCD_HEIGHT, Bars!INFERIOR_SPACE
<1>4. limit = Bars!Unsigned(Bars!Space(set) - 1)
  BY DEF BarsTypes, Bars!LimitOf
<1>5. CASE Bars!Space(set) < 1
  <2>1. Bars!Space(set) - 1 = -1
    BY <1>1, <1>2, <1>3, <1>5
  <2>2. limit = 65535
    BY <1>4, <2>1, UnsignedIs
  <2> QED
    BY <1>1, <1>2, <1>3, <1>5, <2>2 DEF Bars!LimitWraps
<1>6. CASE ~(Bars!Space(set) < 1)
  <2>1. Bars!Space(set) - 1 \in 6..42
    BY <1>1, <1>2, <1>3, <1>6
  <2>2. limit = Bars!Space(set) - 1
    BY <1>4, <2>1, UnsignedIs
  <2> QED
    BY <1>1, <1>2, <1>3, <1>6, <2>1, <2>2 DEF Bars!LimitWraps
<1> QED
  BY <1>5, <1>6

(* The height that is drawn: within the limit, unless that wrapped.         *)
LEMMA HeightDrawn ==
  ASSUME BarsTypes
  PROVE  LET y == Bars!BelowMark(Bars!Clipped(bar, limit), limit)
         IN  /\ y \in Int /\ 0 =< y /\ y =< 32767
             /\ ~Bars!LimitWraps => y =< limit
             /\ ~Bars!LimitWraps /\ set.effect = "peak" => y =< limit - 2
<1>1. bar \in Int /\ -32768 =< bar /\ bar =< 32767
  BY DEF BarsTypes
<1>2. CASE Bars!LimitWraps
  <2>1. limit = 65535
    BY <1>2, Room
  <2>2. Bars!Unsigned(bar) \in Nat /\ Bars!Unsigned(bar) =< 65535
    <3>1. CASE bar < 0
      BY <1>1, <3>1, UnsignedIs
    <3>2. CASE bar >= 0
      BY <1>1, <3>2, UnsignedIs
    <3> QED
      BY <1>1, <3>1, <3>2
  <2>3. /\ Bars!Clipped(bar, limit) \in Int
        /\ 0 =< Bars!Clipped(bar, limit) /\ Bars!Clipped(bar, limit) =< 32767
    BY <1>1, <2>1, <2>2 DEF Bars!Clipped
  <2>4. Bars!Unsigned(limit - 2) = 65533
    BY <2>1, UnsignedIs
  <2> QED
    BY <1>2, <2>3, <2>4 DEF Bars!BelowMark
<1>3. CASE ~Bars!LimitWraps
  <2>1. limit \in 6..42
    BY <1>3, Room
  <2>2. Bars!Clipped(bar, limit) \in 0..limit
    <3>1. CASE bar < 0
      <4>1. Bars!Unsigned(bar) = bar + 65536
        BY <1>1, <3>1, UnsignedIs
      <4> QED
        BY <1>1, <2>1, <4>1 DEF Bars!Clipped
    <3>2. CASE bar >= 0
      <4>1. Bars!Unsigned(bar) = bar
        BY <1>1, <3>2, UnsignedIs
      <4> QED
        BY <1>1, <2>1, <3>2, <4>1 DEF Bars!Clipped
    <3> QED
      BY <1>1, <3>1, <3>2
  <2>3. Bars!Unsigned(limit - 2) = limit - 2
    BY <2>1, UnsignedIs
  <2> QED
    BY <1>3, <2>1, <2>2, <2>3 DEF Bars!BelowMark
<1> QED
  BY <1>2, <1>3

(* A led of the analog effect starts at most its own rows above the row of  *)
(* the bar, and never below the bottom line.                                *)
LEMMA LedRows ==
  ASSUME NEW row \in 0..42, NEW step \in 2..9, Bars!BottomLine(set) \in 36..42
  PROVE  \/ Bars!TopLed(row, step) = 43
         \/ Bars!TopLed(row, step) \in row - (step - 2) .. Bars!BottomLine(set)
<1> DEFINE line == Bars!BottomLine(set)
           end == row + step - (row % step) - 1
           count == (line - end) \div step
<1>1. row % step \in 0..(step - 1) /\ end \in Int
  OBVIOUS
<1>2. Bars!TopLed(row, step) = IF end > line THEN 43 ELSE line - count * step - step + 2
  BY DEF Bars!TopLed, Bars!G15_LCD_HEIGHT
<1>3. CASE end =< line
  <2>1. line - end \in Nat
    BY <1>1, <1>3
  <2>2. count \in Nat /\ count * step \in 0..(line - end)
    BY <2>1
  <2> HIDE DEF count
  <2> QED
    BY <1>1, <1>2, <1>3, <2>2
<1> QED
  BY <1>1, <1>2, <1>3

LEMMA DrawStep ==
  ASSUME BarsInv, Bars!DrawBar
  PROVE  BarsInv'
<1> DEFINE y == Bars!BelowMark(Bars!Clipped(bar, limit), limit)
           row == Bars!BottomLine(set) - y
<1>1. /\ top' = IF set.effect = "analog" THEN Bars!TopLed(row, set.analog_step) ELSE row
      /\ peak' = Bars!NextPeak(y) /\ mark' = Bars!MarkRow(peak')
      /\ lowered' = (lowered /\ y =< peak)
      /\ UNCHANGED <<set, limit, bar>>
  BY DEF Bars!DrawBar
<1>2. /\ y \in Int /\ 0 =< y /\ y =< 32767
      /\ ~Bars!LimitWraps => y =< limit
      /\ ~Bars!LimitWraps /\ set.effect = "peak" => y =< limit - 2
  BY HeightDrawn DEF BarsInv
<1> HIDE DEF y
<1>3. /\ BarsTypes /\ PeakBelow
      /\ peak \in Int /\ -1 =< peak /\ peak =< 32767
      /\ set.pbar \in 0..1 /\ set.detached \in 0..1 /\ set.analog_step \in 2..9
  BY DEF BarsInv, BarsTypes
<1>4. peak' \in Int /\ -1 =< peak' /\ peak' =< 32767
  BY <1>1, <1>2, <1>3 DEF Bars!NextPeak
<1>5. BarsTypes'
  BY <1>1, <1>3, <1>4 DEF BarsTypes
<1>6. Bars!LimitWraps' = Bars!LimitWraps
  BY <1>1 DEF Bars!LimitWraps
<1>7. CASE Bars!LimitWraps
  BY <1>5, <1>6, <1>7 DEF BarsInv, PeakBelow, BarsOffTheTitle, Bars!BarsOffTheTitle
<1>8. CASE ~Bars!LimitWraps
  <2>1. limit \in 6..42 /\ limit + Bars!TitleRows(set) + set.pbar = Bars!BottomLine(set)
        /\ Bars!TitleRows(set) \in 0..36 /\ Bars!BottomLine(set) \in 36..42
    BY <1>3, <1>8, Room
  <2>2. ASSUME ~lowered', set.effect = "peak" PROVE peak' =< limit - 2
    <3>1. peak' = IF y > peak THEN y ELSE peak - 1
      BY <1>1, <2>2 DEF Bars!NextPeak
    <3>2. ASSUME y =< peak PROVE peak =< limit - 2
      <4>1. ~lowered
        BY <1>1, <2>2, <3>2
      <4> QED
        BY <1>3, <1>8, <2>2, <4>1 DEF PeakBelow
    <3> QED
      BY <1>2, <1>3, <1>8, <2>1, <2>2, <3>1, <3>2
  <2>3. row \in Bars!TitleRows(set) .. Bars!BottomLine(set)
    BY <1>2, <1>3, <1>8, <2>1
  <2> HIDE DEF row
  <2>4. top' # 43 =>
          /\ top' >= Bars!TitleRows(set)
                       - (IF set.effect = "analog" THEN set.analog_step - 2 ELSE 0)
          /\ top' =< Bars!BottomLine(set)
    <3>1. row \in 0..42
      BY <2>1, <2>3
    <3> QED
      BY <1>1, <1>3, <2>1, <2>3, <3>1, LedRows
  <2>5. mark' >= Bars!TitleRows(set) - (IF lowered' THEN 1 ELSE 0)
    <3>1. CASE mark' = Bars!NoMark
      BY <2>1, <3>1 DEF Bars!NoMark, Bars!G15_LCD_HEIGHT
    <3>2. CASE mark' # Bars!NoMark
      <4>1. /\ set.effect = "peak" /\ Bars!Unsigned(peak') < limit /\ peak' > 0
            /\ mark' = Bars!BottomLine(set) - peak' - 2 * set.detached
        BY <1>1, <3>2 DEF Bars!MarkRow
      <4>2. peak' < limit
        BY <1>4, <4>1, UnsignedIs
      <4>3. ~lowered' => peak' =< limit - 2
        BY <2>2, <4>1
      <4> QED
        BY <1>3, <1>4, <2>1, <4>1, <4>2, <4>3
    <3> QED
      BY <3>1, <3>2
  <2>6. BarsOffTheTitle'
    BY <1>1, <2>4, <2>5 DEF BarsOffTheTitle, Bars!BarsOffTheTitle, Bars!G15_LCD_HEIGHT,
       Bars!TitleRows, Bars!BottomLine
  <2> QED
    BY <1>1, <1>5, <2>2, <2>6 DEF BarsInv, PeakBelow
<1> QED
  BY <1>7, <1>8

LEMMA RenderStep ==
  ASSUME BarsInv, Bars!RenderFreq
  PROVE  BarsInv'
<1>1. /\ bar' \in Int /\ -32768 =< bar' /\ bar' =< 32767
      /\ UNCHANGED <<set, limit, peak, top, mark, lowered>>
  BY ProgramsAssumption DEF Bars!RenderFreq
<1> QED
  BY <1>1 DEF BarsInv, BarsTypes, PeakBelow, BarsOffTheTitle, Bars!BarsOffTheTitle,
     Bars!LimitWraps, Bars!Space, Bars!TitleRows, Bars!BottomLine

LEMMA SettingStep ==
  ASSUME BarsInv, NEW k \in DOMAIN Bars!Values, Bars!ConfApply(k)
  PROVE  BarsInv'
<1>1. PICK v \in Bars!Values[k] : set' = [set EXCEPT ![k] = v]
  BY DEF Bars!ConfApply
<1>2. /\ limit' = Bars!LimitOf(set') /\ lowered' = TRUE
      /\ top' = 43 /\ UNCHANGED <<bar, peak>>
  BY DEF Bars!ConfApply, Bars!G15_LCD_HEIGHT
<1>3. set' \in [pbar : 0..1, overlay : 0..1, rownum : 1..4,
                effect : {"none", "peak", "analog", "line"}, detached : 0..1,
                analog_step : 2..9]
  <2> DEFINE S == [pbar : 0..1, overlay : 0..1, rownum : 1..4,
                   effect : {"none", "peak", "analog", "line"}, detached : 0..1,
                   analog_step : 2..9]
  <2>1. set \in S
    BY DEF BarsInv, BarsTypes
  <2>2. /\ k \in {"pbar", "overlay", "detached"} => v \in 0..1
        /\ k = "rownum" => v \in 1..4
        /\ k = "effect" => v \in {"none", "peak", "analog", "line"}
        /\ k = "analog_step" => v \in 2..9
    <3>1. RowNumbers \subseteq 1..4 /\ AnalogSteps \subseteq 2..9
      BY ProgramsAssumption
    <3>2. CASE k \in {"pbar", "overlay", "detached"}
      BY <3>2 DEF Bars!Values
    <3>3. CASE k = "rownum"
      BY <3>1, <3>3 DEF Bars!Values
    <3>4. CASE k = "effect"
      BY <3>4 DEF Bars!Values
    <3>5. CASE k = "analog_step"
      BY <3>1, <3>5 DEF Bars!Values
    <3> QED
      BY <3>2, <3>3, <3>4, <3>5
  <2>3. k \in {"pbar", "overlay", "detached", "rownum", "effect", "analog_step"}
    BY DEF Bars!Values
  <2> QED
    BY <1>1, <2>1, <2>2, <2>3
<1>4. BarsTypes'
  BY <1>2, <1>3 DEF BarsInv, BarsTypes, Bars!LimitOf
<1> QED
  BY <1>2, <1>4 DEF BarsInv, PeakBelow, BarsOffTheTitle, Bars!BarsOffTheTitle,
     Bars!G15_LCD_HEIGHT

LEMMA BarsInit == Bars!Init => BarsInv
<1> SUFFICES ASSUME Bars!Init PROVE BarsInv
  OBVIOUS
<1> USE DEF Bars!Init, Bars!Defaults
<1>1. BarsTypes
  BY DEF BarsTypes
<1>2. PeakBelow
  <2>1. ~Bars!LimitWraps => limit \in 6..42
    BY <1>1, Room
  <2> QED
    BY <2>1 DEF PeakBelow
<1>3. BarsOffTheTitle
  BY DEF BarsOffTheTitle, Bars!BarsOffTheTitle
<1> QED
  BY <1>1, <1>2, <1>3 DEF BarsInv

(* For every sequence of heights of 16 bits and of settings, of one to four *)
(* rows of title and of steps of two to nine: neither a bar nor the mark of *)
(* its peak reaches onto the title, nor a bar below the bottom line, unless *)
(* the limit, an unsigned number, wraps around.  A led of the analog effect *)
(* reaches onto the title by less than its own rows, and by one the mark of *)
(* a peak from before the settings changed.                                 *)
THEOREM BarsStayOffTitle == Bars!Spec => []BarsOffTheTitle
<1>1. BarsInv /\ [Bars!Next]_Bars!bvars => BarsInv'
  <2> SUFFICES ASSUME BarsInv, [Bars!Next]_Bars!bvars PROVE BarsInv'
    OBVIOUS
  <2>1. CASE Bars!Next
    BY <2>1, DrawStep, RenderStep, SettingStep DEF Bars!Next
  <2>2. CASE UNCHANGED Bars!bvars
    BY <2>2 DEF Bars!bvars, BarsInv, BarsTypes, PeakBelow, BarsOffTheTitle,
       Bars!BarsOffTheTitle, Bars!LimitWraps, Bars!Space, Bars!TitleRows, Bars!BottomLine
  <2> QED
    BY <2>1, <2>2
<1>2. BarsInv => BarsOffTheTitle
  BY DEF BarsInv
<1> QED
  BY BarsInit, <1>1, <1>2, PTL DEF Bars!Spec

-----------------------------------------------------------------------------
(* SpectrumSettings *)

SettingsSet == [num_bars : Int, rownum : Int, keys : BOOLEAN]

SettingsTypes ==
  /\ settings \in SettingsSet
  /\ file \in {Settings!NoFile} \cup SettingsSet
  /\ dialog \in {Settings!Closed} \cup SettingsSet
  /\ tmp_bars \in Int /\ tmp_rownum \in Int

(* The slider of the bars stands where tmp_bars is, or at its end; that of  *)
(* the rows shows what Apply would put into use; with no dialog open it     *)
(* left a value of its own only where that was remembered.                  *)
SlidersAgree ==
  /\ dialog # Settings!Closed /\ ~reopened =>
       dialog.num_bars = Settings!OnSlider(tmp_bars)
  /\ ~leftover /\ dialog = Settings!Closed =>
       tmp_rownum \in {Settings!Unset, settings.rownum}
  /\ ~leftover /\ dialog # Settings!Closed =>
       dialog.rownum = IF tmp_rownum # Settings!Unset THEN tmp_rownum ELSE settings.rownum

SettingsInv == SettingsTypes /\ SlidersAgree

LEMMA DefaultsAreSettings == Settings!Defaults \in SettingsSet
<1>1. MaxBars \div 2 \in Int
  BY ProgramsAssumption
<1> QED
  BY <1>1 DEF Settings!Defaults, SettingsSet

LEMMA ClosedIsNone == Settings!Closed \notin SettingsSet /\ Settings!NoFile \notin SettingsSet
BY DEF Settings!Closed, Settings!NoFile, SettingsSet

LEMMA CheckedIsSettings ==
  ASSUME NEW f \in SettingsSet
  PROVE  Settings!Checked(f) \in SettingsSet
<1> DEFINE n == IF f.num_bars \in 2..MaxBars THEN f.num_bars ELSE Settings!Defaults.num_bars
           r == IF f.rownum \in Settings!Rows THEN f.rownum ELSE Settings!Defaults.rownum
<1>1. n \in Int /\ r \in Int
  BY DefaultsAreSettings DEF SettingsSet
<1>2. Settings!Checked(f) = [f EXCEPT !.num_bars = n, !.rownum = r]
  BY DEF Settings!Checked, SettingsSet
<1> HIDE DEF n, r
<1> QED
  BY <1>1, <1>2 DEF SettingsSet

LEMMA ReadIsSettings ==
  ASSUME NEW s \in SettingsSet, file \in {Settings!NoFile} \cup SettingsSet
  PROVE  Settings!ReadConfig(s) \in SettingsSet
BY CheckedIsSettings DEF Settings!ReadConfig

LEMMA SliderIs ==
  ASSUME NEW t \in Int
  PROVE  Settings!OnSlider(t) \in Int
BY ProgramsAssumption DEF Settings!OnSlider

LEMMA FollowIs ==
  ASSUME NEW t \in Int, NEW v \in Int
  PROVE  Settings!Follow(t, v) \in Int
<1>1. \A a, b \in Int : Settings!NearestPower(a, b) \in Int
  BY DEF Settings!NearestPower
<1> QED
  BY <1>1, SliderIs DEF Settings!Follow

LEMMA SettingsInit == Settings!Init => SettingsInv
<1> SUFFICES ASSUME Settings!Init PROVE SettingsInv
  OBVIOUS
<1>1. Settings!Stored \subseteq {Settings!NoFile} \cup SettingsSet
  <2>1. {1, 3, MaxBars} \subseteq Int /\ {2, MaxRows + 1} \subseteq Int
    BY ProgramsAssumption
  <2> QED
    BY <2>1 DEF Settings!Stored, SettingsSet
<1>2. Settings!Zero \in SettingsSet
  BY DEF Settings!Zero, SettingsSet
<1>3. SettingsTypes
  BY <1>1, <1>2 DEF Settings!Init, SettingsTypes, Settings!Unset
<1> QED
  BY <1>3 DEF Settings!Init, SettingsInv, SlidersAgree

LEMMA ConfStep ==
  ASSUME SettingsInv, Settings!Conf
  PROVE  SettingsInv'
<1>1. settings \in SettingsSet /\ settings.num_bars \in Int /\ settings.rownum \in Int
  BY DEF SettingsInv, SettingsTypes, SettingsSet
<1>2. CASE dialog # Settings!Closed
  <2>1. /\ tmp_bars' = settings.num_bars /\ reopened' = TRUE
        /\ UNCHANGED <<dialog, tmp_rownum, settings, file, leftover>>
    BY <1>2 DEF Settings!Conf
  <2> QED
    BY <1>1, <2>1 DEF SettingsInv, SettingsTypes, SlidersAgree, Settings!Closed,
       Settings!NoFile, Settings!Unset
<1>3. CASE dialog = Settings!Closed
  <2> DEFINE b == Settings!Follow(settings.num_bars, Settings!OnSlider(settings.num_bars))
             n == Settings!OnSlider(b)
             r == IF settings.rownum \in Settings!Rows THEN settings.rownum ELSE 1
  <2>1. /\ tmp_bars' = b
        /\ tmp_rownum' = IF settings.rownum \in Settings!Rows THEN tmp_rownum ELSE 1
        /\ UNCHANGED <<settings, file, leftover>>
    BY <1>3 DEF Settings!Conf
  <2>2. dialog' = [settings EXCEPT !.num_bars = n, !.rownum = r]
    BY <1>1, <1>3 DEF Settings!Conf, SettingsSet, Settings!OnSlider
  <2>3. b \in Int /\ n \in Int /\ r \in Int
    <3>1. Settings!OnSlider(settings.num_bars) \in Int
      BY <1>1, SliderIs
    <3>2. b \in Int
      BY <1>1, <3>1, FollowIs
    <3>3. n \in Int
      BY <3>2, SliderIs
    <3>4. r \in Int
      BY <1>1
    <3> QED
      BY <3>2, <3>3, <3>4
  <2> HIDE DEF r
  <2>4. dialog' \in SettingsSet /\ dialog'.num_bars = n /\ dialog'.rownum = r
    BY <1>1, <2>2, <2>3 DEF SettingsSet
  <2>5. SettingsTypes'
    BY <2>1, <2>3, <2>4 DEF SettingsInv, SettingsTypes, Settings!NoFile
  <2>6. (dialog # Settings!Closed)'
    BY <2>4, ClosedIsNone DEF Settings!Closed
  <2>7. dialog'.num_bars = Settings!OnSlider(tmp_bars)'
    BY <2>1, <2>4 DEF Settings!OnSlider
  <2>8. ~leftover => dialog'.rownum = IF tmp_rownum' # Settings!Unset THEN tmp_rownum'
                                      ELSE settings.rownum
    BY <1>1, <1>3, <2>1, <2>4 DEF r, SettingsInv, SlidersAgree, Settings!Unset
  <2> QED
    BY <2>1, <2>5, <2>6, <2>7, <2>8 DEF SettingsInv, SlidersAgree, Settings!Unset
<1> QED
  BY <1>2, <1>3

LEMMA SliderStep ==
  ASSUME SettingsInv, Settings!SlideBars \/ Settings!SlideRownum \/ Settings!Toggle
  PROVE  SettingsInv'
<1>1. /\ dialog # Settings!Closed /\ dialog \in SettingsSet
      /\ tmp_bars \in Int /\ UNCHANGED <<settings, file>>
  BY DEF SettingsInv, SettingsTypes, Settings!SlideBars, Settings!SlideRownum, Settings!Toggle
<1>2. CASE Settings!SlideBars
  <2>1. PICK v \in 2..MaxBars :
          /\ tmp_bars' = Settings!Follow(tmp_bars, v)
          /\ dialog' = [dialog EXCEPT !.num_bars = Settings!OnSlider(tmp_bars')]
    BY <1>2 DEF Settings!SlideBars, Settings!OnSlider
  <2>2. tmp_bars' \in Int /\ Settings!OnSlider(tmp_bars') \in Int
    <3>1. v \in Int
      BY ProgramsAssumption
    <3> QED
      BY <1>1, <2>1, <3>1, FollowIs, SliderIs
  <2>3. /\ dialog' \in SettingsSet /\ dialog'.num_bars = Settings!OnSlider(tmp_bars')
        /\ dialog'.rownum = dialog.rownum
    BY <1>1, <2>1, <2>2 DEF SettingsSet
  <2>4. (dialog # Settings!Closed)'
    BY <2>3, ClosedIsNone DEF Settings!Closed
  <2>5. UNCHANGED <<tmp_rownum, leftover>>
    BY <1>2 DEF Settings!SlideBars
  <2> QED
    BY <1>1, <2>2, <2>3, <2>4, <2>5 DEF SettingsInv, SettingsTypes, SlidersAgree,
       Settings!OnSlider, Settings!Unset, Settings!NoFile
<1>3. CASE Settings!SlideRownum
  <2>1. PICK v \in Settings!Rows : tmp_rownum' = v /\ dialog' = [dialog EXCEPT !.rownum = v]
    BY <1>3 DEF Settings!SlideRownum
  <2>2. v \in Int /\ v # Settings!Unset
    BY ProgramsAssumption DEF Settings!Rows, Settings!Unset
  <2>3. /\ dialog' \in SettingsSet /\ dialog'.rownum = v
        /\ dialog'.num_bars = dialog.num_bars
    BY <1>1, <2>1, <2>2 DEF SettingsSet
  <2>4. (dialog # Settings!Closed)'
    BY <2>3, ClosedIsNone DEF Settings!Closed
  <2>5. UNCHANGED <<tmp_bars, reopened>>
    BY <1>3 DEF Settings!SlideRownum
  <2> QED
    BY <1>1, <2>1, <2>2, <2>3, <2>4, <2>5 DEF SettingsInv, SettingsTypes, SlidersAgree,
       Settings!OnSlider, Settings!Unset, Settings!NoFile
<1>4. CASE Settings!Toggle
  <2>1. dialog' = [dialog EXCEPT !.keys = ~@]
    BY <1>4 DEF Settings!Toggle
  <2>2. /\ dialog' \in SettingsSet /\ dialog'.rownum = dialog.rownum
        /\ dialog'.num_bars = dialog.num_bars
    BY <1>1, <2>1 DEF SettingsSet
  <2>3. (dialog # Settings!Closed)'
    BY <2>2, ClosedIsNone DEF Settings!Closed
  <2>4. UNCHANGED <<tmp_bars, tmp_rownum, leftover, reopened>>
    BY <1>4 DEF Settings!Toggle
  <2> QED
    BY <1>1, <2>2, <2>3, <2>4 DEF SettingsInv, SettingsTypes, SlidersAgree,
       Settings!OnSlider, Settings!Unset, Settings!NoFile
<1> QED
  BY <1>2, <1>3, <1>4

LEMMA ApplyStep ==
  ASSUME SettingsInv, Settings!ConfApply \/ Settings!ConfOk
  PROVE  /\ SettingsInv'
         /\ settings'.keys = dialog.keys
         /\ ~reopened /\ tmp_bars \in 2..MaxBars => settings'.num_bars = dialog.num_bars
         /\ ~leftover => settings'.rownum = dialog.rownum
<1>1. /\ dialog # Settings!Closed /\ dialog \in SettingsSet /\ settings \in SettingsSet
      /\ tmp_bars \in Int /\ tmp_rownum \in Int
      /\ settings' = Settings!Applied /\ UNCHANGED <<tmp_bars, tmp_rownum>>
  BY DEF SettingsInv, SettingsTypes, Settings!ConfApply, Settings!ConfOk
<1>2. /\ settings'.keys = dialog.keys
      /\ settings'.num_bars =
           IF tmp_bars # Settings!Unset THEN tmp_bars ELSE settings.num_bars
      /\ settings'.rownum =
           IF tmp_rownum # Settings!Unset THEN tmp_rownum ELSE settings.rownum
  BY <1>1 DEF Settings!Applied
<1>3. settings' \in SettingsSet
  <2>1. dialog.keys \in BOOLEAN
    BY <1>1, Zenon DEF SettingsSet
  <2>2. settings.num_bars \in Int /\ settings.rownum \in Int
    BY <1>1 DEF SettingsSet
  <2> QED
    BY <1>1, <2>1, <2>2 DEF Settings!Applied, SettingsSet
<1>4. ~reopened /\ tmp_bars \in 2..MaxBars => settings'.num_bars = dialog.num_bars
  BY <1>1, <1>2, ProgramsAssumption DEF SettingsInv, SlidersAgree, Settings!OnSlider,
     Settings!Unset
<1>5. ~leftover => settings'.rownum = dialog.rownum
  BY <1>1, <1>2 DEF SettingsInv, SlidersAgree
<1>6. CASE Settings!ConfApply
  BY <1>1, <1>2, <1>3, <1>4, <1>5, <1>6 DEF Settings!ConfApply, SettingsInv, SettingsTypes,
     SlidersAgree, Settings!OnSlider, Settings!Unset, Settings!NoFile, Settings!Closed
<1>7. CASE Settings!ConfOk
  BY <1>1, <1>2, <1>3, <1>4, <1>5, <1>7 DEF Settings!ConfOk, SettingsInv, SettingsTypes,
     SlidersAgree, Settings!OnSlider, Settings!Unset, Settings!NoFile, Settings!Closed
<1> QED
  BY <1>2, <1>4, <1>5, <1>6, <1>7

LEMMA SettingsStep ==
  ASSUME SettingsInv, [Settings!Next]_Settings!pvars
  PROVE  SettingsInv'
<1>1. CASE Settings!InitPlugin
  <2>1. /\ settings' = Settings!ReadConfig(Settings!Defaults)
        /\ leftover' = (leftover \/ dialog # Settings!Closed \/ tmp_rownum # Settings!Unset)
        /\ UNCHANGED <<file, dialog, tmp_bars, tmp_rownum, reopened>>
    BY <1>1 DEF Settings!InitPlugin
  <2>2. settings' \in SettingsSet
    BY <2>1, ReadIsSettings, DefaultsAreSettings DEF SettingsInv, SettingsTypes
  <2> QED
    BY <2>1, <2>2 DEF SettingsInv, SettingsTypes, SlidersAgree, Settings!OnSlider,
       Settings!Unset, Settings!NoFile, Settings!Closed
<1>2. CASE Settings!ResetGui
  <2>1. /\ tmp_bars' = Settings!Defaults.num_bars /\ tmp_rownum' = Settings!Defaults.rownum
        /\ dialog' = Settings!Defaults /\ UNCHANGED <<settings, file>>
    BY <1>2 DEF Settings!ResetGui
  <2>2. /\ dialog' \in SettingsSet /\ tmp_bars' \in Int /\ tmp_rownum' \in Int
        /\ tmp_rownum' # Settings!Unset /\ dialog'.rownum = tmp_rownum'
    BY <2>1, DefaultsAreSettings DEF Settings!Defaults, SettingsSet, Settings!Unset
  <2>3. dialog'.num_bars = Settings!OnSlider(tmp_bars)'
    BY <2>1, ProgramsAssumption DEF Settings!Defaults, Settings!OnSlider
  <2>4. (dialog # Settings!Closed)'
    BY <2>2, ClosedIsNone DEF Settings!Closed
  <2> QED
    BY <2>1, <2>2, <2>3, <2>4 DEF SettingsInv, SettingsTypes, SlidersAgree,
       Settings!Unset, Settings!NoFile
<1>3. CASE Settings!ConfCancel
  <2>1. /\ settings' = Settings!ReadConfig(settings) /\ dialog' = Settings!Closed
        /\ leftover' = (tmp_rownum \notin {Settings!Unset, settings'.rownum})
        /\ UNCHANGED <<file, tmp_bars, tmp_rownum>>
    BY <1>3 DEF Settings!ConfCancel
  <2>2. settings' \in SettingsSet
    BY <2>1, ReadIsSettings DEF SettingsInv, SettingsTypes
  <2> QED
    BY <2>1, <2>2 DEF SettingsInv, SettingsTypes, SlidersAgree, Settings!Unset,
       Settings!NoFile, Settings!Closed
<1>4. CASE Settings!CloseWindow
  BY <1>4 DEF Settings!CloseWindow, SettingsInv, SettingsTypes, SlidersAgree,
     Settings!Unset, Settings!NoFile, Settings!Closed
<1>5. CASE Settings!L1 \/ Settings!Cleanup
  BY <1>5 DEF Settings!L1, Settings!Cleanup, SettingsInv, SettingsTypes, SlidersAgree,
     Settings!OnSlider, Settings!Unset, Settings!NoFile, Settings!Closed
<1>6. CASE UNCHANGED Settings!pvars
  BY <1>6 DEF Settings!pvars, SettingsInv, SettingsTypes, SlidersAgree,
     Settings!OnSlider, Settings!Unset, Settings!NoFile, Settings!Closed
<1>7. CASE Settings!Next
  BY <1>1, <1>2, <1>3, <1>4, <1>5, <1>7, ConfStep, SliderStep, ApplyStep DEF Settings!Next
<1> QED
  BY <1>6, <1>7

(* For every slider, file and order of opening, moving, cancelling, closing *)
(* and starting again: Apply and Ok put into use the buttons the dialog     *)
(* shows; the bars it shows, unless the open dialog was asked for again and *)
(* the slider not moved since, or the slider stands at its end for a value  *)
(* beyond; and the rows it shows, unless they had been moved in a dialog    *)
(* that was cancelled or closed, or the plugin was started with this one    *)
(* open, and not moved since.                                               *)
THEOREM DialogIsApplied == Settings!Spec => AppliedIsShown
<1>1. SettingsInv =>
        [dialog # Settings!Closed /\ (Settings!ConfApply \/ Settings!ConfOk) =>
           /\ settings'.keys = dialog.keys
           /\ ~reopened /\ tmp_bars \in 2..MaxBars => settings'.num_bars = dialog.num_bars
           /\ ~leftover => settings'.rownum = dialog.rownum]_Settings!pvars
  BY ApplyStep
<1> QED
  BY SettingsInit, SettingsStep, <1>1, PTL
  DEF Settings!Spec, AppliedIsShown, Settings!AppliedIsShown
=============================================================================
