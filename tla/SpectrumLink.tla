----------------------------- MODULE SpectrumLink -----------------------------
(***************************************************************************)
(* The callbacks of the audacious spectrum plugin that run while it is on: *)
(* the media keys, and the display, which draws what is played and the     *)
(* volume while it changes, sends the frame when its checksum changed and  *)
(* connects again when that fails.  The two share lastvolume: the volume   *)
(* mute gives back, and the volume the display drew last.                  *)
(***************************************************************************)
EXTENDS Integers

CONSTANTS MaxVolume,      \* 100 in the code
          VolumeFrames    \* frames the volume stays on display: 10 in the code

VARIABLES main_volume,    \* of audacious
          player,         \* of audacious: "play", "pause", "stop"
          playing, paused, lastvolume, vol_timeout,
          link,           \* g15screen_fd: "none" (-1), "up", "broken"
          last_chksum,    \* the frame drawn last; Blank before the first
          lcd,            \* what the screen of the plugin shows at the daemon
          lost            \* the frame drawn last could not be sent

lkvars == <<main_volume, player, playing, paused, lastvolume, vol_timeout, link,
            last_chksum, lcd, lost>>

Volume == 0..MaxVolume
NoVolume == -1
Frame(p, v) == [playing |-> p, volume |-> v]
Blank == [playing |-> FALSE, volume |-> -2]

-----------------------------------------------------------------------------
(* poll_mmediakeys, one key each; AudioPlay pauses what is stopped with the  *)
(* interface of today.                                                       *)
SetVolume(v) ==
  /\ main_volume' = v
  /\ UNCHANGED <<player, playing, paused, lastvolume, vol_timeout, link, last_chksum,
                 lcd, lost>>
KeyLowerVolume == SetVolume((IF main_volume < 1 THEN 1 ELSE main_volume) - 1)
KeyRaiseVolume ==
  SetVolume((IF main_volume > MaxVolume - 1 THEN MaxVolume - 1 ELSE main_volume) + 1)

(* Mute leaves the volume in lastvolume, where the display finds it changed, *)
(* draws the volume of now, 0, and keeps that.                               *)
KeyMute ==
  /\ IF main_volume # 0
     THEN lastvolume' = main_volume /\ main_volume' = 0
     ELSE main_volume' = lastvolume /\ UNCHANGED lastvolume
  /\ UNCHANGED <<player, playing, paused, vol_timeout, link, last_chksum, lcd, lost>>

KeyPlay ==
  /\ IF playing
     THEN /\ player' = IF paused THEN "play" ELSE "pause"
          /\ paused' = ~paused
     ELSE player' = "pause" /\ UNCHANGED paused
  /\ UNCHANGED <<main_volume, playing, lastvolume, vol_timeout, link, last_chksum,
                 lcd, lost>>

(* g15analyser_playback_start, g15analyser_playback_stop: audacious starts   *)
(* or ends a song, by the key or otherwise.                                  *)
Playback(on) ==
  /\ player' = IF on THEN "play" ELSE "stop"
  /\ playing' = on /\ paused' = FALSE
  /\ UNCHANGED <<main_volume, lastvolume, vol_timeout, link, last_chksum, lcd,
                 lost>>

(* The volume drawn: while it differs from the one drawn last, and for some  *)
(* frames after.                                                             *)
ShowsVolume == lastvolume # main_volume \/ vol_timeout >= 0
NextTimeout ==
  IF lastvolume # main_volume THEN VolumeFrames
  ELSE IF vol_timeout >= 0 THEN vol_timeout - 1 ELSE vol_timeout
Drawn == Frame(playing, IF ShowsVolume THEN main_volume ELSE NoVolume)

(* With a bug: the checksum covers what is drawn before the volume only. *)
DiffersBelow(frame) == frame.playing # last_chksum.playing \/ last_chksum = Blank
Differs(frame) == frame # last_chksum

(* g15_send fails: new_g15_screen, whose screen is blank, or which fails.    *)
Reconnect ==
  /\ link' \in {"up", "none"}
  /\ lcd' = Blank /\ lost' = TRUE

(* g15send_func *)
SendFrame ==
  /\ IF ~Differs(Drawn) THEN UNCHANGED <<link, lcd, lost>>
     ELSE IF link = "up" THEN lcd' = Drawn /\ lost' = FALSE /\ UNCHANGED link
     ELSE Reconnect
  /\ last_chksum' = Drawn
  /\ vol_timeout' = NextTimeout
  /\ lastvolume' = IF ShowsVolume THEN main_volume ELSE lastvolume
  /\ UNCHANGED <<main_volume, player, playing, paused>>

(* The daemon ends, and the screen with it. *)
LinkBreaks ==
  /\ link = "up"
  /\ link' = "broken"
  /\ UNCHANGED <<main_volume, player, playing, paused, lastvolume, vol_timeout,
                 last_chksum, lcd, lost>>

Init ==
  /\ main_volume \in Volume /\ player = "stop" /\ playing = FALSE /\ paused = FALSE
  /\ lastvolume = 0 /\ vol_timeout = 0
  /\ link = "up" /\ last_chksum = Blank /\ lcd = Blank /\ lost = FALSE

Next ==
  \/ KeyLowerVolume \/ KeyRaiseVolume \/ KeyMute \/ KeyPlay
  \/ \E on \in BOOLEAN : Playback(on)
  \/ \E v \in Volume : v # main_volume /\ SetVolume(v)
  \/ SendFrame \/ LinkBreaks

Spec == Init /\ [][Next]_lkvars

-----------------------------------------------------------------------------
(* While connected, the daemon shows the frame drawn last, though only      *)
(* frames that differ are sent: unless sending one failed, which is not     *)
(* sent again until something else is drawn (g15send_func).                 *)
LastFrameIsShown == link = "up" => lcd = last_chksum \/ lost
=============================================================================
