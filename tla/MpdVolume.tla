------------------------------ MODULE MpdVolume -------------------------------
(***************************************************************************)
(* The volume in g15mpd: the thread of the media keys leaves what the user *)
(* asks for in mute and volume_adjust under daemon_mutex, the main loop    *)
(* carries it out under the same mutex, and the thread of the L keys and   *)
(* other clients of mpd change the volume without it.                      *)
(***************************************************************************)
EXTENDS Integers

CONSTANTS MaxVolume,    \* 100 in the code
          MaxAdjust     \* presses not carried out yet, a bound of the model

VARIABLES volume,       \* at mpd
          mute, volume_adjust, muted_volume,
          mpc,          \* of the main loop, which holds daemon_mutex beyond "idle"
          got,          \* the volume the main loop read
          lkey,         \* the volume the L key thread is about to set, or None
          before,       \* the volume the user muted, or None
          touched       \* someone else changed the volume since

vvars == <<volume, mute, volume_adjust, muted_volume, mpc, got, lkey, before, touched>>

None == -1
Clip(v) == IF v < 0 THEN 0 ELSE IF v > MaxVolume THEN MaxVolume ELSE v

-----------------------------------------------------------------------------
(* event_key_thread *)
KeyMute ==
  /\ mpc = "idle" /\ mute' = TRUE
  /\ UNCHANGED <<volume, volume_adjust, muted_volume, mpc, got, lkey, before, touched>>
KeyVolume(step) ==
  /\ mpc = "idle"
  /\ volume_adjust' = volume_adjust + step
  /\ volume_adjust' \in -MaxAdjust..MaxAdjust
  /\ UNCHANGED <<volume, mute, muted_volume, mpc, got, lkey, before, touched>>

(* Lkeys_thread, L4 and L5 of the second menu *)
LkeyGet(step) ==
  /\ lkey = None
  /\ lkey' = IF volume + step \in 0..MaxVolume THEN volume + step ELSE volume
  /\ UNCHANGED <<volume, mute, volume_adjust, muted_volume, mpc, got, before, touched>>
LkeySet ==
  /\ lkey # None
  /\ volume' = lkey /\ lkey' = None /\ touched' = TRUE
  /\ UNCHANGED <<mute, volume_adjust, muted_volume, mpc, got, before>>

OtherClient ==
  /\ \E v \in 0..MaxVolume : v # volume /\ volume' = v
  /\ touched' = TRUE
  /\ UNCHANGED <<mute, volume_adjust, muted_volume, mpc, got, lkey, before>>

-----------------------------------------------------------------------------
(* One pass of the loop of main: mute first, then the adjustment; each reads *)
(* the volume of mpd and then sets it.                                       *)
MuteGet ==
  /\ mpc = "idle" /\ mute
  /\ mute' = FALSE /\ volume_adjust' = 0
  /\ IF muted_volume = 0
     THEN /\ muted_volume' = volume /\ before' = volume /\ touched' = FALSE
          /\ mpc' = "silence" /\ UNCHANGED got
     ELSE mpc' = "unmute" /\ got' = volume /\ UNCHANGED <<muted_volume, before, touched>>
  /\ UNCHANGED <<volume, lkey>>

Silence ==
  /\ mpc = "silence"
  /\ volume' = 0 /\ mpc' = "idle"
  /\ UNCHANGED <<mute, volume_adjust, muted_volume, got, lkey, before, touched>>

(* With a bug: the volume stays 0. *)
UnmuteForgotten ==
  /\ mpc = "unmute"
  /\ muted_volume' = 0 /\ mpc' = "idle"
  /\ UNCHANGED <<volume, mute, volume_adjust, got, lkey, before, touched>>
Unmute ==
  /\ mpc = "unmute"
  /\ volume' = IF got = 0 THEN muted_volume ELSE volume
  /\ muted_volume' = 0 /\ mpc' = "idle"
  /\ UNCHANGED <<mute, volume_adjust, got, lkey, before, touched>>

AdjustGet ==
  /\ mpc = "idle" /\ ~mute /\ volume_adjust # 0
  /\ got' = IF muted_volume # 0 THEN muted_volume ELSE volume
  /\ mpc' = "adjust"
  /\ UNCHANGED <<volume, mute, volume_adjust, muted_volume, lkey, before, touched>>
AdjustSet ==
  /\ mpc = "adjust"
  /\ LET new == Clip(got + volume_adjust)
     IN  volume' = IF got # new \/ muted_volume # 0 THEN new ELSE volume
  /\ volume_adjust' = 0 /\ muted_volume' = 0 /\ mpc' = "idle"
  /\ UNCHANGED <<mute, got, lkey, before, touched>>

Init ==
  /\ volume \in 0..MaxVolume /\ mute = FALSE /\ volume_adjust = 0 /\ muted_volume = 0
  /\ mpc = "idle" /\ got = 0 /\ lkey = None /\ before = None /\ touched = FALSE

Next ==
  \/ KeyMute \/ \E step \in {-1, 1} : KeyVolume(step) \/ LkeyGet(step)
  \/ LkeySet \/ OtherClient
  \/ MuteGet \/ Silence \/ Unmute \/ AdjustGet \/ AdjustSet

Spec == Init /\ [][Next]_vvars

-----------------------------------------------------------------------------
(* What ends a mute, the key or a change of the volume, starts again from   *)
(* the volume that was muted, unless someone else changed it in between     *)
(* (main, event_key_thread, Lkeys_thread).                                  *)
MuteGivesBack ==
  [][muted_volume # 0 /\ muted_volume' = 0 /\ ~touched
       => volume' = Clip(before + volume_adjust)]_vvars
=============================================================================
