--------------------------- MODULE MacroRecorder ----------------------------
(***************************************************************************)
(* Recording and playing a macro in g15macro: Lkeys_thread handles the MR, *)
(* M and G keys of the keyboard, xevent_thread the keys typed under X.     *)
(* They share recording, rec_index and current_recording without a lock;   *)
(* x11mutex only keeps their calls of Xlib apart.                          *)
(***************************************************************************)
EXTENDS Naturals, Sequences

CONSTANTS
  XKey,          \* keys typed under X
  MAX_KEYSTEPS,
  MaxTyped       \* bound: keys typed in one recording

ASSUME RecorderAssumption == {MAX_KEYSTEPS, MaxTyped} \subseteq Nat \ {0}

VARIABLES
  recording, rec_index, current_recording,
  macro,        \* the key sequence of the G key: recorded_keypress and record_steps
  played,       \* what the last press of the G key has sent to X
  grabbed,      \* the keyboard is grabbed
  mr_lit,       \* the light of the MR key
  lpc, xpc,     \* where the two threads are
  xkey,         \* the key xkey_handler works on
  typed,        \* history: keys typed since recording began
  meant,        \* history: the keys typed for the macro of the G key
  mixed,        \* history: the two threads were at work on a recording at once
  spilled       \* history: a step was written past the end of current_recording

recorder_data == <<recording, rec_index, current_recording, macro, grabbed, mr_lit>>
recorder == <<recorder_data, lpc, xpc, xkey>>
rvars == <<recorder, played, typed, meant, mixed, spilled>>

Blank == "blank"   \* a step of zeros
Default == "default"   \* the key code a G key without a macro stands for
Step == 1 .. MAX_KEYSTEPS
Blanks == [i \in Step |-> Blank]

Init ==
  /\ recording = FALSE /\ rec_index = 0 /\ current_recording = Blanks
  /\ macro = [steps |-> Blanks, record_steps |-> 0] /\ played = <<>>
  /\ grabbed = FALSE /\ mr_lit = FALSE
  /\ lpc = "idle" /\ xpc = "idle" /\ xkey = Blank
  /\ typed = <<>> /\ meant = <<>> /\ mixed = FALSE /\ spilled = FALSE

-----------------------------------------------------------------------------
(* Lkeys_thread *)

LMoves(from, to) == lpc = from /\ lpc' = to
NoX == UNCHANGED <<xpc, xkey, played, typed, meant, spilled>>
Mixing == mixed' = (mixed \/ xpc # "idle")

(* MR starts a recording: the flag first, then the grab, ... *)
StartRecording ==
  /\ LMoves("idle", "grab") /\ ~recording
  /\ mr_lit' = TRUE /\ recording' = TRUE
  /\ typed' = <<>> /\ Mixing
  /\ UNCHANGED <<rec_index, current_recording, macro, grabbed, xpc, xkey, played, meant,
                 spilled>>

GrabKeyboard ==
  /\ LMoves("grab", "clear")
  /\ grabbed' = TRUE /\ Mixing
  /\ UNCHANGED <<recording, rec_index, current_recording, macro, mr_lit>> /\ NoX

(* ... and what was recorded before is cleared last. *)
ClearRecording ==
  /\ LMoves("clear", "idle")
  /\ current_recording' = Blanks /\ Mixing
  /\ UNCHANGED <<recording, rec_index, macro, grabbed, mr_lit>> /\ NoX

(* record_cancel: MR again, or a switch to another palette. *)
CancelRecording ==
  /\ LMoves("idle", "index") /\ recording
  /\ Mixing
  /\ UNCHANGED <<recording, rec_index, current_recording, macro, grabbed, mr_lit>> /\ NoX

(* record_complete: the steps are copied to the key, ... *)
CompleteRecording ==
  /\ LMoves("idle", "steps") /\ recording
  /\ macro' = [macro EXCEPT !.steps = IF rec_index = 0 THEN Blanks ELSE current_recording]
  /\ Mixing
  /\ UNCHANGED <<recording, rec_index, current_recording, grabbed, mr_lit>> /\ NoX

(* ... then their number. *)
StoreSteps ==
  /\ LMoves("steps", "index")
  /\ macro' = [macro EXCEPT !.record_steps = rec_index]
  /\ meant' = typed /\ Mixing
  /\ UNCHANGED <<recording, rec_index, current_recording, grabbed, mr_lit, xpc, xkey, played, typed,
                 spilled>>

(* record_cleanup *)
(* With a bug: the index is left where it was. *)
ResetIndexNot ==
  /\ LMoves("index", "flag")
  /\ Mixing
  /\ UNCHANGED <<recording, rec_index, current_recording, macro, grabbed, mr_lit>> /\ NoX

ResetIndex ==
  /\ LMoves("index", "flag")
  /\ rec_index' = 0 /\ Mixing
  /\ UNCHANGED <<recording, current_recording, macro, grabbed, mr_lit>> /\ NoX

StopRecording ==
  /\ LMoves("flag", "ungrab")
  /\ recording' = FALSE /\ Mixing
  /\ UNCHANGED <<rec_index, current_recording, macro, grabbed, mr_lit>> /\ NoX

UngrabKeyboard ==
  /\ LMoves("ungrab", "idle")
  /\ grabbed' = FALSE /\ mr_lit' = FALSE /\ Mixing
  /\ UNCHANGED <<recording, rec_index, current_recording, macro>> /\ NoX

(* macro_playback: a key without a macro sends its default at once, one    *)
(* with a macro its steps one after the other.                             *)
NotRecording == UNCHANGED <<recorder_data, xpc, xkey, typed, meant, mixed, spilled>>

Playback ==
  /\ LMoves("idle", "play") /\ ~recording
  /\ played' = IF macro.record_steps = 0 THEN <<Default>> ELSE <<>>
  /\ NotRecording

SendStep ==
  /\ LMoves("play", "play") /\ Len(played) < macro.record_steps
  /\ played' = Append(played, macro.steps[Len(played) + 1])
  /\ NotRecording

PlaybackComplete ==
  /\ LMoves("play", "idle") /\ Len(played) >= macro.record_steps
  /\ UNCHANGED played /\ NotRecording

-----------------------------------------------------------------------------
(* xevent_thread *)

XMoves(from, to) == xpc = from /\ xpc' = to
NoL == UNCHANGED <<macro, mr_lit, lpc, played, meant>>
MixingX == mixed' = (mixed \/ lpc # "idle")

TypeKey(k) ==
  /\ XMoves("idle", "count") /\ recording /\ Len(typed) < MaxTyped
  /\ xkey' = k /\ typed' = Append(typed, k)
  /\ MixingX
  /\ UNCHANGED <<recording, grabbed>> /\ NoL

(* xkey_handler writes the step before it looks whether there is room.     *)
TypeRecorded(k) ==
  /\ TypeKey(k) /\ rec_index < MAX_KEYSTEPS
  /\ current_recording' = [current_recording EXCEPT ![rec_index + 1] = k]
  /\ UNCHANGED <<rec_index, spilled>>

(* Where there is none it writes over whatever the build has put behind    *)
(* current_recording, be it the index.                                     *)
TypeBeyond(k) ==
  /\ TypeKey(k) /\ rec_index >= MAX_KEYSTEPS
  /\ rec_index' \in 0 .. MAX_KEYSTEPS /\ spilled' = TRUE
  /\ UNCHANGED current_recording

(* The keyboard is let go, the key sent on, the keyboard grabbed again. *)
CountStep ==
  /\ XMoves("count", "regrab") /\ rec_index < MAX_KEYSTEPS
  /\ rec_index' = rec_index + 1
  /\ grabbed' = FALSE /\ MixingX
  /\ UNCHANGED <<recording, current_recording, xkey, typed, spilled>> /\ NoL

Regrab ==
  /\ XMoves("regrab", "idle")
  /\ grabbed' = TRUE /\ xkey' = Blank /\ MixingX
  /\ UNCHANGED <<recording, rec_index, current_recording, typed, spilled>> /\ NoL

(* One key too many ends the recording, which no key gets. *)
NoRoom ==
  /\ XMoves("count", "reset") /\ rec_index >= MAX_KEYSTEPS
  /\ grabbed' = FALSE /\ recording' = FALSE /\ xkey' = Blank /\ MixingX
  /\ UNCHANGED <<rec_index, current_recording, typed, spilled>> /\ NoL

ResetFull ==
  /\ XMoves("reset", "idle")
  /\ rec_index' = 0 /\ MixingX
  /\ UNCHANGED <<recording, current_recording, grabbed, xkey, typed, spilled>> /\ NoL

(* A key typed outside of a recording *)
TypeUnrecorded ==
  /\ xpc = "idle" /\ ~recording
  /\ rec_index' = 0 /\ mixed' = (mixed \/ lpc \notin {"idle", "play"})
  /\ UNCHANGED <<recording, current_recording, grabbed, xpc, xkey, typed, spilled>> /\ NoL

(* ReparentNotify: a new window may have taken the grab away. *)
Reparent ==
  /\ XMoves("idle", "regrab") /\ recording
  /\ MixingX
  /\ UNCHANGED <<recording, rec_index, current_recording, grabbed, xkey, typed, spilled>> /\ NoL

Lkeys_thread ==
  \/ StartRecording \/ GrabKeyboard \/ ClearRecording \/ CancelRecording \/ CompleteRecording
  \/ StoreSteps \/ ResetIndex \/ StopRecording \/ UngrabKeyboard \/ Playback \/ SendStep
  \/ PlaybackComplete

xevent_thread ==
  \/ \E k \in XKey : TypeRecorded(k) \/ TypeBeyond(k)
  \/ CountStep \/ Regrab \/ NoRoom \/ ResetFull \/ TypeUnrecorded \/ Reparent

Next == Lkeys_thread \/ xevent_thread

Spec == Init /\ [][Next]_rvars

-----------------------------------------------------------------------------
(* g15macro/README, "To Record a macro": what a press of the G key sends   *)
(* to X, from the first step to the last, is what was typed between MR and *)
(* the G key for it last, whatever was recorded, cancelled or deleted in   *)
(* between, as long as no key was typed while Lkeys_thread was in a        *)
(* handler of a recording, and no recording was typed too long.            *)
PlaysWhatWasTyped ==
  [][PlaybackComplete /\ ~mixed /\ ~spilled =>
       played = IF meant = <<>> THEN <<Default>> ELSE meant]_rvars

=============================================================================
