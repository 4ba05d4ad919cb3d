--------------------------- MODULE SpectrumSettings ---------------------------
(***************************************************************************)
(* The settings of the xmms spectrum plugin: the dialog, whose sliders     *)
(* store what they were moved to in variables of their own (tmp_bars,      *)
(* tmp_rownum) that only Apply and Ok read, the configuration file, the    *)
(* key that changes the visualisation, and what the plugin sets up when it *)
(* starts and takes down when it ends.  rownum stands for the four sliders *)
(* that store where they are moved, keys for the buttons, of which one is  *)
(* the visualisation.  xmms can start and end the plugin again and opens   *)
(* its dialog at any time.                                                 *)
(***************************************************************************)
EXTENDS Integers

CONSTANTS MaxBars,        \* the upper end of the slider of num_bars, 128 in the code
          MaxRows         \* the same of rownum, 4 in the code

VARIABLES settings,       \* in use: num_bars, rownum, enable_keybindings
          file,           \* in the configuration file, or NoFile
          dialog,         \* what the open dialog shows, or Closed
          tmp_bars, tmp_rownum,
          state,          \* of the plugin: "off", "on", "failed" (to start)
          polls,          \* xmms runs its callback poll_g15keys
          locked,         \* g15buf_mutex was not given back
          leftover,       \* a slider was moved and the dialog closed without Ok, or
                          \* the plugin was started since it opened
          reopened        \* the open dialog was asked for again

pvars == <<settings, file, dialog, tmp_bars, tmp_rownum, state, polls,
           locked, leftover, reopened>>

NoFile == [num_bars |-> 0]
Closed == [num_bars |-> 0]
Unset == -1
Rows == 1..MaxRows
Zero == [num_bars |-> 0, rownum |-> 0, keys |-> FALSE]
(* The code's are 32 bars of 128. *)
Defaults == [num_bars |-> MaxBars \div 2, rownum |-> 1, keys |-> FALSE]

(* A file may hold what no slider gives.  What is out of range is put right  *)
(* when it is read; of num_bars the range is all that is asked.              *)
Stored == {NoFile} \cup
  [num_bars : {1, 3, MaxBars}, rownum : {2, MaxRows + 1}, keys : BOOLEAN]
Checked(f) ==
  [f EXCEPT !.num_bars = IF @ \in 2..MaxBars THEN @ ELSE Defaults.num_bars,
            !.rownum = IF @ \in Rows THEN @ ELSE Defaults.rownum]
ReadConfig(s) == Checked(IF file = NoFile THEN s ELSE file)

-----------------------------------------------------------------------------
(* g15analyser_init: a display that cannot be opened leaves g15buf_mutex    *)
(* locked, a daemon that cannot be reached only disables the plugin.        *)
InitPlugin ==
  /\ state = "off"
  /\ settings' = ReadConfig(Defaults)
  /\ \/ /\ settings'.keys
        /\ state' = "failed" /\ locked' = TRUE /\ UNCHANGED polls
     \/ /\ \/ state' = "failed" /\ UNCHANGED polls
           \/ state' = "on" /\ polls' = (polls \/ settings'.keys)
        /\ UNCHANGED locked
  /\ leftover' = (leftover \/ dialog # Closed \/ tmp_rownum # Unset)
  /\ UNCHANGED <<file, dialog, tmp_bars, tmp_rownum, reopened>>

(* The slider of the bars: GTK puts what is out of its range on its end, and *)
(* tells g15analyzer_adj_changed of each new value v.  That goes one power   *)
(* of two towards v from where it was, t, and puts the slider there.         *)
OnSlider(t) == IF t < 2 THEN 2 ELSE IF t > MaxBars THEN MaxBars ELSE t
NearestPower(t, v) == IF v > t THEN t * 2 ELSE IF v < t THEN t \div 2 ELSE t
Follow(t, v) ==
  LET p == NearestPower(t, v)
  IN IF OnSlider(p) \in {p, v} THEN p ELSE NearestPower(p, OnSlider(p))

(* With a bug: tmp_bars keeps where the slider was left the last time. *)
ConfKeepsBars ==
  /\ tmp_bars' = IF tmp_bars = Unset THEN settings.num_bars ELSE tmp_bars
  /\ IF dialog # Closed
     THEN reopened' = TRUE /\ UNCHANGED <<dialog, tmp_rownum>>
     ELSE /\ tmp_rownum' = IF settings.rownum \in Rows THEN tmp_rownum ELSE 1
          /\ dialog' = [settings EXCEPT !.num_bars = OnSlider(@),
                                        !.rownum = IF @ \in Rows THEN @ ELSE 1]
          /\ UNCHANGED reopened
  /\ UNCHANGED <<settings, file, state, polls, locked, leftover>>

(* g15analyser_conf, of a plugin that may never have been started: tmp_bars  *)
(* is set before the test for an open dialog.                                *)
Conf ==
  /\ IF dialog # Closed
     THEN /\ tmp_bars' = settings.num_bars
          /\ reopened' = TRUE /\ UNCHANGED <<dialog, tmp_rownum>>
     ELSE /\ tmp_bars' = Follow(settings.num_bars, OnSlider(settings.num_bars))
          /\ tmp_rownum' = IF settings.rownum \in Rows THEN tmp_rownum ELSE 1
          /\ dialog' = [settings EXCEPT !.num_bars = OnSlider(tmp_bars'),
                                        !.rownum = IF @ \in Rows THEN @ ELSE 1]
          /\ UNCHANGED reopened
  /\ UNCHANGED <<settings, file, state, polls, locked, leftover>>

SlideBars ==
  /\ dialog # Closed
  /\ \E v \in 2..MaxBars :
       /\ v # dialog.num_bars
       /\ tmp_bars' = Follow(tmp_bars, v)
       /\ dialog' = [dialog EXCEPT !.num_bars = OnSlider(tmp_bars')]
  /\ reopened' = FALSE
  /\ UNCHANGED <<settings, file, tmp_rownum, state, polls, locked, leftover>>

SlideRownum ==
  /\ dialog # Closed
  /\ \E v \in Rows :
       /\ v # dialog.rownum
       /\ tmp_rownum' = v
       /\ dialog' = [dialog EXCEPT !.rownum = v]
  /\ leftover' = FALSE
  /\ UNCHANGED <<settings, file, tmp_bars, state, polls, locked, reopened>>

Toggle ==
  /\ dialog # Closed
  /\ dialog' = [dialog EXCEPT !.keys = ~@]
  /\ UNCHANGED <<settings, file, tmp_bars, tmp_rownum, state, polls, locked,
                 leftover, reopened>>

(* g15analyser_conf_reset_defaults_gui *)
ResetGui ==
  /\ dialog # Closed
  /\ tmp_bars' = Defaults.num_bars /\ tmp_rownum' = Defaults.rownum
  /\ dialog' = Defaults
  /\ leftover' = FALSE /\ reopened' = FALSE
  /\ UNCHANGED <<settings, file, state, polls, locked>>

(* g15analyser_conf_apply takes the buttons from the dialog and the sliders  *)
(* from their variables.                                                     *)
Applied ==
  [num_bars |-> IF tmp_bars # Unset THEN tmp_bars ELSE settings.num_bars,
   rownum |-> IF tmp_rownum # Unset THEN tmp_rownum ELSE settings.rownum,
   keys |-> dialog.keys]
ConfApply ==
  /\ dialog # Closed /\ ~locked
  /\ settings' = Applied
  /\ UNCHANGED <<file, dialog, tmp_bars, tmp_rownum, state, polls, locked,
                 leftover, reopened>>

ConfOk ==
  /\ dialog # Closed /\ ~locked
  /\ settings' = Applied /\ file' = Applied
  /\ dialog' = Closed /\ reopened' = FALSE /\ leftover' = FALSE
  /\ UNCHANGED <<tmp_bars, tmp_rownum, state, polls, locked>>

(* Cancel reads the file again.  A moved slider's variable is not put back   *)
(* by it, nor by closing the window.                                         *)
ConfCancel ==
  /\ dialog # Closed /\ ~locked
  /\ settings' = ReadConfig(settings)
  /\ dialog' = Closed /\ reopened' = FALSE
  /\ leftover' = (tmp_rownum \notin {Unset, settings'.rownum})
  /\ UNCHANGED <<file, tmp_bars, tmp_rownum, state, polls, locked>>

CloseWindow ==
  /\ dialog # Closed
  /\ dialog' = Closed /\ reopened' = FALSE
  /\ leftover' = (tmp_rownum \notin {Unset, settings.rownum})
  /\ UNCHANGED <<settings, file, tmp_bars, tmp_rownum, state, polls, locked>>

(* poll_g15keys, as long as the socket is open: L1 changes the visualisation *)
(* and saves all settings.                                                   *)
L1 ==
  /\ polls /\ state = "on" /\ ~locked
  /\ file' = settings
  /\ UNCHANGED <<settings, dialog, tmp_bars, tmp_rownum, state, polls, locked, leftover, reopened>>

(* g15analyser_cleanup, of a plugin that was disabled or could not reach the *)
(* daemon, takes down what the settings of now say was set up; the dialog    *)
(* stays open.                                                               *)
Cleanup ==
  /\ state \in {"on", "failed"} /\ ~locked
  /\ file' = settings
  /\ state' = "off"
  /\ polls' = (polls /\ ~settings.keys)
  /\ UNCHANGED <<settings, dialog, tmp_bars, tmp_rownum, locked, leftover, reopened>>

Init ==
  /\ settings = Zero /\ file \in Stored /\ dialog = Closed
  /\ tmp_bars = Unset /\ tmp_rownum = Unset
  /\ state = "off" /\ polls = FALSE /\ locked = FALSE
  /\ leftover = FALSE /\ reopened = FALSE

Next ==
  \/ InitPlugin \/ Conf \/ SlideBars \/ SlideRownum \/ Toggle \/ ResetGui
  \/ ConfApply \/ ConfOk \/ ConfCancel \/ CloseWindow \/ L1 \/ Cleanup

Spec == Init /\ [][Next]_pvars

-----------------------------------------------------------------------------
(* Apply and Ok put into use what the dialog shows, field by field: "Apply   *)
(* gui values" (g15analyser_conf_apply).  The buttons in any case.  The bars *)
(* unless the open dialog was asked for again and the slider not moved since *)
(* (451), or the slider stands at its end for a value beyond it, as halving  *)
(* and doubling leaves it that do not start from a power of two.  The rows   *)
(* unless they were moved in a dialog that was cancelled or closed, and not  *)
(* moved since, or the plugin was started with the dialog open.              *)
AppliedIsShown ==
  [][dialog # Closed /\ (ConfApply \/ ConfOk) =>
       /\ settings'.keys = dialog.keys
       /\ ~reopened /\ tmp_bars \in 2..MaxBars => settings'.num_bars = dialog.num_bars
       /\ ~leftover => settings'.rownum = dialog.rownum]_pvars
=============================================================================
