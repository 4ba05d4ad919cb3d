-------------------------------- MODULE MCMacro --------------------------------
(***************************************************************************)
(* g15macro for TLC: its recorder, or its configurations (part), which     *)
(* share no variable of the models, while the other one stands still.      *)
(***************************************************************************)
EXTENDS MacroRecorder, FiniteSets

CONSTANTS Config, NumPalettes, MaxRecorded

MCConfig == {0, 1}

VARIABLES part, files, mstates, currConfig, configpath, gui_selectConfig,
          gui_oldConfig, was_recording, lcd, config_mutex, mkey_state,
          orig_mkeystate, written, kpc, fpc, mpc, leaving, owned, cut, overlapped, raced

Configs == INSTANCE MacroConfig

(* There is always the default one; no more are read in than fit. *)
ASSUME ConfigAssumption ==
  /\ 0 \in Config /\ Config \subseteq 0 .. Configs!MAX_CONFIGS - 1
  /\ \A c \in Config : 0 .. c \subseteq Config
  /\ NumPalettes \in Nat /\ MaxRecorded \in Nat

configvars == <<files, mstates, currConfig, configpath, gui_selectConfig,
                gui_oldConfig, was_recording, lcd, config_mutex, mkey_state,
                orig_mkeystate, written, kpc, fpc, mpc, leaving, owned, cut, overlapped, raced>>

\* The versions of the two files: the first is read at the start, the second when it is chosen.
Versions == {<<2, 1>>, <<0, 3>>}

MCInit ==
  /\ part \in {"recorder", "config"}
  /\ Init /\ Configs!Init
  /\ <<files[0].version, files[1].version>> \in Versions
  /\ part = "recorder" => files[0].version = 0

\* After the first overlap the threads finish what they do: no more keys, no more macros cut off,
\* no signal unless it has come before.
ConfigNext ==
  /\ Configs!Running
  /\ \/ Configs!Lkeys \/ Configs!Xevent \/ Configs!Main
     \/ ~overlapped /\ (Configs!Keys \/ Configs!OpenCutOff \/ Configs!Signal)

\* The recorder stops when its threads have mixed.
MCNext ==
  \/ part = "recorder" /\ ~mixed /\ Next /\ UNCHANGED <<part, configvars>>
  \/ part = "config" /\ ConfigNext /\ UNCHANGED <<part, rvars>>

MCSpec ==
  /\ MCInit /\ [][MCNext]_<<part, rvars, configvars>>
  /\ WF_configvars(part = "config" /\ Configs!Running /\ Configs!Lkeys)
  /\ WF_configvars(part = "config" /\ Configs!Running /\ Configs!Xevent)
  /\ WF_configvars(part = "config" /\ Configs!Running /\ Configs!Main)

(* What was saved stays saved: MacroConfig. *)
MacrosKept == Configs!MacrosKept

(* The list on the LCD is redrawn when it has to be: MacroConfig. *)
ListIsUpToDate == Configs!ListIsUpToDate

(* No thread waits for ever after a signal: MacroConfig. *)
SignalEnds == Configs!SignalEnds

(* g15macro leaves safely on a signal: MacroConfig. *)
ExitsSafely == Configs!ExitsSafely

(* A file of a later version ends g15macro, as its message says: MacroConfig. *)
NewerExits == Configs!NewerExits
================================================================================
