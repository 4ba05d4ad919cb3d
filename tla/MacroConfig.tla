---------------------------- MODULE MacroConfig -----------------------------
(***************************************************************************)
(* The configurations of g15macro: files of macros, one of them in memory, *)
(* chosen on the LCD with L2 to L5.  Lkeys_thread saves and switches, the  *)
(* main thread draws the list and saves on exit, xevent_thread saves when  *)
(* it cuts a recording off, and so does the child of a fork that cannot    *)
(* run a program.  config_mutex is held while macros are written out,      *)
(* cleared or read in, and not in between; who writes counts through the   *)
(* palettes with mkey_state, which the M keys set without it.              *)
(***************************************************************************)
EXTENDS Naturals

CONSTANTS
  Config,        \* the configurations, 0 .. numConfigs
  NumPalettes,   \* M keys, and palettes: 3
  MaxRecorded    \* bound: macros are numbered, and recorded, up to here

\* A number stands for the keys of all macros of a configuration, whether each is pressed or let
\* go, and its modifiers.  The pauses of a macro, time_ms, are never written to a file.

G15MACRO_CONF_VER == 2
MAX_CONFIGS == 32
Redraw == MAX_CONFIGS + 1

VARIABLES
  files,         \* what each file holds: its version, its macros (0: not all of them),
                 \* whether it has programs
  mstates,       \* what memory holds
  currConfig, configpath,
  gui_selectConfig, gui_oldConfig, was_recording,
  lcd,           \* the list: what is selected, what is said to be current
  config_mutex,  \* the thread that holds it
  mkey_state,    \* the palette of the M keys
  orig_mkeystate, written,   \* of the one in dump_config: the palette before, those it wrote
  kpc, fpc, mpc, \* Lkeys_thread, xevent_thread, the main thread
  leaving,
  owned,         \* history: the macros the user last had in each configuration
  cut,           \* history: a child has emptied the file of the current configuration
  overlapped,    \* history: two threads saved or switched at once
  raced          \* history: a key came while the list was drawn

palette == <<mkey_state, orig_mkeystate, written>>
store   == <<files, mstates, currConfig, configpath, config_mutex, palette>>
display == <<gui_selectConfig, gui_oldConfig, was_recording, lcd, raced>>
cvars   == <<store, display, kpc, fpc, mpc, leaving, owned, cut, overlapped>>

Message == [selected |-> Redraw, current |-> Redraw]
Palettes == 0 .. NumPalettes - 1
Empty == [version |-> 0, macros |-> 0, run |-> FALSE]

(* identify_configver *)
TooNew(f) == f.version > G15MACRO_CONF_VER

(* restore_v1_config for files without a version, restore_v2_config; what  *)
(* says that it is of version 1 is not read.                               *)
Restored(f) ==
  CASE f.version = 0 -> [macros |-> f.macros, run |-> FALSE]
    [] f.version = 2 -> [macros |-> f.macros, run |-> f.run]
    [] OTHER         -> [macros |-> 0, run |-> FALSE]

Init ==
  /\ \E version \in [Config -> {0, 1, 2, 3}] :
       /\ version[0] # 3
       /\ files = [c \in Config |-> [version |-> version[c], macros |-> c + 1,
                                     run |-> version[c] = 2]]
       /\ owned = [c \in Config |-> IF version[c] = 1 THEN 0 ELSE c + 1]
  /\ mstates = Restored(files[0])
  /\ currConfig = 0 /\ configpath = 0
  /\ gui_selectConfig = 0 /\ gui_oldConfig = Redraw /\ was_recording = TRUE
  /\ lcd = [selected |-> 0, current |-> 0]
  /\ config_mutex = "free" /\ mkey_state = 0 /\ orig_mkeystate = 0 /\ written = {}
  /\ kpc = "idle" /\ fpc = "idle" /\ mpc = "loop" /\ leaving = FALSE
  /\ cut = FALSE /\ overlapped = FALSE /\ raced = FALSE

-----------------------------------------------------------------------------
(* Files *)

(* fopen(filename, "w"), the first half of save_macros *)
Truncate(c) == files' = [files EXCEPT ![c] = Empty]

(* dump_config, the second half: under the mutex mkey_state counts through *)
(* the palettes, ...                                                       *)
Dumping(t) ==
  \/ t = "L" /\ kpc \in {"dump", "dump_old"}
  \/ t = "X" /\ fpc = "dump"
  \/ t = "M" /\ mpc = "dump"

LockDump(t) ==
  /\ Dumping(t) /\ config_mutex = "free"
  /\ config_mutex' = t
  /\ orig_mkeystate' = mkey_state /\ mkey_state' = 0
  /\ UNCHANGED <<files, mstates, currConfig, configpath, written, display, kpc, fpc, mpc, leaving,
                 owned, cut, overlapped>>

WritePalette(t) ==
  /\ Dumping(t) /\ config_mutex = t /\ mkey_state \in Palettes
  /\ written' = written \cup {mkey_state} /\ mkey_state' = mkey_state + 1
  /\ UNCHANGED <<files, mstates, currConfig, configpath, config_mutex, orig_mkeystate, display,
                 kpc, fpc, mpc, leaving, owned, cut, overlapped>>

(* ... and neither the version nor the programs are written.               *)
Dump(t, c) ==
  /\ config_mutex = t /\ mkey_state \notin Palettes
  /\ files' = [files EXCEPT ![c] =
                [Empty EXCEPT !.macros = IF written = Palettes THEN mstates.macros ELSE 0]]
  /\ mkey_state' = orig_mkeystate /\ orig_mkeystate' = 0 /\ written' = {}
  /\ config_mutex' = "free"
  /\ cut' = FALSE

Resting == {"idle", "ended"}
Overlapping ==
  overlapped' = (\/ overlapped \/ kpc \notin Resting \/ fpc \notin Resting
                 \/ mpc \notin {"loop", "drawing"})

-----------------------------------------------------------------------------
(* Lkeys_thread *)

Racing == raced' = (raced \/ mpc = "drawing")
KMoves(from, to) == kpc = from /\ kpc' = to
(* The threads look at leaving between two keys only.                      *)
Rest == IF leaving THEN "ended" ELSE "idle"
NotL == UNCHANGED <<fpc, mpc, leaving>>

(* record_complete: the macro is stored, then saved.  The main thread only *)
(* notices a recording that lasts longer than its sleep after a drawing.   *)
Record ==
  /\ KMoves("idle", "open") /\ config_mutex = "free" /\ mstates.macros + MAX_CONFIGS <= MaxRecorded
  /\ mstates' = [mstates EXCEPT !.macros = @ + MAX_CONFIGS]
  /\ owned' = [owned EXCEPT ![currConfig] = mstates'.macros]
  /\ was_recording' = (was_recording \/ mpc = "loop")
  /\ lcd' = Message
  /\ Racing /\ Overlapping /\ NotL
  /\ UNCHANGED <<files, currConfig, configpath, config_mutex, palette, gui_selectConfig,
                 gui_oldConfig, cut>>

OpenRecorded ==
  /\ KMoves("open", "dump")
  /\ Truncate(configpath) /\ NotL
  /\ UNCHANGED <<mstates, currConfig, configpath, config_mutex, palette, display, owned, cut,
                 overlapped>>

DumpRecorded ==
  /\ KMoves("dump", Rest)
  /\ Dump("L", configpath) /\ NotL
  /\ UNCHANGED <<mstates, currConfig, configpath, display, owned, overlapped>>

(* macro_playback of a key with a program that cannot be run: the child    *)
(* leaves through cleanup(), which empties the file, while its name is not *)
(* freed, and then waits for the mutex the child has inherited locked.     *)
RunFails ==
  /\ KMoves("idle", Rest) /\ mstates.run /\ config_mutex = "free"
  /\ IF mpc = "join" THEN UNCHANGED <<files, cut>> ELSE Truncate(currConfig) /\ cut' = TRUE
  /\ NotL
  /\ UNCHANGED <<mstates, currConfig, configpath, config_mutex, palette, display, owned,
                 overlapped>>

(* handle_mkey_switch to palette m.  One who is writing goes on from there *)
(* or, in the middle of a palette, which then is a mix of two, from the    *)
(* next; at the end of its count it takes the switch back.                 *)
MKey(m) ==
  /\ KMoves("idle", Rest)
  /\ IF config_mutex = "free"
     THEN mkey_state' = m /\ UNCHANGED overlapped
     ELSE /\ mkey_state' \in {m, m + 1} \cup ({mkey_state} \ Palettes)
          /\ overlapped' = TRUE
  /\ NotL
  /\ UNCHANGED <<files, mstates, currConfig, configpath, config_mutex, orig_mkeystate, written,
                 display, owned, cut>>

(* gui_selectChange: L2, L3 and L4 *)
(* change is 2 for -1 *)
Selected(change) ==
  CASE change = 0  -> 0
    [] change = 1  -> IF gui_selectConfig + 1 \in Config THEN gui_selectConfig + 1 ELSE 0
    [] change = 2  -> IF gui_selectConfig = 0 THEN CHOOSE c \in Config : c + 1 \notin Config
                      ELSE gui_selectConfig - 1

Select(change) ==
  /\ KMoves("idle", Rest)
  /\ gui_selectConfig' = Selected(change)
  /\ Racing /\ NotL
  /\ UNCHANGED <<store, gui_oldConfig, was_recording, lcd, owned, cut, overlapped>>

(* L5: the old configuration is saved, ... *)
OpenOld ==
  /\ KMoves("idle", "dump_old") /\ mpc # "join"
  /\ Truncate(currConfig) /\ Overlapping /\ NotL
  /\ UNCHANGED <<mstates, currConfig, configpath, config_mutex, palette, display, owned, cut>>

DumpOld ==
  /\ KMoves("dump_old", "clean")
  /\ Dump("L", currConfig) /\ NotL
  /\ UNCHANGED <<mstates, currConfig, configpath, display, owned, overlapped>>

(* ... memory cleared, ... *)
(* With a bug: the mutex is kept. *)
CleanMstatesLocked ==
  /\ KMoves("clean", "restore") /\ config_mutex = "free"
  /\ mstates' = [macros |-> 0, run |-> FALSE] /\ config_mutex' = "L"
  /\ NotL
  /\ UNCHANGED <<files, currConfig, configpath, palette, display, owned, cut, overlapped>>

CleanMstates ==
  /\ KMoves("clean", "restore") /\ config_mutex = "free"
  /\ mstates' = [macros |-> 0, run |-> FALSE]
  /\ NotL
  /\ UNCHANGED <<files, currConfig, configpath, config_mutex, palette, display, owned, cut,
                 overlapped>>

(* ... the selected one loaded.  A file of a later version should end the  *)
(* program, but cleanup() saves over it and waits for config_mutex, which  *)
(* restore_config holds.                                                   *)
(* With a bug: nothing is loaded. *)
RestoreNothing ==
  /\ kpc = "restore" /\ config_mutex = "free"
  /\ currConfig' = gui_selectConfig
  /\ kpc' = "path" /\ NotL
  /\ UNCHANGED <<files, mstates, configpath, config_mutex, palette, display, owned, cut,
                 overlapped>>

RestoreConfig ==
  /\ kpc = "restore" /\ config_mutex = "free" /\ mpc # "join"
  /\ currConfig' = gui_selectConfig
  /\ IF TooNew(files[currConfig'])
     THEN /\ kpc' = "stuck" /\ config_mutex' = "L"
          /\ Truncate(currConfig') /\ configpath' = currConfig'
          /\ UNCHANGED mstates
     ELSE /\ kpc' = "path"
          /\ mstates' = Restored(files[currConfig'])
          /\ UNCHANGED <<files, configpath, config_mutex>>
  /\ NotL
  /\ UNCHANGED <<palette, display, owned, cut, overlapped>>

(* ... and the list drawn anew. *)
(* With a bug: only the file is remembered. *)
SetConfigpathOnly ==
  /\ KMoves("path", Rest) /\ mpc # "join"
  /\ configpath' = currConfig
  /\ Racing /\ NotL
  /\ UNCHANGED <<files, mstates, currConfig, config_mutex, palette, gui_selectConfig,
                 gui_oldConfig, was_recording, lcd, owned, cut, overlapped>>

SetConfigpath ==
  /\ KMoves("path", Rest) /\ mpc # "join"
  /\ configpath' = currConfig /\ gui_oldConfig' = Redraw
  /\ Racing /\ NotL
  /\ UNCHANGED <<files, mstates, currConfig, config_mutex, palette, gui_selectConfig,
                 was_recording, lcd, owned, cut, overlapped>>

EndLkeys ==
  /\ KMoves("idle", "ended") /\ leaving
  /\ NotL
  /\ UNCHANGED <<store, display, owned, cut, overlapped>>

-----------------------------------------------------------------------------
(* xevent_thread: a recording is cut off. *)

OpenCutOff ==
  /\ fpc = "idle" /\ fpc' = "dump"
  /\ Truncate(configpath) /\ Overlapping
  /\ UNCHANGED <<mstates, currConfig, configpath, config_mutex, palette, display, kpc, mpc,
                 leaving, owned, cut>>

DumpCutOff ==
  /\ fpc = "dump" /\ fpc' = Rest
  /\ Dump("X", configpath)
  /\ UNCHANGED <<mstates, currConfig, configpath, display, kpc, mpc, leaving, owned, overlapped>>

EndXevent ==
  /\ fpc = "idle" /\ leaving /\ fpc' = "ended"
  /\ UNCHANGED <<store, display, kpc, mpc, leaving, owned, cut, overlapped>>

-----------------------------------------------------------------------------
(* The main thread *)

MMoves(from, to) == mpc = from /\ mpc' = to
NotMain == UNCHANGED <<kpc, fpc, owned>>

(* renderFull, and renderSelection, which draws only the selection anew *)
Rendered(full) ==
  [selected |-> gui_selectConfig, current |-> IF full THEN currConfig ELSE lcd.current]

(* mainLoop: what is drawn ...                                             *)
Draw ==
  /\ MMoves("loop", "drawing") /\ ~leaving
  /\ was_recording \/ gui_oldConfig # gui_selectConfig
  /\ LET full == was_recording \/ gui_oldConfig = Redraw
     IN /\ lcd' = Rendered(full)
        /\ raced' = ((raced /\ ~full) \/ kpc # "idle")
  /\ NotMain
  /\ UNCHANGED <<store, gui_selectConfig, gui_oldConfig, was_recording, leaving, cut, overlapped>>

(* ... is looked up again when it has been sent.                           *)
Drawn ==
  /\ MMoves("drawing", "loop")
  /\ gui_oldConfig' = gui_selectConfig /\ was_recording' = FALSE
  /\ NotMain
  /\ UNCHANGED <<store, gui_selectConfig, lcd, raced, leaving, cut, overlapped>>

(* g15macro_sighandler *)
Signal ==
  /\ ~leaving /\ leaving' = TRUE
  /\ UNCHANGED <<store, display, kpc, fpc, mpc, owned, cut, overlapped>>

(* cleanup(): the current configuration is saved, while the threads still  *)
(* run, ...                                                                *)
OpenLast ==
  /\ MMoves("loop", "dump") /\ leaving
  /\ configpath' = currConfig
  /\ Truncate(currConfig)
  /\ raced' = FALSE   \* nothing is drawn from here on
  /\ Overlapping /\ NotMain
  /\ UNCHANGED <<mstates, currConfig, config_mutex, palette, gui_selectConfig, gui_oldConfig,
                 was_recording, lcd, leaving, cut>>

DumpLast ==
  /\ MMoves("dump", "free")
  /\ Dump("M", configpath)
  /\ NotMain
  /\ UNCHANGED <<mstates, currConfig, configpath, display, leaving, overlapped>>

(* ... the names of the files are freed, and the threads awaited.          *)
FreeConfigs ==
  /\ MMoves("free", "join") /\ NotMain
  /\ UNCHANGED <<store, display, leaving, cut, overlapped>>

Join ==
  /\ MMoves("join", "gone") /\ kpc = "ended" /\ fpc = "ended"
  /\ NotMain
  /\ UNCHANGED <<store, display, leaving, cut, overlapped>>

(* Lkeys_thread looks up a name in the meantime, between two steps of a    *)
(* switch or for a last L5.                                                *)
UseFreed(at) ==
  /\ MMoves("join", "crashed") /\ kpc \in at
  /\ NotMain
  /\ UNCHANGED <<store, display, leaving, cut, overlapped>>

Running == mpc \notin {"gone", "crashed"}

Lkeys ==
  \/ OpenRecorded \/ LockDump("L") \/ WritePalette("L") \/ DumpRecorded
  \/ DumpOld \/ CleanMstates \/ RestoreConfig \/ SetConfigpath
  \/ UseFreed({"restore", "path"}) \/ EndLkeys
Keys ==
  \/ Record \/ RunFails \/ OpenOld \/ UseFreed({"idle"})
  \/ \E change \in {0, 1, 2} : Select(change)
  \/ \E m \in Palettes : MKey(m)
Xevent == LockDump("X") \/ WritePalette("X") \/ DumpCutOff \/ EndXevent
Main ==
  \/ Draw \/ Drawn
  \/ OpenLast \/ LockDump("M") \/ WritePalette("M") \/ DumpLast \/ FreeConfigs \/ Join

Next == Running /\ (Lkeys \/ Keys \/ Xevent \/ OpenCutOff \/ Signal \/ Main)

Spec ==
  /\ Init /\ [][Next]_cvars
  /\ WF_cvars(Running /\ Lkeys) /\ WF_cvars(Running /\ Xevent) /\ WF_cvars(Running /\ Main)

-----------------------------------------------------------------------------
Saving ==
  kpc \notin Resting \/ fpc \notin Resting \/ mpc \notin {"loop", "drawing", "join", "gone"}

(* g15macro/ChangeLog: "Save macro to disk on completion of every          *)
(* recording, not only on exit".  Between two keys, and after the end, the *)
(* macros of every configuration are in its file, and those of the current *)
(* one in memory, all palettes of them, whatever palettes are switched     *)
(* between the savings.  It is not so once two threads save or switch      *)
(* configuration, or one saves and the other switches palette, at the same *)
(* time, nor for a file that says it is of version 1: its macros count as  *)
(* lost, since they are not read, and are overwritten when it is chosen.   *)
MacrosKept ==
  ~Saving /\ ~overlapped =>
    /\ mstates.macros = owned[currConfig]
    /\ \A c \in Config : \/ files[c].macros = owned[c] \/ files[c].version = 1
                         \/ cut /\ c = currConfig

(* mainLoop draws when gui_oldConfig differs from the selection: when it   *)
(* has nothing to draw, the list shows what is selected and what is        *)
(* loaded, unless a key came while it was drawing.                         *)
ListIsUpToDate ==
  kpc = "idle" /\ mpc = "loop" /\ ~was_recording /\ gui_oldConfig = gui_selectConfig /\ ~raced
    => lcd = [selected |-> gui_selectConfig, current |-> currConfig]

(* No thread waits for another one for ever after a signal: g15macro comes *)
(* to an end, be it a crash, unless a file of a later version was chosen.  *)
SignalEnds == leaving ~> ~Running \/ kpc = "stuck"

(* g15macro/ChangeLog: "ensure safe exit on receipt of signal".            *)
ExitsSafely == mpc # "crashed"

(* g15macro.c:721: "Config file is version %i. I support up to %i.         *)
(* Exiting."                                                               *)
NewerExits == kpc = "stuck" ~> mpc = "gone"
=============================================================================
