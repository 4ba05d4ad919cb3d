----------------------------- MODULE MacroProofs ------------------------------
(***************************************************************************)
(* Proofs about g15macro, for any number of configurations, macros, steps  *)
(* and keys.  What keeps macros is ConfigInv: until two threads overlap    *)
(* only one is in the middle of something, and which file may lack macros  *)
(* depends on which.  What keeps the list right is ListInv, which says     *)
(* what a drawing may still miss at each point of a switch.  The recorder  *)
(* is a race of two threads; RecorderInv follows the index of the next     *)
(* step through it.                                                        *)
(***************************************************************************)
EXTENDS MCMacro, FiniteSetTheorems, TLAPS

LEMMA FiniteConfig == IsFiniteSet(Config)
<1>1. Configs!MAX_CONFIGS - 1 \in Int
  BY DEF Configs!MAX_CONFIGS
<1>2. IsFiniteSet(0 .. Configs!MAX_CONFIGS - 1)
  BY <1>1, FS_Interval
<1> QED
  BY <1>2, FS_Subset, ConfigAssumption

(* The last configuration, which L2 shows when it passes the first: there  *)
(* is one, since the configurations are finitely many.                     *)
LEMMA LastConfig == \E c \in Config : c + 1 \notin Config
<1> SUFFICES ASSUME \A c \in Config : c + 1 \in Config PROVE FALSE
  OBVIOUS
<1> DEFINE up == [c \in Config |-> c + 1]
<1>1. Config \subseteq Nat /\ 0 \in Config /\ IsFiniteSet(Config)
  BY FiniteConfig, ConfigAssumption DEF Configs!MAX_CONFIGS
<1>2. up \in Injection(Config, Config)
  BY <1>1 DEF Injection, IsInjective
<1>3. up \in Surjection(Config, Config)
  BY <1>1, <1>2, FS_Injection
<1>4. \E c \in Config : up[c] = 0
  BY <1>1, <1>3 DEF Surjection
<1> QED
  BY <1>1, <1>4

-----------------------------------------------------------------------------
(* What is saved *)

File == [version : {0, 1, 2, 3}, macros : Nat, run : BOOLEAN]

ConfigTypes ==
  /\ currConfig \in Config /\ gui_selectConfig \in Config /\ configpath \in Config
  /\ files \in [Config -> File]
  /\ mstates \in [macros : Nat, run : BOOLEAN]
  /\ owned \in [Config -> Nat]
  /\ mkey_state \in Nat /\ orig_mkeystate \in Nat

(* Until two threads overlap, only one of them is busy.                    *)
OneAtATime ==
  /\ kpc \notin Configs!Resting => fpc \in Configs!Resting /\ mpc \in {"loop", "drawing"}
  /\ fpc \notin Configs!Resting => mpc \in {"loop", "drawing"}

(* Who writes has written the palettes below the one it is at.             *)
Counting ==
  /\ config_mutex = "free" => written = {}
  /\ config_mutex # "free" /\ kpc # "stuck" =>
       mkey_state \in 0 .. NumPalettes /\ written = 0 .. mkey_state - 1

(* The file of the current configuration, where it may lack its macros     *)
Unsaved(c) ==
  /\ c = currConfig
  /\ kpc \in {"open", "dump", "dump_old"} \/ fpc = "dump" \/ mpc = "dump" \/ cut

(* The macros that are read from a file                                    *)
InFile(c) == IF files[c].version = 1 THEN 0 ELSE files[c].macros

Saved ==
  /\ kpc \notin {"path", "stuck"} => configpath = currConfig
  /\ kpc \notin {"restore", "stuck"} => mstates.macros = owned[currConfig]
  /\ kpc # "stuck" => \A c \in Config : Unsaved(c) \/ InFile(c) = owned[c]
  /\ kpc \in {"clean", "restore", "path"} => ~cut

Undisturbed == OneAtATime /\ Counting /\ Saved

ConfigInv == ConfigTypes /\ (~overlapped => Undisturbed)

(* What is read is what InFile says.                                       *)
LEMMA ReadIn ==
  ASSUME NEW c, files[c] \in File, ~Configs!TooNew(files[c])
  PROVE  /\ Configs!Restored(files[c]) \in [macros : Nat, run : BOOLEAN]
         /\ Configs!Restored(files[c]).macros = InFile(c)
<1>1. files[c].version \in {0, 1, 2, 3} /\ files[c].macros \in Nat /\ files[c].run \in BOOLEAN
  BY DEF File
<1>2. files[c].version \in {0, 1, 2}
  BY <1>1 DEF Configs!TooNew, Configs!G15MACRO_CONF_VER
<1>3. CASE files[c].version = 0
  BY <1>1, <1>3 DEF Configs!Restored, InFile
<1>4. CASE files[c].version = 1
  BY <1>1, <1>4 DEF Configs!Restored, InFile
<1>5. CASE files[c].version = 2
  BY <1>1, <1>5 DEF Configs!Restored, InFile
<1> QED
  BY <1>2, <1>3, <1>4, <1>5

LEMMA ConfigInit == Configs!Init => ConfigInv
<1> SUFFICES ASSUME Configs!Init PROVE ConfigInv
  OBVIOUS
<1> USE ConfigAssumption DEF Configs!Init, Configs!MAX_CONFIGS
<1>1. Config \subseteq Nat /\ 0 \in Config
  OBVIOUS
<1>2. PICK version \in [Config -> {0, 1, 2, 3}] :
        /\ version[0] # 3
        /\ files = [c \in Config |-> [version |-> version[c], macros |-> c + 1,
                                      run |-> version[c] = 2]]
        /\ owned = [c \in Config |-> IF version[c] = 1 THEN 0 ELSE c + 1]
  OBVIOUS
<1>3. \A c \in Config : /\ files[c].version = version[c] /\ files[c].macros = c + 1
                        /\ files[c] \in File
                        /\ owned[c] = (IF version[c] = 1 THEN 0 ELSE c + 1)
  BY <1>1, <1>2 DEF File
<1>4. files \in [Config -> File] /\ owned \in [Config -> Nat]
  BY <1>1, <1>2, <1>3
<1>5. files[0] \in File /\ ~Configs!TooNew(files[0])
  BY <1>1, <1>2, <1>3 DEF Configs!TooNew, Configs!G15MACRO_CONF_VER
<1>6. mstates \in [macros : Nat, run : BOOLEAN] /\ mstates.macros = InFile(0)
  BY <1>1, <1>5, ReadIn
<1>7. ConfigTypes
  BY <1>1, <1>4, <1>6 DEF ConfigTypes
<1>8. \A c \in Config : InFile(c) = owned[c]
  BY <1>3 DEF InFile
<1>9. OneAtATime /\ Counting /\ Saved
  BY <1>1, <1>6, <1>8 DEF OneAtATime, Counting, Saved, Configs!Resting
<1> QED
  BY <1>7, <1>9 DEF ConfigInv, Undisturbed

(* Which macros a file and memory have after each of the operations        *)
LEMMA Truncated ==
  ASSUME ConfigTypes, NEW d \in Config, Configs!Truncate(d)
  PROVE  /\ files' \in [Config -> File]
         /\ \A c \in Config \ {d} : files'[c] = files[c]
<1>1. Configs!Empty \in File
  BY DEF Configs!Empty, File
<1> QED
  BY <1>1 DEF ConfigTypes, Configs!Truncate

LEMMA Dumped ==
  ASSUME ConfigTypes, Counting, kpc # "stuck", NEW t, t # "free", NEW d \in Config,
         Configs!Dump(t, d)
  PROVE  /\ files' \in [Config -> File]
         /\ files'[d].version = 0 /\ files'[d].macros = mstates.macros
         /\ \A c \in Config \ {d} : files'[c] = files[c]
<1> DEFINE new == [Configs!Empty EXCEPT !.macros = mstates.macros]
<1>1. mstates.macros \in Nat
  BY DEF ConfigTypes
<1>2. Configs!Empty \in File
  BY DEF Configs!Empty, File
<1>3. new \in File /\ new.version = 0 /\ new.macros = mstates.macros
  BY <1>1, <1>2 DEF Configs!Empty, File
<1>4. mkey_state \in 0 .. NumPalettes /\ mkey_state \notin 0 .. NumPalettes - 1
      /\ written = 0 .. mkey_state - 1
  BY DEF Counting, Configs!Dump, Configs!Palettes
<1>5. written = Configs!Palettes
  BY <1>4, ConfigAssumption DEF Configs!Palettes
<1>6. files' = [files EXCEPT ![d] = new]
  BY <1>5 DEF Configs!Dump
<1> HIDE DEF new
<1> QED
  BY <1>3, <1>6 DEF ConfigTypes

(* Whatever was written, a dump leaves a file behind.                      *)
LEMMA DumpTypes ==
  ASSUME ConfigTypes, NEW t, NEW d \in Config, Configs!Dump(t, d),
         UNCHANGED <<currConfig, gui_selectConfig, configpath, mstates, owned>>
  PROVE  ConfigTypes'
<1> DEFINE left == IF written = Configs!Palettes THEN mstates.macros ELSE 0
<1>1. left \in Nat
  BY DEF ConfigTypes
<1>2. Configs!Empty \in File
  BY DEF Configs!Empty, File
<1>3. files' = [files EXCEPT ![d] = [Configs!Empty EXCEPT !.macros = left]]
  BY DEF Configs!Dump
<1> HIDE DEF left
<1>4. [Configs!Empty EXCEPT !.macros = left] \in File
  BY <1>1, <1>2 DEF File
<1>5. files' \in [Config -> File] /\ mkey_state' \in Nat /\ orig_mkeystate' \in Nat
  BY <1>3, <1>4 DEF ConfigTypes, Configs!Dump
<1> QED
  BY <1>5 DEF ConfigTypes

LEMMA Recorded ==
  ASSUME ConfigTypes, Configs!Record
  PROVE  /\ mstates' \in [macros : Nat, run : BOOLEAN]
         /\ mstates'.macros \in Nat /\ owned' = [owned EXCEPT ![currConfig] = mstates'.macros]
<1>1. Configs!MAX_CONFIGS \in Nat
  BY DEF Configs!MAX_CONFIGS
<1>2. mstates \in [macros : Nat, run : BOOLEAN] /\ mstates.macros \in Nat
  BY DEF ConfigTypes
<1>3. mstates' = [mstates EXCEPT !.macros = @ + Configs!MAX_CONFIGS]
  BY DEF Configs!Record
<1>4. owned' = [owned EXCEPT ![currConfig] = mstates'.macros]
  BY DEF Configs!Record
<1> QED
  BY <1>1, <1>2, <1>3, <1>4

(* Lkeys_thread: a recording, or a switch of configuration                 *)
LEMMA RecordingKeeps ==
  ASSUME ConfigInv, \/ Configs!Record \/ Configs!OpenRecorded \/ Configs!DumpRecorded
                    \/ Configs!RunFails
  PROVE  ConfigInv'
<1> USE DEF ConfigInv, Configs!KMoves, Configs!NotL, Configs!Overlapping, Configs!display,
            Configs!palette, Configs!Resting, Configs!Rest
<1>1. CASE Configs!Record
  <2>1. /\ mstates' \in [macros : Nat, run : BOOLEAN]
        /\ mstates'.macros \in Nat /\ owned' = [owned EXCEPT ![currConfig] = mstates'.macros]
    BY <1>1, Recorded
  <2>2. ConfigTypes'
    BY <1>1, <2>1 DEF Configs!Record, ConfigTypes
  <2>3. ~overlapped' => Undisturbed'
    BY <1>1, <2>1 DEF Configs!Record, ConfigTypes, Undisturbed, OneAtATime, Counting, Saved, Unsaved,
        InFile
  <2> QED
    BY <2>2, <2>3
<1>2. CASE Configs!OpenRecorded
  <2>1. configpath \in Config /\ Configs!Truncate(configpath)
    BY <1>2 DEF Configs!OpenRecorded, ConfigTypes
  <2>2. files' \in [Config -> File] /\ \A c \in Config \ {configpath} : files'[c] = files[c]
    BY <2>1, Truncated
  <2>3. ConfigTypes'
    BY <1>2, <2>2 DEF Configs!OpenRecorded, ConfigTypes
  <2>4. ~overlapped' => Undisturbed'
    BY <1>2, <2>2 DEF Configs!OpenRecorded, Undisturbed, OneAtATime, Counting, Saved, Unsaved,
        InFile
  <2> QED
    BY <2>3, <2>4
<1>3. CASE Configs!DumpRecorded
  <2>1. configpath \in Config /\ Configs!Dump("L", configpath)
    BY <1>3 DEF Configs!DumpRecorded, ConfigTypes
  <2>2. ConfigTypes'
    BY <1>3, <2>1, DumpTypes DEF Configs!DumpRecorded
  <2>3. ASSUME ~overlapped' PROVE Undisturbed'
    <3>1. Undisturbed /\ kpc # "stuck"
      BY <1>3, <2>3 DEF Configs!DumpRecorded, Undisturbed, OneAtATime
    <3>2. /\ files'[configpath].version = 0 /\ files'[configpath].macros = mstates.macros
          /\ \A c \in Config \ {configpath} : files'[c] = files[c]
      BY <2>1, <3>1, Dumped DEF Undisturbed
    <3>3. Counting' /\ ~cut'
      BY <2>1 DEF Counting, Configs!Dump
    <3>4. OneAtATime'
      BY <1>3, <3>1 DEF Configs!DumpRecorded, Undisturbed, OneAtATime
    <3>5. \A c \in Config : InFile(c)' = IF c = configpath THEN mstates.macros ELSE InFile(c)
      BY <3>2 DEF InFile
    <3>6. Saved'
      BY <1>3, <3>1, <3>3, <3>5 DEF Configs!DumpRecorded, Undisturbed, OneAtATime, Saved, Unsaved
    <3> QED
      BY <3>3, <3>4, <3>6 DEF Undisturbed
  <2> QED
    BY <2>2, <2>3
<1>4. CASE Configs!RunFails
  <2>1. CASE mpc = "join"
    <3>1. ConfigTypes'
      BY <1>4, <2>1 DEF Configs!RunFails, ConfigTypes
    <3>2. ~overlapped' => Undisturbed'
      BY <1>4, <2>1 DEF Configs!RunFails, Undisturbed, OneAtATime, Counting, Saved, Unsaved,
        InFile
    <3> QED
      BY <3>1, <3>2
  <2>2. CASE mpc # "join"
    <3>1. currConfig \in Config /\ Configs!Truncate(currConfig)
      BY <1>4, <2>2 DEF Configs!RunFails, ConfigTypes
    <3>2. files' \in [Config -> File] /\ \A c \in Config \ {currConfig} : files'[c] = files[c]
      BY <3>1, Truncated
    <3>3. ConfigTypes'
      BY <1>4, <3>2 DEF Configs!RunFails, ConfigTypes
    <3>4. ~overlapped' => Undisturbed'
      BY <1>4, <2>2, <3>2 DEF Configs!RunFails, Undisturbed, OneAtATime, Counting, Saved, Unsaved,
        InFile
    <3> QED
      BY <3>3, <3>4
  <2> QED
    BY <2>1, <2>2
<1> QED
  BY <1>1, <1>2, <1>3, <1>4

(* The counting of the palettes                                            *)
LEMMA PaletteKeeps ==
  ASSUME ConfigInv, \/ \E t \in {"L", "X", "M"} : Configs!LockDump(t) \/ Configs!WritePalette(t)
                    \/ \E m \in Configs!Palettes : Configs!MKey(m)
  PROVE  ConfigInv'
<1> USE DEF ConfigInv, Configs!KMoves, Configs!NotL, Configs!Overlapping, Configs!display,
            Configs!palette, Configs!Resting, Configs!Rest
<1>1. ASSUME NEW t \in {"L", "X", "M"}, Configs!LockDump(t) PROVE ConfigInv'
  <2>1. ConfigTypes'
    BY <1>1 DEF Configs!LockDump, ConfigTypes
  <2>2. ~overlapped' => Counting'
    BY <1>1, ConfigAssumption DEF Configs!LockDump, Undisturbed, Counting
  <2>3. ~overlapped' => OneAtATime' /\ Saved'
    BY <1>1 DEF Configs!LockDump, Undisturbed, OneAtATime, Counting, Saved, Unsaved,
        InFile
  <2> QED
    BY <2>1, <2>2, <2>3 DEF Undisturbed
<1>2. ASSUME NEW t \in {"L", "X", "M"}, Configs!WritePalette(t) PROVE ConfigInv'
  <2>1. mkey_state \in 0 .. NumPalettes - 1 /\ mkey_state' = mkey_state + 1
        /\ written' = written \cup {mkey_state}
    BY <1>2 DEF Configs!WritePalette, Configs!Palettes
  <2>2. ConfigTypes'
    BY <1>2, <2>1 DEF Configs!WritePalette, ConfigTypes
  <2>3. ASSUME ~overlapped', kpc # "stuck" PROVE written' = 0 .. mkey_state' - 1
    <3>1. written = 0 .. mkey_state - 1
      BY <1>2, <2>3 DEF Configs!WritePalette, Undisturbed, Counting
    <3> QED
      BY <2>1, <3>1
  <2>4. mkey_state' \in 0 .. NumPalettes
    BY <2>1, ConfigAssumption
  <2>5. ~overlapped' => Counting'
    BY <1>2, <2>3, <2>4 DEF Configs!WritePalette, Counting
  <2>6. ~overlapped' => OneAtATime' /\ Saved'
    BY <1>2 DEF Configs!WritePalette, Undisturbed, OneAtATime, Counting, Saved, Unsaved,
        InFile
  <2> QED
    BY <2>2, <2>5, <2>6 DEF Undisturbed
<1>3. ASSUME NEW m \in Configs!Palettes, Configs!MKey(m) PROVE ConfigInv'
  <2>1. m \in Nat /\ m + 1 \in Nat
    BY ConfigAssumption DEF Configs!Palettes
  <2>2. mkey_state' \in Nat
    BY <1>3, <2>1 DEF Configs!MKey, ConfigTypes
  <2>3. ConfigTypes'
    BY <1>3, <2>2 DEF Configs!MKey, ConfigTypes
  <2>4. ~overlapped' => Undisturbed'
    BY <1>3 DEF Configs!MKey, Undisturbed, OneAtATime, Counting, Saved, Unsaved,
        InFile
  <2> QED
    BY <2>3, <2>4
<1> QED
  BY <1>1, <1>2, <1>3

LEMMA SwitchKeeps ==
  ASSUME ConfigInv, \/ Configs!OpenOld \/ Configs!DumpOld \/ Configs!CleanMstates
                    \/ Configs!RestoreConfig \/ Configs!SetConfigpath
  PROVE  ConfigInv'
<1> USE DEF ConfigInv, Configs!KMoves, Configs!NotL, Configs!Overlapping, Configs!display,
            Configs!palette, Configs!Resting, Configs!Rest
<1>1. CASE Configs!OpenOld
  <2>1. currConfig \in Config /\ Configs!Truncate(currConfig)
    BY <1>1 DEF Configs!OpenOld, ConfigTypes
  <2>2. files' \in [Config -> File] /\ \A c \in Config \ {currConfig} : files'[c] = files[c]
    BY <2>1, Truncated
  <2>3. ConfigTypes'
    BY <1>1, <2>2 DEF Configs!OpenOld, ConfigTypes
  <2>4. ~overlapped' => Undisturbed'
    BY <1>1, <2>2 DEF Configs!OpenOld, Undisturbed, OneAtATime, Counting, Saved, Unsaved,
        InFile
  <2> QED
    BY <2>3, <2>4
<1>2. CASE Configs!DumpOld
  <2>1. currConfig \in Config /\ Configs!Dump("L", currConfig)
    BY <1>2 DEF Configs!DumpOld, ConfigTypes
  <2>2. ConfigTypes'
    BY <1>2, <2>1, DumpTypes DEF Configs!DumpOld
  <2>3. ASSUME ~overlapped' PROVE Undisturbed'
    <3>1. Undisturbed /\ kpc # "stuck"
      BY <1>2, <2>3 DEF Configs!DumpOld, Undisturbed, OneAtATime
    <3>2. /\ files'[currConfig].version = 0 /\ files'[currConfig].macros = mstates.macros
          /\ \A c \in Config \ {currConfig} : files'[c] = files[c]
      BY <2>1, <3>1, Dumped DEF Undisturbed
    <3>3. Counting' /\ ~cut'
      BY <2>1 DEF Counting, Configs!Dump
    <3>4. OneAtATime'
      BY <1>2, <3>1 DEF Configs!DumpOld, Undisturbed, OneAtATime
    <3>5. \A c \in Config : InFile(c)' = IF c = currConfig THEN mstates.macros ELSE InFile(c)
      BY <3>2 DEF InFile
    <3>6. Saved'
      BY <1>2, <3>1, <3>3, <3>5 DEF Configs!DumpOld, Undisturbed, OneAtATime, Saved, Unsaved
    <3> QED
      BY <3>3, <3>4, <3>6 DEF Undisturbed
  <2> QED
    BY <2>2, <2>3
<1>3. CASE Configs!CleanMstates
  <2>1. ConfigTypes'
    BY <1>3 DEF Configs!CleanMstates, ConfigTypes
  <2>2. ~overlapped' => Undisturbed'
    BY <1>3 DEF Configs!CleanMstates, Undisturbed, OneAtATime, Counting, Saved, Unsaved,
        InFile
  <2> QED
    BY <2>1, <2>2
<1>4. CASE Configs!RestoreConfig
  <2>1. gui_selectConfig \in Config /\ currConfig' = gui_selectConfig
    BY <1>4 DEF Configs!RestoreConfig, ConfigTypes
  <2>2. CASE Configs!TooNew(files[currConfig'])
    <3>1. /\ Configs!Truncate(currConfig') /\ kpc' = "stuck" /\ mstates' = mstates
          /\ configpath' = currConfig' /\ config_mutex' = "L"
      BY <1>4, <2>2 DEF Configs!RestoreConfig
    <3>2. ConfigTypes'
      BY <1>4, <2>1, <3>1, Truncated DEF Configs!RestoreConfig, ConfigTypes
    <3>3. ~overlapped' => Undisturbed'
      BY <1>4, <3>1 DEF Configs!RestoreConfig, Undisturbed, OneAtATime, Counting, Saved
    <3> QED
      BY <3>2, <3>3
  <2>3. CASE ~Configs!TooNew(files[currConfig'])
    <3>1. /\ kpc' = "path" /\ mstates' = Configs!Restored(files[currConfig'])
          /\ UNCHANGED <<files, configpath, config_mutex>>
      BY <1>4, <2>3 DEF Configs!RestoreConfig
    <3>2. mstates' \in [macros : Nat, run : BOOLEAN] /\ mstates'.macros = InFile(currConfig')
      BY <2>1, <2>3, <3>1, ReadIn DEF ConfigTypes
    <3>3. ConfigTypes'
      BY <1>4, <2>1, <3>1, <3>2 DEF Configs!RestoreConfig, ConfigTypes
    <3>4. ~overlapped' => Undisturbed'
      BY <1>4, <2>1, <3>1, <3>2 DEF Configs!RestoreConfig, Undisturbed, OneAtATime, Counting, Saved, Unsaved,
          InFile
    <3> QED
      BY <3>3, <3>4
  <2> QED
    BY <2>2, <2>3
<1>5. CASE Configs!SetConfigpath
  <2>1. ConfigTypes'
    BY <1>5 DEF Configs!SetConfigpath, ConfigTypes
  <2>2. ~overlapped' => Undisturbed'
    BY <1>5 DEF Configs!SetConfigpath, Undisturbed, OneAtATime, Counting, Saved, Unsaved,
        InFile
  <2> QED
    BY <2>1, <2>2
<1> QED
  BY <1>1, <1>2, <1>3, <1>4, <1>5

(* L2 to L4, the drawing and the signal touch nothing that is saved.       *)
LEMMA SelectionStays == \A change \in {0, 1, 2} :
                          gui_selectConfig \in Config => Configs!Selected(change) \in Config
<1>1. (CHOOSE c \in Config : c + 1 \notin Config) \in Config
  BY LastConfig
<1>2. ASSUME gui_selectConfig \in Config, gui_selectConfig # 0
      PROVE  gui_selectConfig - 1 \in Config
  <2>1. gui_selectConfig \in Nat /\ gui_selectConfig - 1 \in 0 .. gui_selectConfig
    BY <1>2, ConfigAssumption DEF Configs!MAX_CONFIGS
  <2> QED
    BY <1>2, <2>1, ConfigAssumption
<1> QED
  BY <1>1, <1>2, ConfigAssumption DEF Configs!Selected

LEMMA DisplayKeeps ==
  ASSUME ConfigInv,
         \/ \E change \in {0, 1, 2} : Configs!Select(change)
         \/ Configs!Draw \/ Configs!Drawn \/ Configs!Signal
         \/ UNCHANGED Configs!cvars
  PROVE  ConfigInv'
<1> USE DEF ConfigInv, Configs!NotL, Configs!NotMain, Configs!KMoves, Configs!MMoves,
            Configs!store, Configs!display, Configs!palette, Configs!Resting, Configs!Rest
<1>1. ASSUME NEW change \in {0, 1, 2}, Configs!Select(change) PROVE ConfigInv'
  <2>1. Configs!Selected(change) \in Config
    BY SelectionStays DEF ConfigTypes
  <2>2. ConfigTypes'
    BY <1>1, <2>1 DEF Configs!Select, ConfigTypes
  <2>3. ~overlapped' => Undisturbed'
    BY <1>1 DEF Configs!Select, Undisturbed, OneAtATime, Counting, Saved, Unsaved,
        InFile
  <2> QED
    BY <2>2, <2>3
<1>2. CASE Configs!Draw \/ Configs!Drawn
  <2>1. ConfigTypes'
    BY <1>2 DEF Configs!Draw, Configs!Drawn, ConfigTypes
  <2>2. ~overlapped' => Undisturbed'
    <3>1. CASE Configs!Draw
      BY <3>1 DEF Configs!Draw, Undisturbed, OneAtATime, Counting, Saved, Unsaved,
        InFile
    <3>2. CASE Configs!Drawn
      BY <3>2 DEF Configs!Drawn, Undisturbed, OneAtATime, Counting, Saved, Unsaved,
        InFile
    <3> QED
      BY <1>2, <3>1, <3>2
  <2> QED
    BY <2>1, <2>2
<1>3. CASE Configs!Signal
  <2>1. ConfigTypes'
    BY <1>3 DEF Configs!Signal, ConfigTypes
  <2>2. ~overlapped' => Undisturbed'
    BY <1>3 DEF Configs!Signal, Undisturbed, OneAtATime, Counting, Saved, Unsaved,
        InFile
  <2> QED
    BY <2>1, <2>2
<1>4. CASE UNCHANGED Configs!cvars
  <2>1. ConfigTypes'
    BY <1>4 DEF Configs!cvars, ConfigTypes
  <2>2. ~overlapped' => Undisturbed'
    BY <1>4 DEF Configs!cvars, Undisturbed, OneAtATime, Counting, Saved, Unsaved,
        InFile
  <2> QED
    BY <2>1, <2>2
<1> QED
  BY <1>1, <1>2, <1>3, <1>4

(* xevent_thread, and the end of the program                               *)
LEMMA SavingKeeps ==
  ASSUME ConfigInv, \/ Configs!OpenCutOff \/ Configs!DumpCutOff
                    \/ Configs!OpenLast \/ Configs!DumpLast
  PROVE  ConfigInv'
<1> USE DEF ConfigInv, Configs!NotMain, Configs!MMoves, Configs!Overlapping, Configs!display,
            Configs!palette, Configs!Resting, Configs!Rest
<1>1. CASE Configs!OpenCutOff
  <2>1. configpath \in Config /\ Configs!Truncate(configpath)
    BY <1>1 DEF Configs!OpenCutOff, ConfigTypes
  <2>2. files' \in [Config -> File] /\ \A c \in Config \ {configpath} : files'[c] = files[c]
    BY <2>1, Truncated
  <2>3. ConfigTypes'
    BY <1>1, <2>2 DEF Configs!OpenCutOff, ConfigTypes
  <2>4. ~overlapped' => Undisturbed'
    BY <1>1, <2>2 DEF Configs!OpenCutOff, Undisturbed, OneAtATime, Counting, Saved, Unsaved,
        InFile
  <2> QED
    BY <2>3, <2>4
<1>2. CASE Configs!DumpCutOff
  <2>1. configpath \in Config /\ Configs!Dump("X", configpath)
    BY <1>2 DEF Configs!DumpCutOff, ConfigTypes
  <2>2. ConfigTypes'
    BY <1>2, <2>1, DumpTypes DEF Configs!DumpCutOff
  <2>3. ASSUME ~overlapped' PROVE Undisturbed'
    <3>1. Undisturbed /\ kpc # "stuck"
      BY <1>2, <2>3 DEF Configs!DumpCutOff, Undisturbed, OneAtATime
    <3>2. /\ files'[configpath].version = 0 /\ files'[configpath].macros = mstates.macros
          /\ \A c \in Config \ {configpath} : files'[c] = files[c]
      BY <2>1, <3>1, Dumped DEF Undisturbed
    <3>3. Counting' /\ ~cut'
      BY <2>1 DEF Counting, Configs!Dump
    <3>4. OneAtATime'
      BY <1>2, <3>1 DEF Configs!DumpCutOff, Undisturbed, OneAtATime
    <3>5. \A c \in Config : InFile(c)' = IF c = configpath THEN mstates.macros ELSE InFile(c)
      BY <3>2 DEF InFile
    <3>6. Saved'
      BY <1>2, <3>1, <3>3, <3>5 DEF Configs!DumpCutOff, Undisturbed, OneAtATime, Saved, Unsaved
    <3> QED
      BY <3>3, <3>4, <3>6 DEF Undisturbed
  <2> QED
    BY <2>2, <2>3
<1>3. CASE Configs!OpenLast
  <2>1. currConfig \in Config /\ Configs!Truncate(currConfig)
    BY <1>3 DEF Configs!OpenLast, ConfigTypes
  <2>2. files' \in [Config -> File] /\ \A c \in Config \ {currConfig} : files'[c] = files[c]
    BY <2>1, Truncated
  <2>3. ConfigTypes'
    BY <1>3, <2>2 DEF Configs!OpenLast, ConfigTypes
  <2>4. ~overlapped' => Undisturbed'
    BY <1>3, <2>2 DEF Configs!OpenLast, Undisturbed, OneAtATime, Counting, Saved, Unsaved,
        InFile
  <2> QED
    BY <2>3, <2>4
<1>4. CASE Configs!DumpLast
  <2>1. configpath \in Config /\ Configs!Dump("M", configpath)
    BY <1>4 DEF Configs!DumpLast, ConfigTypes
  <2>2. ConfigTypes'
    BY <1>4, <2>1, DumpTypes DEF Configs!DumpLast
  <2>3. ASSUME ~overlapped' PROVE Undisturbed'
    <3>1. Undisturbed /\ kpc # "stuck"
      BY <1>4, <2>3 DEF Configs!DumpLast, Undisturbed, OneAtATime
    <3>2. /\ files'[configpath].version = 0 /\ files'[configpath].macros = mstates.macros
          /\ \A c \in Config \ {configpath} : files'[c] = files[c]
      BY <2>1, <3>1, Dumped DEF Undisturbed
    <3>3. Counting' /\ ~cut'
      BY <2>1 DEF Counting, Configs!Dump
    <3>4. OneAtATime'
      BY <1>4, <3>1 DEF Configs!DumpLast, Undisturbed, OneAtATime
    <3>5. \A c \in Config : InFile(c)' = IF c = configpath THEN mstates.macros ELSE InFile(c)
      BY <3>2 DEF InFile
    <3>6. Saved'
      BY <1>4, <3>1, <3>3, <3>5 DEF Configs!DumpLast, Undisturbed, OneAtATime, Saved, Unsaved
    <3> QED
      BY <3>3, <3>4, <3>6 DEF Undisturbed
  <2> QED
    BY <2>2, <2>3
<1> QED
  BY <1>1, <1>2, <1>3, <1>4

LEMMA EndKeeps ==
  ASSUME ConfigInv, \/ Configs!EndLkeys \/ Configs!EndXevent \/ Configs!FreeConfigs \/ Configs!Join
                    \/ \E at \in {{"idle"}, {"restore", "path"}} : Configs!UseFreed(at)
  PROVE  ConfigInv'
<1> USE DEF ConfigInv, Configs!KMoves, Configs!NotL, Configs!NotMain, Configs!MMoves,
            Configs!store, Configs!display, Configs!palette, Configs!Resting
<1>1. CASE Configs!EndLkeys
  <2>1. ConfigTypes'
    BY <1>1 DEF Configs!EndLkeys, ConfigTypes
  <2>2. ~overlapped' => Undisturbed'
    BY <1>1 DEF Configs!EndLkeys, Undisturbed, OneAtATime, Counting, Saved, Unsaved,
        InFile
  <2> QED
    BY <2>1, <2>2
<1>2. CASE Configs!EndXevent
  <2>1. ConfigTypes'
    BY <1>2 DEF Configs!EndXevent, ConfigTypes
  <2>2. ~overlapped' => Undisturbed'
    BY <1>2 DEF Configs!EndXevent, Undisturbed, OneAtATime, Counting, Saved, Unsaved,
        InFile
  <2> QED
    BY <2>1, <2>2
<1>3. CASE Configs!FreeConfigs
  <2>1. ConfigTypes'
    BY <1>3 DEF Configs!FreeConfigs, ConfigTypes
  <2>2. ~overlapped' => Undisturbed'
    BY <1>3 DEF Configs!FreeConfigs, Undisturbed, OneAtATime, Counting, Saved, Unsaved,
        InFile
  <2> QED
    BY <2>1, <2>2
<1>4. CASE Configs!Join
  <2>1. ConfigTypes'
    BY <1>4 DEF Configs!Join, ConfigTypes
  <2>2. ~overlapped' => Undisturbed'
    BY <1>4 DEF Configs!Join, Undisturbed, OneAtATime, Counting, Saved, Unsaved,
        InFile
  <2> QED
    BY <2>1, <2>2
<1>5. ASSUME NEW at \in {{"idle"}, {"restore", "path"}}, Configs!UseFreed(at) PROVE ConfigInv'
  <2>1. ConfigTypes'
    BY <1>5 DEF Configs!UseFreed, ConfigTypes
  <2>2. ~overlapped' => Undisturbed'
    BY <1>5 DEF Configs!UseFreed, Undisturbed, OneAtATime, Counting, Saved, Unsaved,
        InFile
  <2> QED
    BY <2>1, <2>2
<1> QED
  BY <1>1, <1>2, <1>3, <1>4, <1>5

LEMMA ConfigStep == ConfigInv /\ [Configs!Next]_Configs!cvars => ConfigInv'
<1> SUFFICES ASSUME ConfigInv, [Configs!Next]_Configs!cvars PROVE ConfigInv'
  OBVIOUS
<1>1. CASE Configs!Lkeys
  BY <1>1, RecordingKeeps, SwitchKeeps, PaletteKeeps, EndKeeps DEF Configs!Lkeys
<1>2. CASE Configs!Keys
  BY <1>2, RecordingKeeps, SwitchKeeps, PaletteKeeps, DisplayKeeps, EndKeeps DEF Configs!Keys
<1>3. CASE Configs!Main \/ Configs!Signal
  BY <1>3, DisplayKeeps, SavingKeeps, PaletteKeeps, EndKeeps DEF Configs!Main
<1>4. CASE Configs!Xevent \/ Configs!OpenCutOff
  BY <1>4, SavingKeeps, PaletteKeeps, EndKeeps DEF Configs!Xevent
<1>5. CASE UNCHANGED Configs!cvars
  BY <1>5, DisplayKeeps
<1>6. CASE Configs!Next
  BY <1>1, <1>2, <1>3, <1>4, <1>6 DEF Configs!Next
<1> QED
  BY <1>5, <1>6

LEMMA ConfigInvariance == Configs!Spec => []ConfigInv
BY ConfigInit, ConfigStep, PTL DEF Configs!Spec

(* For any number of configurations and palettes: what was recorded is in  *)
(* its file and in memory, every palette of it, whenever nothing is being  *)
(* saved or switched, until two threads have saved or switched at the same *)
(* time, and unless the file said that it is of version 1.                 *)
THEOREM MacrosStay == Configs!Spec => []MacrosKept
<1>1. ConfigInv => MacrosKept
  BY DEF ConfigInv, ConfigTypes, Undisturbed, Saved, Unsaved, InFile, MacrosKept,
         Configs!MacrosKept, Configs!Saving, Configs!Resting
<1> QED
  BY ConfigInvariance, <1>1, PTL

-----------------------------------------------------------------------------
(* The list on the LCD *)

(* What is drawn while nobody is between two steps; a recording that is    *)
(* still being saved has to be noticed.                                    *)
ListInv ==
  ~raced =>
    /\ mpc = "drawing" /\ kpc = "idle" =>
         lcd = [selected |-> gui_selectConfig, current |-> currConfig]
    /\ mpc = "loop" /\ kpc = "idle" /\ ~was_recording /\ gui_oldConfig # Configs!Redraw =>
         lcd = [selected |-> gui_oldConfig, current |-> currConfig]
    /\ kpc \in {"open", "dump"} => mpc # "drawing" /\ (mpc = "loop" => was_recording)

LEMMA ListStep == ConfigInv /\ ListInv /\ [Configs!Next]_Configs!cvars => ListInv'
<1> SUFFICES ASSUME ConfigInv, ListInv, [Configs!Next]_Configs!cvars PROVE ListInv'
  OBVIOUS
<1> USE DEF ListInv, Configs!store, Configs!display, Configs!KMoves, Configs!MMoves, Configs!NotL,
            Configs!NotMain, Configs!Racing, Configs!Rest
<1>1. CASE Configs!Record
  BY <1>1 DEF Configs!Record
<1>2. CASE Configs!OpenRecorded \/ Configs!DumpRecorded
  BY <1>2 DEF Configs!OpenRecorded, Configs!DumpRecorded
<1>3. CASE Configs!RunFails
  BY <1>3 DEF Configs!RunFails
<1>4. ASSUME NEW change \in {0, 1, 2}, Configs!Select(change) PROVE ListInv'
  BY <1>4 DEF Configs!Select
<1>5. CASE Configs!OpenOld \/ Configs!DumpOld \/ Configs!CleanMstates
  BY <1>5 DEF Configs!OpenOld, Configs!DumpOld, Configs!CleanMstates
<1>6. CASE Configs!RestoreConfig
  BY <1>6 DEF Configs!RestoreConfig
<1>7. CASE Configs!SetConfigpath
  BY <1>7 DEF Configs!SetConfigpath
<1>8. CASE Configs!OpenCutOff \/ Configs!DumpCutOff
  BY <1>8 DEF Configs!OpenCutOff, Configs!DumpCutOff
<1>9. CASE Configs!Draw
  <2>1. mpc = "loop" /\ mpc' = "drawing" /\ UNCHANGED <<kpc, currConfig, gui_selectConfig>>
    BY <1>9 DEF Configs!Draw
  <2>2. CASE was_recording \/ gui_oldConfig = Configs!Redraw
    <3>1. lcd' = [selected |-> gui_selectConfig, current |-> currConfig]
      BY <1>9, <2>2 DEF Configs!Draw, Configs!Rendered
    <3>2. ~raced' => kpc = "idle"
      BY <1>9 DEF Configs!Draw
    <3> QED
      BY <2>1, <3>1, <3>2
  <2>3. CASE ~(was_recording \/ gui_oldConfig = Configs!Redraw)
    <3>1. lcd' = [selected |-> gui_selectConfig, current |-> lcd.current]
      BY <1>9, <2>3 DEF Configs!Draw, Configs!Rendered
    <3>2. ~raced' => kpc = "idle" /\ ~raced
      BY <1>9, <2>3 DEF Configs!Draw
    <3> QED
      BY <2>1, <2>3, <3>1, <3>2
  <2> QED
    BY <2>2, <2>3
<1>10. CASE Configs!Drawn
  BY <1>10 DEF Configs!Drawn
<1>11. CASE Configs!Signal \/ Configs!FreeConfigs \/ Configs!Join
  BY <1>11 DEF Configs!Signal, Configs!FreeConfigs, Configs!Join
<1>16. ASSUME NEW at \in {{"idle"}, {"restore", "path"}}, Configs!UseFreed(at) PROVE ListInv'
  BY <1>16 DEF Configs!UseFreed
<1>17. ASSUME NEW t \in {"L", "X", "M"}, Configs!LockDump(t) \/ Configs!WritePalette(t)
       PROVE  ListInv'
  BY <1>17 DEF Configs!LockDump, Configs!WritePalette
<1>18. ASSUME NEW m \in Configs!Palettes, Configs!MKey(m) PROVE ListInv'
  BY <1>18 DEF Configs!MKey
<1>19. CASE Configs!EndLkeys \/ Configs!EndXevent
  BY <1>19 DEF Configs!EndLkeys, Configs!EndXevent
<1>12. CASE Configs!OpenLast \/ Configs!DumpLast
  BY <1>12 DEF Configs!OpenLast, Configs!DumpLast
<1>13. CASE UNCHANGED Configs!cvars
  BY <1>13 DEF Configs!cvars
<1> HIDE DEF ListInv
<1>14. CASE Configs!Lkeys \/ Configs!Keys
  BY <1>14, <1>1, <1>2, <1>3, <1>4, <1>5, <1>6, <1>7, <1>16, <1>17,
     <1>18, <1>19 DEF Configs!Lkeys, Configs!Keys
<1>15. CASE Configs!Next
  BY <1>15, <1>8, <1>9, <1>10, <1>11, <1>12, <1>14, <1>17, <1>19
     DEF Configs!Next, Configs!Main, Configs!Xevent
<1> QED
  BY <1>13, <1>15

(* For any number of configurations: whenever the main thread has nothing  *)
(* to draw, the list shows what is selected and what is loaded, unless a   *)
(* key came while it was drawn.                                            *)
THEOREM ListStaysRight == Configs!Spec => []ListIsUpToDate
<1>1. Configs!Init => ListInv
  BY DEF Configs!Init, ListInv
<1>2. ConfigInv /\ ListInv => ListIsUpToDate
  <2>1. ConfigInv => gui_selectConfig # Configs!Redraw
    BY ConfigAssumption DEF ConfigInv, ConfigTypes, Configs!Redraw, Configs!MAX_CONFIGS
  <2> QED
    BY <2>1 DEF ListInv, ListIsUpToDate, Configs!ListIsUpToDate
<1> QED
  BY ConfigInvariance, ListStep, <1>1, <1>2, PTL DEF Configs!Spec

-----------------------------------------------------------------------------
(* The recorder *)

RecorderTypes ==
  /\ rec_index \in 0 .. MAX_KEYSTEPS
  /\ current_recording \in [Step -> XKey \cup {Blank}]
  /\ macro \in [steps : [Step -> XKey \cup {Blank}], record_steps : 0 .. MAX_KEYSTEPS]
  /\ typed \in Seq(XKey) /\ meant \in Seq(XKey)
  /\ played \in Seq(XKey \cup {Blank, Default})

(* One thread rests; while a macro is played it is xevent_thread.          *)
Apart ==
  /\ lpc = "idle" \/ xpc = "idle"
  /\ xpc \in {"idle", "count", "regrab"} /\ (xpc = "count" => rec_index < MAX_KEYSTEPS)

(* While a key is being counted the recording is one step ahead.           *)
Recorded1(n) ==
  /\ Len(typed) = n
  /\ \A i \in 1 .. n : i <= MAX_KEYSTEPS => current_recording[i] = typed[i]

(* The index is 0 unless a recording is going on.                          *)
Index ==
  /\ lpc \in {"grab", "clear", "flag", "ungrab", "play"} => rec_index = 0
  /\ lpc = "idle" /\ ~recording => rec_index = 0
  /\ xpc \in {"count", "regrab"} => recording

Recording ==
  /\ lpc \in {"grab", "clear"} => recording /\ typed = <<>>
  /\ lpc \in {"ungrab", "play"} => ~recording
  /\ lpc = "idle" /\ recording /\ xpc \in {"idle", "regrab"} => Recorded1(rec_index)
  /\ lpc = "idle" /\ xpc = "count" => Recorded1(rec_index + 1)
  /\ lpc = "steps" => Len(typed) = rec_index
                      /\ \A i \in 1 .. rec_index : macro.steps[i] = typed[i]

(* The key has what was typed for it, but for the number of steps while a  *)
(* new macro is being stored.                                              *)
Kept ==
  /\ macro.record_steps = Len(meant)
  /\ \A i \in 1 .. Len(meant) : macro.steps[i] = meant[i]

Playing ==
  /\ lpc # "steps" => Kept
  /\ lpc = "play" /\ macro.record_steps = 0 => played = <<Default>>
  /\ lpc = "play" /\ macro.record_steps # 0 =>
       /\ Len(played) <= macro.record_steps
       /\ \A i \in 1 .. Len(played) : played[i] = macro.steps[i]

RecorderInv ==
  /\ RecorderTypes
  /\ ~mixed /\ ~spilled => Apart /\ Index /\ Recording /\ Playing

LEMMA RecorderInit == Init => RecorderInv
<1> SUFFICES ASSUME Init PROVE RecorderInv
  OBVIOUS
<1> USE RecorderAssumption DEF Init
<1>1. Blanks \in [Step -> XKey \cup {Blank}]
  BY DEF Blanks
<1>2. macro.steps = Blanks /\ macro.record_steps = 0
  OBVIOUS
<1>3. macro \in [steps : [Step -> XKey \cup {Blank}], record_steps : 0 .. MAX_KEYSTEPS]
  BY <1>1
<1>4. RecorderTypes
  BY <1>1, <1>3 DEF RecorderTypes
<1>5. Apart /\ Index /\ Recording /\ Playing
  BY <1>2 DEF Apart, Index, Recording, Playing, Kept
<1> QED
  BY <1>4, <1>5 DEF RecorderInv

LEMMA LkeysKeeps ==
  ASSUME RecorderInv, Lkeys_thread
  PROVE  RecorderInv'
<1> USE RecorderAssumption DEF RecorderInv, LMoves, NoX, Mixing
<1>1. CASE StartRecording
  <2>1. RecorderTypes'
    BY <1>1 DEF StartRecording, RecorderTypes
  <2>2. ~mixed' /\ ~spilled' => Apart' /\ Index' /\ Recording' /\ Playing'
    BY <1>1 DEF StartRecording, RecorderTypes, Apart, Index, Recording, Recorded1, Playing, Kept
  <2> QED
    BY <2>1, <2>2
<1>2. CASE GrabKeyboard
  <2>1. RecorderTypes'
    BY <1>2 DEF GrabKeyboard, RecorderTypes
  <2>2. ~mixed' /\ ~spilled' => Apart' /\ Index' /\ Recording' /\ Playing'
    BY <1>2 DEF GrabKeyboard, RecorderTypes, Apart, Index, Recording, Recorded1, Playing, Kept
  <2> QED
    BY <2>1, <2>2
<1>3. CASE ClearRecording
  <2>1. RecorderTypes'
    BY <1>3 DEF ClearRecording, RecorderTypes, Blanks
  <2>2. ASSUME ~mixed', ~spilled' PROVE Apart' /\ Index' /\ Recording' /\ Playing'
    <3>1. /\ typed' = <<>> /\ rec_index' = 0 /\ recording' /\ xpc' = "idle"
          /\ Apart /\ Index /\ Recording /\ Playing
      BY <1>3, <2>2 DEF ClearRecording, Apart, Index, Recording
    <3>2. Recorded1(rec_index)'
      BY <3>1 DEF Recorded1
    <3> QED
      BY <1>3, <3>1, <3>2 DEF ClearRecording, Apart, Index, Recording, Playing, Kept
  <2> QED
    BY <2>1, <2>2
<1>4. CASE CancelRecording
  <2>1. RecorderTypes'
    BY <1>4 DEF CancelRecording, RecorderTypes
  <2>2. ~mixed' /\ ~spilled' => Apart' /\ Index' /\ Recording' /\ Playing'
    BY <1>4 DEF CancelRecording, RecorderTypes, Apart, Index, Recording, Recorded1, Playing, Kept
  <2> QED
    BY <2>1, <2>2
<1>5. CASE CompleteRecording
  <2>1. RecorderTypes'
    BY <1>5 DEF CompleteRecording, RecorderTypes, Blanks
  <2>2. ASSUME ~mixed', ~spilled' PROVE Apart' /\ Index' /\ Recording' /\ Playing'
    <3>1. macro'.steps = IF rec_index = 0 THEN Blanks ELSE current_recording
      BY <1>5 DEF CompleteRecording, RecorderTypes
    <3>2. rec_index \in 0 .. MAX_KEYSTEPS
      BY DEF RecorderTypes
    <3>3. ~mixed /\ ~spilled /\ xpc = "idle"
      BY <1>5, <2>2 DEF CompleteRecording
    <3>4. /\ lpc = "idle" /\ lpc' = "steps" /\ recording
          /\ UNCHANGED <<rec_index, recording, xpc, typed, meant, played>>
      BY <1>5 DEF CompleteRecording
    <3>5. Recorded1(rec_index)
      BY <3>3, <3>4 DEF Recording
    <3>6. Len(typed') = rec_index' /\ \A i \in 1 .. rec_index' : macro'.steps[i] = typed'[i]
      BY <3>1, <3>2, <3>4, <3>5 DEF Recorded1
    <3> QED
      BY <3>3, <3>4, <3>6 DEF Apart, Index, Recording, Playing
  <2> QED
    BY <2>1, <2>2
<1>6. CASE StoreSteps
  <2>1. RecorderTypes'
    BY <1>6 DEF StoreSteps, RecorderTypes
  <2>2. ASSUME ~mixed', ~spilled' PROVE Apart' /\ Index' /\ Recording' /\ Playing'
    <3>1. /\ macro'.record_steps = rec_index /\ macro'.steps = macro.steps /\ meant' = typed
          /\ lpc = "steps" /\ lpc' = "index" /\ UNCHANGED <<rec_index, recording, xpc, typed>>
      BY <1>6 DEF StoreSteps, RecorderTypes
    <3>2. ~mixed /\ ~spilled /\ xpc = "idle"
      BY <1>6, <2>2 DEF StoreSteps
    <3>3. Len(typed) = rec_index /\ \A i \in 1 .. rec_index : macro.steps[i] = typed[i]
      BY <3>1, <3>2 DEF Recording
    <3>4. Kept'
      BY <3>1, <3>3 DEF Kept
    <3> QED
      BY <3>1, <3>2, <3>4 DEF Apart, Index, Recording, Playing
  <2> QED
    BY <2>1, <2>2
<1>7. CASE ResetIndex
  <2>1. RecorderTypes'
    BY <1>7 DEF ResetIndex, RecorderTypes
  <2>2. ~mixed' /\ ~spilled' => Apart' /\ Index' /\ Recording' /\ Playing'
    BY <1>7 DEF ResetIndex, RecorderTypes, Apart, Index, Recording, Recorded1, Playing, Kept
  <2> QED
    BY <2>1, <2>2
<1>8. CASE StopRecording
  <2>1. RecorderTypes'
    BY <1>8 DEF StopRecording, RecorderTypes
  <2>2. ~mixed' /\ ~spilled' => Apart' /\ Index' /\ Recording' /\ Playing'
    BY <1>8 DEF StopRecording, RecorderTypes, Apart, Index, Recording, Recorded1, Playing, Kept
  <2> QED
    BY <2>1, <2>2
<1>9. CASE UngrabKeyboard
  <2>1. RecorderTypes'
    BY <1>9 DEF UngrabKeyboard, RecorderTypes
  <2>2. ~mixed' /\ ~spilled' => Apart' /\ Index' /\ Recording' /\ Playing'
    BY <1>9 DEF UngrabKeyboard, RecorderTypes, Apart, Index, Recording, Recorded1, Playing, Kept
  <2> QED
    BY <2>1, <2>2
<1>10. CASE Playback
  <2>1. /\ lpc = "idle" /\ lpc' = "play" /\ ~recording
        /\ played' = IF macro.record_steps = 0 THEN <<Default>> ELSE <<>>
        /\ UNCHANGED <<recording, rec_index, current_recording, macro, xpc, typed, meant, mixed, spilled>>
    BY <1>10 DEF Playback, NotRecording, recorder_data
  <2>2. RecorderTypes'
    <3>1. <<>> \in Seq(XKey \cup {Blank, Default}) /\ <<Default>> \in Seq(XKey \cup {Blank, Default})
      OBVIOUS
    <3>2. played' \in Seq(XKey \cup {Blank, Default})
      BY <2>1, <3>1
    <3> QED
      BY <2>1, <3>2 DEF RecorderTypes
  <2>3. ASSUME ~mixed', ~spilled' PROVE Apart' /\ Index' /\ Recording' /\ Playing'
    <3>1. xpc = "idle" /\ rec_index = 0 /\ Kept
      BY <2>1, <2>3 DEF Apart, Index, Playing
    <3>2. Playing'
      BY <2>1, <3>1 DEF Playing, Kept
    <3> QED
      BY <2>1, <3>1, <3>2 DEF Apart, Index, Recording
  <2> QED
    BY <2>1, <2>2, <2>3
<1>11. CASE SendStep
  <2>1. /\ lpc = "play" /\ lpc' = "play" /\ Len(played) < macro.record_steps
        /\ played' = Append(played, macro.steps[Len(played) + 1])
        /\ UNCHANGED <<recording, rec_index, current_recording, macro, xpc, typed, meant, mixed, spilled>>
    BY <1>11 DEF SendStep, NotRecording, recorder_data
  <2>2. /\ Len(played) \in Nat /\ macro.record_steps \in 0 .. MAX_KEYSTEPS
        /\ macro.steps \in [Step -> XKey \cup {Blank}]
    BY DEF RecorderTypes
  <2>3. Len(played) + 1 \in Step
    BY <2>1, <2>2 DEF Step
  <2>4. macro.steps[Len(played) + 1] \in XKey \cup {Blank, Default}
    BY <2>2, <2>3
  <2>5. RecorderTypes'
    BY <2>1, <2>4 DEF RecorderTypes
  <2>6. /\ Len(played') = Len(played) + 1
        /\ played'[Len(played) + 1] = macro.steps[Len(played) + 1]
        /\ \A i \in 1 .. Len(played) : played'[i] = played[i]
    BY <2>1 DEF RecorderTypes
  <2>7. ASSUME Playing PROVE Playing'
    <3>1. Len(played') <= macro.record_steps
      BY <2>1, <2>2, <2>6
    <3>2. ASSUME NEW i \in 1 .. Len(played'), macro.record_steps # 0 PROVE played'[i] = macro.steps[i]
      BY <2>1, <2>2, <2>6, <2>7, <3>2 DEF Playing
    <3> QED
      BY <2>1, <2>2, <2>7, <3>1, <3>2 DEF Playing, Kept
  <2>8. ~mixed' /\ ~spilled' => Apart' /\ Index' /\ Recording'
    BY <2>1 DEF Apart, Index, Recording, Recorded1
  <2> QED
    BY <2>1, <2>5, <2>7, <2>8
<1>12. CASE PlaybackComplete
  <2>1. /\ lpc = "play" /\ lpc' = "idle"
        /\ UNCHANGED <<recording, rec_index, current_recording, macro, xpc, typed, meant, mixed, spilled,
                       played>>
    BY <1>12 DEF PlaybackComplete, NotRecording, recorder_data
  <2>2. RecorderTypes'
    BY <2>1 DEF RecorderTypes
  <2>3. ~mixed' /\ ~spilled' => Apart' /\ Index' /\ Recording' /\ Playing'
    BY <2>1 DEF Apart, Index, Recording, Recorded1, Playing, Kept
  <2> QED
    BY <2>2, <2>3
<1> QED
  BY <1>1, <1>2, <1>3, <1>4, <1>5, <1>6, <1>7, <1>8, <1>9, <1>10, <1>11, <1>12 DEF Lkeys_thread

LEMMA XeventKeeps ==
  ASSUME RecorderInv, xevent_thread
  PROVE  RecorderInv'
<1> USE RecorderAssumption DEF RecorderInv, XMoves, NoL, MixingX
<1>1. CASE CountStep
  <2>1. RecorderTypes'
    BY <1>1 DEF CountStep, RecorderTypes
  <2>2. ~mixed' /\ ~spilled' => Apart' /\ Index' /\ Recording' /\ Playing'
    BY <1>1 DEF CountStep, RecorderTypes, Apart, Index, Recording, Recorded1, Playing, Kept
  <2> QED
    BY <2>1, <2>2
<1>2. CASE Regrab
  <2>1. RecorderTypes'
    BY <1>2 DEF Regrab, RecorderTypes
  <2>2. ~mixed' /\ ~spilled' => Apart' /\ Index' /\ Recording' /\ Playing'
    BY <1>2 DEF Regrab, RecorderTypes, Apart, Index, Recording, Recorded1, Playing, Kept
  <2> QED
    BY <2>1, <2>2
<1>3. CASE NoRoom
  <2>1. RecorderTypes'
    BY <1>3 DEF NoRoom, RecorderTypes
  <2>2. mixed' \/ spilled'
    <3>1. xpc = "count" /\ ~(rec_index < MAX_KEYSTEPS)
      BY <1>3 DEF NoRoom, RecorderTypes
    <3> QED
      BY <1>3, <3>1 DEF NoRoom, Apart
  <2> QED
    BY <2>1, <2>2
<1>4. CASE ResetFull
  <2>1. RecorderTypes'
    BY <1>4 DEF ResetFull, RecorderTypes
  <2>2. ~mixed' /\ ~spilled' => Apart' /\ Index' /\ Recording' /\ Playing'
    BY <1>4 DEF ResetFull, RecorderTypes, Apart, Index, Recording, Recorded1, Playing, Kept
  <2> QED
    BY <2>1, <2>2
<1>5. CASE TypeUnrecorded
  <2>1. RecorderTypes'
    BY <1>5 DEF TypeUnrecorded, RecorderTypes
  <2>2. ~mixed' /\ ~spilled' => Apart' /\ Index' /\ Recording' /\ Playing'
    BY <1>5 DEF TypeUnrecorded, RecorderTypes, Apart, Index, Recording, Recorded1, Playing, Kept
  <2> QED
    BY <2>1, <2>2
<1>6. CASE Reparent
  <2>1. RecorderTypes'
    BY <1>6 DEF Reparent, RecorderTypes
  <2>2. ~mixed' /\ ~spilled' => Apart' /\ Index' /\ Recording' /\ Playing'
    BY <1>6 DEF Reparent, RecorderTypes, Apart, Index, Recording, Recorded1, Playing, Kept
  <2> QED
    BY <2>1, <2>2
<1>7. ASSUME NEW k \in XKey, TypeRecorded(k) PROVE RecorderInv'
  <2> USE DEF TypeKey
  <2>1. RecorderTypes'
    BY <1>7 DEF TypeRecorded, RecorderTypes, Step
  <2>2. /\ Len(typed') = Len(typed) + 1 /\ typed'[Len(typed) + 1] = k
        /\ \A i \in 1 .. Len(typed) : typed'[i] = typed[i]
    BY <1>7 DEF TypeRecorded, RecorderTypes
  <2>3. ASSUME ~mixed', ~spilled' PROVE Apart' /\ Index' /\ Recording' /\ Playing'
    <3>1. /\ ~mixed /\ ~spilled /\ lpc = "idle" /\ lpc' = "idle" /\ xpc = "idle" /\ xpc' = "count"
          /\ recording /\ recording' /\ UNCHANGED <<macro, meant, played>>
      BY <1>7, <2>3 DEF TypeRecorded
    <3>2. Recorded1(rec_index) /\ Playing
      BY <3>1 DEF Recording
    <3>3. rec_index' = rec_index /\ rec_index \in Nat /\ rec_index < MAX_KEYSTEPS
      BY <1>7 DEF TypeRecorded, RecorderTypes
    <3>4. \A i \in 1 .. MAX_KEYSTEPS :
            current_recording'[i] = IF i = rec_index + 1 THEN k ELSE current_recording[i]
      BY <1>7 DEF TypeRecorded, RecorderTypes, Step
    <3>5. Len(typed') = rec_index + 1
      BY <2>2, <3>2 DEF Recorded1
    <3>6. ASSUME NEW i \in 1 .. rec_index + 1, i <= MAX_KEYSTEPS
          PROVE  current_recording'[i] = typed'[i]
      BY <2>2, <3>2, <3>3, <3>4, <3>6 DEF Recorded1
    <3>7. Recorded1(rec_index + 1)'
      BY <3>3, <3>5, <3>6 DEF Recorded1
    <3> QED
      BY <3>1, <3>2, <3>3, <3>7 DEF Apart, Index, Recording, Playing, Kept
  <2> QED
    BY <2>1, <2>3
<1>8. ASSUME NEW k \in XKey, TypeBeyond(k) PROVE RecorderInv'
  <2>1. RecorderTypes'
    BY <1>8 DEF TypeBeyond, TypeKey, RecorderTypes
  <2>2. spilled'
    BY <1>8 DEF TypeBeyond
  <2> QED
    BY <2>1, <2>2
<1> QED
  BY <1>1, <1>2, <1>3, <1>4, <1>5, <1>6, <1>7, <1>8 DEF xevent_thread

LEMMA RecorderInvariance == Spec => []RecorderInv
<1>1. RecorderInv /\ [Next]_rvars => RecorderInv'
  <2> SUFFICES ASSUME RecorderInv, [Next]_rvars PROVE RecorderInv'
    OBVIOUS
  <2>1. CASE UNCHANGED rvars
    <3>1. RecorderTypes'
      BY <2>1 DEF rvars, recorder, recorder_data, RecorderInv, RecorderTypes
    <3>2. ~mixed' /\ ~spilled' => Apart' /\ Index' /\ Recording' /\ Playing'
      BY <2>1 DEF rvars, recorder, recorder_data, RecorderInv, Apart, Index, Recording, Recorded1, Playing, Kept
    <3> QED
      BY <3>1, <3>2 DEF RecorderInv
  <2> QED
    BY <2>1, LkeysKeeps, XeventKeeps DEF Next
<1> QED
  BY RecorderInit, <1>1, PTL DEF Spec

(* For any number of steps and keys: a press of the G key sends, from the  *)
(* first step to the last, exactly what was typed for it last, as long as  *)
(* the two threads were not at work on a recording at once and no          *)
(* recording was typed too long.                                           *)
THEOREM WhatIsTypedIsPlayed == Spec => PlaysWhatWasTyped
<1>1. RecorderInv /\ [Next]_rvars =>
        [PlaybackComplete /\ ~mixed /\ ~spilled =>
           played = IF meant = <<>> THEN <<Default>> ELSE meant]_rvars
  <2> SUFFICES ASSUME RecorderInv, PlaybackComplete, ~mixed, ~spilled
               PROVE  played = IF meant = <<>> THEN <<Default>> ELSE meant
    OBVIOUS
  <2>1. lpc = "play" /\ Len(played) >= macro.record_steps
    BY DEF PlaybackComplete, LMoves
  <2>2. Kept /\ Playing /\ meant \in Seq(XKey) /\ played \in Seq(XKey \cup {Blank, Default})
    BY <2>1 DEF RecorderInv, RecorderTypes, Playing
  <2>3. CASE macro.record_steps = 0
    <3>1. Len(meant) = 0 /\ played = <<Default>>
      BY <2>1, <2>2, <2>3 DEF Kept, Playing
    <3>2. meant = <<>>
      BY <2>2, <3>1
    <3> QED
      BY <3>1, <3>2
  <2>4. CASE macro.record_steps # 0
    <3>1. Len(meant) # 0 /\ Len(played) = Len(meant)
          /\ \A i \in 1 .. Len(meant) : played[i] = meant[i]
      BY <2>1, <2>2, <2>4 DEF Kept, Playing
    <3>2. /\ meant = [i \in 1 .. Len(meant) |-> meant[i]]
          /\ played = [i \in 1 .. Len(played) |-> played[i]]
      BY <2>2
    <3>3. played = meant /\ meant # <<>>
      BY <3>1, <3>2
    <3> QED
      BY <3>3
  <2> QED
    BY <2>3, <2>4
<1> QED
  BY RecorderInvariance, <1>1, PTL DEF Spec, PlaysWhatWasTyped
===============================================================================
