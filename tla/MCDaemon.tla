-------------------------------- MODULE MCDaemon -------------------------------
(***************************************************************************)
(* For TLC, the parts of the daemon that work before and beside the        *)
(* screens, one at a time (part) while the others stand still: the         *)
(* configuration, the plugin loader, the life of the process, and the      *)
(* daemon of version 1.2; and the bottom row of g15stats, as small as they *)
(* are and with a liveness property too.                                   *)
(***************************************************************************)
EXTENDS Integers, Sequences, FiniteSets

CONSTANTS Key, Value, Plugin, OLD, Proc, Client, CLOCK, NULL, PAUSE

ASSUME PauseAssumption == PAUSE \in Nat \ {0}
ASSUME PluginAssumption == IsFiniteSet(Plugin)

VARIABLES part,
          items, head, value, file, cfgpc, set, removed,
          dir, refused, order, total, saved, running, loaded,
          pc, pidfile, attached, told, leaving,
          list, current, last_priority, lastlcd, connected, lcdlist_mutex,
          g15lib_mutex, kpc, dpc, unplugged, broken, lcd, unsent,
          screen, submode, info_cycle, info_cycle_timer, probe, touched

Config  == INSTANCE ConfigStore
Plugins == INSTANCE PluginLoader
Life    == INSTANCE DaemonLife
Old     == INSTANCE OldDaemon
Info    == INSTANCE StatsInfo

configvars  == <<items, head, value, file, cfgpc, set, removed>>
pluginsvars == <<dir, refused, order, total, saved, running, loaded>>
lifevars    == <<pc, pidfile, attached, told, leaving>>
oldvars     == <<list, current, last_priority, lastlcd, connected,
                 lcdlist_mutex, g15lib_mutex, kpc, dpc, unplugged, broken, lcd,
                 unsent>>
infovars    == <<screen, submode, info_cycle, info_cycle_timer, probe, touched>>

MCInit ==
  /\ part \in {"config", "plugins", "life", "old", "info"}
  /\ Config!Init /\ Plugins!Init /\ Life!Init /\ Old!Init
  /\ part # "plugins" => total = NULL
  /\ Info!Init
  /\ part # "info" => submode = 0 /\ \A s \in DOMAIN probe : probe[s]

MCNext ==
  \/ /\ part = "config" /\ Config!Next
     /\ UNCHANGED <<part, pluginsvars, lifevars, oldvars, infovars>>
  \/ /\ part = "plugins" /\ Plugins!Next
     /\ UNCHANGED <<part, configvars, lifevars, oldvars, infovars>>
  \/ /\ part = "life" /\ Life!Next
     /\ UNCHANGED <<part, configvars, pluginsvars, oldvars, infovars>>
  \/ /\ part = "old" /\ Old!Next
     /\ UNCHANGED <<part, configvars, pluginsvars, lifevars, infovars>>
  \/ /\ part = "info" /\ Info!Next
     /\ UNCHANGED <<part, configvars, pluginsvars, lifevars, oldvars>>

MCSpec ==
  /\ MCInit /\ [][MCNext]_<<part, configvars, pluginsvars, lifevars,
                             oldvars, infovars>>
  /\ \A p \in Proc : WF_lifevars(part = "life" /\ Life!Step(p))
  /\ SF_oldvars(part = "old" /\ Old!KeyboardStep)
  /\ WF_oldvars(part = "old" /\ Old!DrawRemember)
  /\ SF_oldvars(part = "old" /\ Old!DrawLock)
  /\ SF_oldvars(part = "old" /\ Old!DrawWrite)
  /\ WF_infovars(part = "info" /\ Info!CalcInfoCycle)

(* Settings read as they were set, across restarts: ConfigStore. *)
SetIsRead == Config!SetIsRead

(* Removing a key leaves the other keys of its section: ConfigStore.         *)
OthersKept == Config!OthersKept

(* No plugin is loaded twice: PluginLoader. *)
NoneTwice == Plugins!NoneTwice

(* A daemon that is up can be found by its pid file: DaemonLife. *)
PidFileNamesDaemon == Life!PidFileNamesDaemon

(* After a start a daemon runs, whatever pid file is left: DaemonLife. *)
StartedRuns == Life!StartedRuns

(* The bottom row of g15stats rotates over every item: StatsInfo. *)
InfoRotates == part = "info" => Info!InfoRotates

(* What is displayed reaches the LCD in version 1.2: OldDaemon. *)
ScreenReachesLcd == part = "old" => Old!ScreenReachesLcd
================================================================================
