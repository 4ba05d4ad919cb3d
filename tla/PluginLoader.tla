------------------------------ MODULE PluginLoader ----------------------------
(***************************************************************************)
(* Which plugins g15_open_all_plugins loads: those named in the section    *)
(* PLUGIN_LOAD_ORDER when their number is the number of files, and else    *)
(* every file that can be loaded, whose names are then put in the section. *)
(***************************************************************************)
EXTENDS Integers, Sequences, FiniteSets

CONSTANTS Plugin,     \* the names of files
          OLD,        \* an entry of an older version, with its directory
          NULL

VARIABLES dir,        \* the files in PLUGINDIR
          refused,    \* of which g15_plugin_load returns -1: switched off, no plugin
          order,      \* the entries "0", "1", ... of the section, NULL if not there
          total,      \* its TotalPlugins, NULL if not there
          saved,      \* <<order, total>> in g15daemon.conf
          running,
          loaded      \* the plugins loaded by this daemon, in order

plvars == <<dir, refused, order, total, saved, running, loaded>>

MaxPlugins == Cardinality(Plugin)
count == Cardinality(dir)
Listings ==
  {s \in [1..count -> dir] : \A p \in dir : \E i \in DOMAIN s : s[i] = p}

(* What is loaded of the names s, in their order. *)
Loads(s) ==
  LET there == {i \in DOMAIN s : s[i] \in dir \ refused}
      Nth(j) == CHOOSE i \in there : Cardinality({h \in there : h < i}) = j - 1
  IN [j \in 1..Cardinality(there) |-> s[Nth(j)]]

MustRebuild == total = NULL \/ total # count \/ order[0] = OLD

(* With a bug: the files are counted, loaded or not. *)
RebuildCountsFiles(listing) ==
  /\ MustRebuild
  /\ loaded' = Loads(listing)
  /\ IF count = 0
     THEN UNCHANGED <<order, total>>
     ELSE /\ order' = [i \in DOMAIN order |->
                         IF i < Len(loaded') THEN loaded'[i + 1] ELSE order[i]]
          /\ total' = count
(* Entries past the number loaded keep what they held. *)
Rebuild(listing) ==
  /\ MustRebuild
  /\ loaded' = Loads(listing)
  /\ IF count = 0
     THEN UNCHANGED <<order, total>>
     ELSE /\ order' = [i \in DOMAIN order |->
                         IF i < Len(loaded') THEN loaded'[i + 1] ELSE order[i]]
          /\ total' = Len(loaded')

LoadNamed ==
  /\ ~MustRebuild
  /\ loaded' = Loads([i \in 1..count |-> order[i - 1]])
  /\ UNCHANGED <<order, total>>

(* g15_open_all_plugins; a listing is an order readdir gives the files in. *)
OpenAllPlugins ==
  /\ ~running /\ running' = TRUE
  /\ LoadNamed \/ \E listing \in Listings : Rebuild(listing)
  /\ UNCHANGED <<dir, refused, saved>>

-----------------------------------------------------------------------------
(* The daemon ends and saves its configuration, or is killed. *)
End ==
  /\ running /\ running' = FALSE /\ loaded' = <<>>
  /\ saved' = <<order, total>>
  /\ UNCHANGED <<dir, refused, order, total>>
Kill ==
  /\ running /\ running' = FALSE /\ loaded' = <<>>
  /\ order' = saved[1] /\ total' = saved[2]
  /\ UNCHANGED <<dir, refused, saved>>

(* Between two runs plugins are installed, removed and switched on or off. *)
Install ==
  /\ ~running
  /\ \E p \in Plugin :
       \/ dir' = dir \cup {p} /\ UNCHANGED refused
       \/ dir' = dir \ {p} /\ UNCHANGED refused
       \/ refused' = refused \cup {p} /\ UNCHANGED dir
       \/ refused' = refused \ {p} /\ UNCHANGED dir
  /\ UNCHANGED <<order, total, saved, running, loaded>>

Init ==
  /\ dir = Plugin /\ refused = {}
  /\ \/ order = [i \in 0..(MaxPlugins - 1) |-> NULL] /\ total = NULL
     \/ order = [i \in 0..(MaxPlugins - 1) |-> OLD] /\ total \in 0..MaxPlugins
  /\ saved = <<order, total>>
  /\ running = FALSE /\ loaded = <<>>

Next == OpenAllPlugins \/ End \/ Kill \/ Install
Spec == Init /\ [][Next]_plvars

-----------------------------------------------------------------------------
(* No plugin is loaded a second time, whatever the entries that earlier      *)
(* daemons left in the section (g15_open_all_plugins).                       *)
NoneTwice == \A i, j \in DOMAIN loaded : loaded[i] = loaded[j] => i = j
=============================================================================
