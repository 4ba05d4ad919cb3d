------------------------------ MODULE ConfigStore -----------------------------
(***************************************************************************)
(* One section of the configuration: its items in memory, chained from     *)
(* section->items, whose first item's `head' points at the one that is     *)
(* taken for the last, and the file they are read from and written to.     *)
(***************************************************************************)
EXTENDS Integers, Sequences, FiniteSets

CONSTANTS Key, Value, NULL

VARIABLES items,      \* the keys, in the order of the chain
          head,       \* items->head, NULL when there is none
          value,      \* of each item
          file,       \* what /etc/g15daemon.conf holds: [items, value]
          cfgpc,      \* "down", "up" or, in uf_conf_write, "truncated"
          set,        \* what was last set under each key, NULL if nothing was
          removed     \* a key was removed once

cfvars == <<items, head, value, file, cfgpc, set, removed>>

Empty == [items |-> <<>>, value |-> [k \in Key |-> NULL]]
InList(k) == \E i \in DOMAIN items : items[i] = k
Place(k) == CHOOSE i \in DOMAIN items : items[i] = k
LastOf(s) == IF s = <<>> THEN NULL ELSE s[Len(s)]

(* With a bug: the head goes on pointing at the first item. *)
AddForgetsHead(k) ==
  /\ items' = IF items = <<>> THEN <<k>>
                              ELSE Append(SubSeq(items, 1, Place(head)), k)
  /\ head' = IF items = <<>> THEN k ELSE head
(* A new item goes behind the one the first item's head points at, and what *)
(* followed that one is reached no more.                                     *)
Add(k) ==
  /\ items' = IF items = <<>> THEN <<k>>
                              ELSE Append(SubSeq(items, 1, Place(head)), k)
  /\ head' = k

(* g15daemon_cfg_write_string, and the other types by way of it. *)
Write(k, v) ==
  /\ cfgpc = "up"
  /\ IF InList(k) THEN UNCHANGED <<items, head>> ELSE Add(k)
  /\ value' = [value EXCEPT ![k] = v]
  /\ set' = [set EXCEPT ![k] = v]
  /\ UNCHANGED <<file, cfgpc, removed>>

(* g15daemon_cfg_read_...: the default is written when there is no such key. *)
ReadDefault(k, v) == ~InList(k) /\ set[k] = NULL /\ Write(k, v)

(* g15daemon_cfg_remove_key.  The head of every item but the first is the    *)
(* item itself, also when the item becomes the first; behind the first, the  *)
(* item before the removed one is then taken for the last.                   *)
RemoveKey(k) ==
  /\ cfgpc = "up" /\ InList(k) /\ Len(items) > 1
  /\ items' = SelectSeq(items, LAMBDA j : j # k)
  /\ head' = IF Place(k) = 1 THEN items[2] ELSE items[Place(k) - 1]
  /\ set' = [set EXCEPT ![k] = NULL]
  /\ removed' = TRUE
  /\ UNCHANGED <<value, file, cfgpc>>

-----------------------------------------------------------------------------
(* What is set is lost with the daemon: the next one has what the file holds. *)
Down ==
  /\ cfgpc' = "down" /\ items' = <<>> /\ head' = NULL
  /\ value' = [k \in Key |-> NULL]

(* The daemon is killed, or aborts: removing the only key frees it twice. *)
Kill ==
  /\ cfgpc # "down" /\ Down
  /\ set' = file.value
  /\ UNCHANGED <<file, removed>>

(* uf_conf_write: open with O_TRUNC, then the items one by one. *)
Truncate ==
  /\ cfgpc = "up" /\ cfgpc' = "truncated" /\ file' = Empty
  /\ UNCHANGED <<items, head, value, set, removed>>
WriteOut ==
  /\ cfgpc = "truncated" /\ Down
  /\ file' = [items |-> items,
              value |-> [k \in Key |-> IF InList(k) THEN value[k] ELSE NULL]]
  /\ UNCHANGED <<set, removed>>

(* uf_conf_open: each line of the file is written as a key. *)
Open ==
  /\ cfgpc = "down" /\ cfgpc' = "up"
  /\ items' = file.items /\ head' = LastOf(file.items) /\ value' = file.value
  /\ UNCHANGED <<file, set, removed>>

Init ==
  /\ items = <<>> /\ head = NULL /\ value = [k \in Key |-> NULL]
  /\ file = Empty /\ cfgpc = "down"
  /\ set = [k \in Key |-> NULL] /\ removed = FALSE

Next ==
  \/ \E k \in Key, v \in Value : Write(k, v) \/ ReadDefault(k, v)
  \/ \E k \in Key : RemoveKey(k)
  \/ Kill \/ Truncate \/ WriteOut \/ Open

Spec == Init /\ [][Next]_cfvars

-----------------------------------------------------------------------------
(* g15daemon.h:275: "remoe a key/value pair from named section": one pair, *)
(* so that every other setting still reads as it was last set.  It does    *)
(* not hold: ConfigRemove.cfg.                                             *)
OthersKept ==
  cfgpc = "up" => \A k \in Key : set[k] # NULL => InList(k) /\ value[k] = set[k]

(* As long as no key is removed, every setting reads as it was last set, by   *)
(* this daemon or by the last one that ended in order                         *)
(* (g15daemon_cfg_write_string, uf_conf_write, uf_conf_open).                 *)
SetIsRead == ~removed => OthersKept
=============================================================================
