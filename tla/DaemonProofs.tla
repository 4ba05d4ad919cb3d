----------------------------- MODULE DaemonProofs -----------------------------
(***************************************************************************)
(* What holds of the configuration for every set of keys and values: as    *)
(* long as no key is removed, every setting reads as it was last set       *)
(* (ConfigStore).  The chain of the items is only then a list whose last   *)
(* item is the one the first item's head points at.  And what holds of     *)
(* every directory of plugins: none is loaded twice (PluginLoader).        *)
(***************************************************************************)
EXTENDS MCDaemon, FiniteSetTheorems, TLAPS

Once(s) == \A i, j \in 1 .. Len(s) : s[i] = s[j] => i = j
Holds(s, k) == \E i \in 1 .. Len(s) : s[i] = k

(* The file holds a value under its keys only, and each key once. *)
FileSound ==
  /\ file.items \in Seq(Key) /\ Once(file.items)
  /\ \A k \in Key : ~Holds(file.items, k) => file.value[k] = NULL

(* While a daemon runs: the chain has each key once, the head is the last  *)
(* item, and what was set is what the chain holds.                         *)
ChainSound ==
  /\ items \in Seq(Key) /\ Once(items) /\ head = Config!LastOf(items)
  /\ \A k \in Key : set[k] = IF Holds(items, k) THEN value[k] ELSE NULL

ChainInv ==
  ~removed =>
    /\ FileSound
    /\ value \in [Key -> Value \cup {NULL}] /\ set \in [Key -> Value \cup {NULL}]
    /\ file.value \in [Key -> Value \cup {NULL}]
    /\ cfgpc = "down" => set = file.value
    /\ cfgpc # "down" => ChainSound

LEMMA InListIs ==
  ASSUME items \in Seq(Key), NEW k
  PROVE  Config!InList(k) <=> Holds(items, k)
BY DEF Config!InList, Holds

LEMMA ChainInit == Config!Init => ChainInv
<1> SUFFICES ASSUME Config!Init PROVE ChainInv
  OBVIOUS
<1>1. file = [items |-> <<>>, value |-> [k \in Key |-> NULL]] /\ cfgpc = "down"
      /\ value = [k \in Key |-> NULL] /\ set = [k \in Key |-> NULL]
  BY DEF Config!Init, Config!Empty
<1>2. file.items = <<>> /\ Len(file.items) = 0 /\ file.items \in Seq(Key)
  BY <1>1
<1>3. FileSound
  BY <1>1, <1>2 DEF FileSound, Once
<1>4. [k \in Key |-> NULL] \in [Key -> Value \cup {NULL}]
  OBVIOUS
<1> QED
  BY <1>1, <1>3, <1>4 DEF ChainInv

(* A key that is not in the chain comes to its end: the head is the last    *)
(* item, so that nothing is cut off.                                        *)
LEMMA AddAppends ==
  ASSUME ChainSound, NEW k \in Key, ~Holds(items, k), Config!Add(k)
  PROVE  /\ items' \in Seq(Key) /\ Once(items') /\ head' = Config!LastOf(items')
         /\ \A j \in Key : Holds(items', j) <=> Holds(items, j) \/ j = k
<1>1. items \in Seq(Key) /\ Len(items) \in Nat /\ DOMAIN items = 1 .. Len(items)
  BY DEF ChainSound
<1>2. items' = Append(items, k)
  <2>1. CASE items = <<>>
    BY <2>1 DEF Config!Add
  <2>2. CASE items # <<>>
    <3>1. Len(items) \in 1 .. Len(items)
      BY <1>1, <2>2
    <3>2. head = items[Len(items)]
      BY <2>2 DEF ChainSound, Config!LastOf
    <3>3. Config!Place(head) = Len(items)
      BY <1>1, <3>1, <3>2 DEF Config!Place, ChainSound, Once
    <3>4. SubSeq(items, 1, Len(items)) = items
      BY <1>1
    <3> QED
      BY <2>2, <3>3, <3>4 DEF Config!Add
  <2> QED
    BY <2>1, <2>2
<1>3. /\ items' \in Seq(Key) /\ Len(items') = Len(items) + 1
      /\ \A i \in 1 .. Len(items) : items'[i] = items[i]
      /\ items'[Len(items) + 1] = k
  BY <1>1, <1>2
<1>4. Once(items')
  BY <1>1, <1>3 DEF ChainSound, Once, Holds
<1>5. head' = Config!LastOf(items')
  <2>1. items' # <<>>
    BY <1>1, <1>3
  <2> QED
    BY <1>1, <1>3, <2>1 DEF Config!Add, Config!LastOf
<1>6. ASSUME NEW j \in Key PROVE Holds(items', j) <=> Holds(items, j) \/ j = k
  <2>1. Holds(items', j) => Holds(items, j) \/ j = k
    BY <1>1, <1>3 DEF Holds
  <2>2. Holds(items, j) => Holds(items', j)
    BY <1>1, <1>3 DEF Holds
  <2>3. j = k => Holds(items', j)
    BY <1>1, <1>3 DEF Holds
  <2> QED
    BY <2>1, <2>2, <2>3
<1> QED
  BY <1>3, <1>4, <1>5, <1>6

LEMMA WriteStep ==
  ASSUME ChainInv, NEW k \in Key, NEW v \in Value, Config!Write(k, v)
  PROVE  ChainInv'
<1> SUFFICES ASSUME ~removed PROVE ChainInv'
  BY DEF Config!Write, ChainInv
<1>1. /\ cfgpc = "up" /\ UNCHANGED <<file, cfgpc, removed>>
      /\ value' = [value EXCEPT ![k] = v] /\ set' = [set EXCEPT ![k] = v]
      /\ IF Config!InList(k) THEN UNCHANGED <<items, head>> ELSE Config!Add(k)
  BY DEF Config!Write
<1>2. /\ FileSound /\ ChainSound /\ items \in Seq(Key)
      /\ value \in [Key -> Value \cup {NULL}] /\ set \in [Key -> Value \cup {NULL}]
      /\ file.value \in [Key -> Value \cup {NULL}]
  BY <1>1 DEF ChainInv, ChainSound
<1>3. /\ items' \in Seq(Key) /\ Once(items') /\ head' = Config!LastOf(items')
      /\ \A j \in Key : Holds(items', j) <=> Holds(items, j) \/ j = k
  <2>1. CASE Config!InList(k)
    BY <1>1, <1>2, <2>1, InListIs DEF ChainSound, Config!LastOf
  <2>2. CASE ~Config!InList(k)
    BY <1>1, <1>2, <2>2, InListIs, AddAppends
  <2> QED
    BY <2>1, <2>2
<1>4. ASSUME NEW j \in Key
      PROVE  set'[j] = IF Holds(items', j) THEN value'[j] ELSE NULL
  <2>1. CASE j = k
    BY <1>1, <1>2, <1>3, <2>1
  <2>2. CASE j # k
    <3>1. set'[j] = set[j] /\ value'[j] = value[j]
      BY <1>1, <1>2, <2>2
    <3>2. Holds(items', j) <=> Holds(items, j)
      BY <1>3, <2>2
    <3>3. set[j] = IF Holds(items, j) THEN value[j] ELSE NULL
      BY <1>2 DEF ChainSound
    <3> QED
      BY <3>1, <3>2, <3>3
  <2> QED
    BY <2>1, <2>2
<1>5. ChainSound'
  BY <1>3, <1>4 DEF ChainSound, Config!LastOf
<1>6. FileSound'
  BY <1>1, <1>2 DEF FileSound
<1>7. value' \in [Key -> Value \cup {NULL}] /\ set' \in [Key -> Value \cup {NULL}]
      /\ file'.value \in [Key -> Value \cup {NULL}]
  BY <1>1, <1>2
<1> QED
  BY <1>1, <1>5, <1>6, <1>7 DEF ChainInv

(* What was set goes with a daemon that is killed, and is kept by one that *)
(* writes its file to the end.                                             *)
LEMMA DownStep ==
  ASSUME ChainInv, Config!Kill \/ Config!WriteOut
  PROVE  ChainInv'
<1> SUFFICES ASSUME ~removed PROVE ChainInv'
  BY DEF ChainInv, Config!Kill, Config!WriteOut
<1>1. /\ cfgpc # "down" /\ cfgpc' = "down" /\ value' = [k \in Key |-> NULL]
      /\ removed' = removed
  BY DEF Config!Kill, Config!WriteOut, Config!Down
<1>2. FileSound /\ ChainSound /\ items \in Seq(Key)
      /\ set \in [Key -> Value \cup {NULL}] /\ file.value \in [Key -> Value \cup {NULL}]
  BY <1>1 DEF ChainInv, ChainSound
<1>3. value' \in [Key -> Value \cup {NULL}]
  BY <1>1
<1>4. CASE Config!Kill
  <2>1. set' = file.value /\ file' = file
    BY <1>4 DEF Config!Kill
  <2>2. FileSound'
    BY <1>2, <2>1 DEF FileSound
  <2> QED
    BY <1>1, <1>2, <1>3, <2>1, <2>2 DEF ChainInv
<1>5. CASE Config!WriteOut
  <2> DEFINE out == [k \in Key |-> IF Config!InList(k) THEN value[k] ELSE NULL]
  <2>1. file' = [items |-> items, value |-> out] /\ set' = set
    BY <1>5 DEF Config!WriteOut
  <2>2. file'.items = items /\ file'.value = out
    BY <2>1
  <2>3. \A k \in Key : out[k] = IF Holds(items, k) THEN value[k] ELSE NULL
    BY <1>2, InListIs
  <2>4. out \in [Key -> {out[k] : k \in Key}] /\ DOMAIN out = Key
    OBVIOUS
  <2> HIDE DEF out
  <2>5. out = set
    BY <1>2, <2>3, <2>4 DEF ChainSound
  <2>6. FileSound'
    BY <1>2, <2>2, <2>3 DEF FileSound, ChainSound
  <2> QED
    BY <1>1, <1>2, <1>3, <2>1, <2>2, <2>5, <2>6 DEF ChainInv
<1> QED
  BY <1>4, <1>5

LEMMA TruncateStep ==
  ASSUME ChainInv, Config!Truncate
  PROVE  ChainInv'
<1>1. /\ cfgpc = "up" /\ cfgpc' = "truncated"
      /\ file' = [items |-> <<>>, value |-> [k \in Key |-> NULL]]
      /\ UNCHANGED <<items, head, value, set, removed>>
  BY DEF Config!Truncate, Config!Empty
<1>2. file'.items = <<>> /\ file'.value = [k \in Key |-> NULL]
  BY <1>1
<1>3. FileSound'
  BY <1>2 DEF FileSound, Once
<1>4. file'.value \in [Key -> Value \cup {NULL}]
  BY <1>2
<1> QED
  BY <1>1, <1>3, <1>4 DEF ChainInv, ChainSound, Config!LastOf

LEMMA OpenStep ==
  ASSUME ChainInv, Config!Open
  PROVE  ChainInv'
<1> SUFFICES ASSUME ~removed PROVE ChainInv'
  BY DEF ChainInv, Config!Open
<1>1. /\ cfgpc = "down" /\ cfgpc' = "up" /\ items' = file.items
      /\ head' = Config!LastOf(file.items) /\ value' = file.value
      /\ UNCHANGED <<file, set, removed>>
  BY DEF Config!Open
<1>2. FileSound /\ set = file.value
      /\ set \in [Key -> Value \cup {NULL}] /\ file.value \in [Key -> Value \cup {NULL}]
  BY <1>1 DEF ChainInv
<1>3. ChainSound'
  BY <1>1, <1>2 DEF ChainSound, FileSound, Config!LastOf
<1>4. FileSound'
  BY <1>1, <1>2 DEF FileSound
<1> QED
  BY <1>1, <1>2, <1>3, <1>4 DEF ChainInv

(* For any keys and values, across restarts: as long as no key is removed,  *)
(* every setting reads as this daemon last set it, or the last one that     *)
(* ended in order.                                                          *)
THEOREM SettingsAreKept == Config!Spec => []SetIsRead
<1>1. ChainInv /\ [Config!Next]_Config!cfvars => ChainInv'
  <2> SUFFICES ASSUME ChainInv, [Config!Next]_Config!cfvars PROVE ChainInv'
    OBVIOUS
  <2>1. ASSUME NEW k \in Key, Config!RemoveKey(k) PROVE ChainInv'
    BY <2>1 DEF Config!RemoveKey, ChainInv
  <2>2. ASSUME NEW k \in Key, NEW v \in Value, Config!ReadDefault(k, v) PROVE ChainInv'
    BY <2>2, WriteStep DEF Config!ReadDefault
  <2>3. CASE UNCHANGED Config!cfvars
    BY <2>3 DEF Config!cfvars, ChainInv, ChainSound, FileSound, Config!LastOf
  <2>4. CASE Config!Next
    BY <2>1, <2>2, <2>4, WriteStep, DownStep, TruncateStep, OpenStep DEF Config!Next
  <2> QED
    BY <2>3, <2>4
<1>2. ChainInv => SetIsRead
  <2> SUFFICES ASSUME ChainInv, ~removed, cfgpc = "up", NEW k \in Key, set[k] # NULL
               PROVE  Config!InList(k) /\ value[k] = set[k]
    BY DEF SetIsRead, Config!SetIsRead, Config!OthersKept
  <2>1. ChainSound /\ items \in Seq(Key)
    BY DEF ChainInv, ChainSound
  <2> QED
    BY <2>1, InListIs DEF ChainSound
<1> QED
  BY ChainInit, <1>1, <1>2, PTL DEF Config!Spec

-----------------------------------------------------------------------------
(* PluginLoader *)

Different(s) == \A i, j \in DOMAIN s : s[i] = s[j] => i = j

(* Entries that a daemon would load by: no two of them are the same, as far *)
(* as their number says they were written.                                  *)
NamedOnce(o, t) ==
  \/ t = NULL \/ o[0] = OLD
  \/ \A i, j \in 0 .. t - 1 : o[i] = o[j] => i = j

PluginInv ==
  /\ dir \subseteq Plugin
  /\ saved = <<saved[1], saved[2]>>
  /\ total \in Nat \cup {NULL} /\ saved[2] \in Nat \cup {NULL}
  /\ DOMAIN order = 0 .. Plugins!MaxPlugins - 1
  /\ DOMAIN saved[1] = 0 .. Plugins!MaxPlugins - 1
  /\ NamedOnce(order, total) /\ NamedOnce(saved[1], saved[2])
  /\ Different(loaded)

LEMMA SameCount == \A S : Plugins!Cardinality(S) = Cardinality(S)
BY DEF Plugins!Cardinality, Cardinality

(* An interval that begins with 1, or with 0, and its size. *)
LEMMA IntervalSize ==
  ASSUME NEW k \in Nat
  PROVE  /\ IsFiniteSet(1 .. k) /\ Cardinality(1 .. k) = k
         /\ IsFiniteSet(0 .. k - 1) /\ Cardinality(0 .. k - 1) = k
<1>1. 1 \in Int /\ k \in Int /\ 0 \in Int /\ k - 1 \in Int
  OBVIOUS
<1>2. /\ IsFiniteSet(1 .. k)
      /\ Cardinality(1 .. k) = IF 1 > k THEN 0 ELSE k - 1 + 1
  BY <1>1, FS_Interval
<1>3. /\ IsFiniteSet(0 .. k - 1)
      /\ Cardinality(0 .. k - 1) = IF 0 > k - 1 THEN 0 ELSE k - 1 - 0 + 1
  BY ONLY <1>1, FS_Interval
<1> QED
  BY <1>2, <1>3

(* In a finite set of places, each number below its size is that of the     *)
(* places before exactly one of them.                                       *)
LEMMA NthExists ==
  ASSUME NEW n \in Nat, NEW there \in SUBSET (1 .. n)
  PROVE  /\ Cardinality(there) \in 0 .. n
         /\ \A j \in 1 .. Cardinality(there) :
              \E i \in there : Cardinality({h \in there : h < i}) = j - 1
<1> DEFINE below(i) == {h \in there : h < i}
           m == Cardinality(there)
           rank == [i \in there |-> Cardinality(below(i))]
<1>1. IsFiniteSet(there) /\ m \in 0 .. n
  <2>1. IsFiniteSet(1 .. n) /\ Cardinality(1 .. n) = n
    BY IntervalSize
  <2>2. IsFiniteSet(there) /\ Cardinality(there) <= n
    BY <2>1, FS_Subset
  <2>3. Cardinality(there) \in Nat
    BY <2>2, FS_CardinalityType
  <2> QED
    BY <2>2, <2>3
<1>2. ASSUME NEW i \in there PROVE IsFiniteSet(below(i)) /\ Cardinality(below(i)) \in 0 .. m - 1
  <2>1. below(i) \in SUBSET there /\ below(i) # there
    <3>1. i \notin below(i)
      OBVIOUS
    <3> QED
      BY <3>1
  <2>2. /\ IsFiniteSet(below(i)) /\ Cardinality(below(i)) \in Nat
        /\ Cardinality(below(i)) <= m /\ Cardinality(below(i)) # m
    BY <1>1, <2>1, FS_Subset, FS_CardinalityType
  <2> QED
    BY <1>1, <2>2
<1>3. ASSUME NEW i \in there, NEW k \in there, i < k
      PROVE  Cardinality(below(i)) # Cardinality(below(k))
  <2>1. below(i) \in SUBSET below(k) /\ i \in below(k) /\ i \notin below(i)
    <3>1. there \in SUBSET Int /\ i \in Int /\ k \in Int
      OBVIOUS
    <3>2. \A h \in there : h < i => h < k
      BY <1>3, <3>1
    <3>3. below(i) \in SUBSET below(k)
      BY <3>2
    <3>4. i \in below(k)
      BY <1>3
    <3>5. i \notin below(i)
      BY <3>1
    <3> QED
      BY <3>3, <3>4, <3>5
  <2>2. below(i) # below(k)
    BY <2>1
  <2> QED
    BY <1>2, <2>1, <2>2, FS_Subset
<1>4. rank \in Injection(there, 0 .. m - 1)
  <2>1. rank \in [there -> 0 .. m - 1]
    BY <1>2
  <2>2. ASSUME NEW i \in there, NEW k \in there, rank[i] = rank[k] PROVE i = k
    <3>1. i < k \/ k < i \/ i = k
      OBVIOUS
    <3> QED
      BY <1>3, <2>2, <3>1
  <2> HIDE DEF rank
  <2> QED
    BY <2>1, <2>2 DEF Injection, IsInjective
<1>5. IsFiniteSet(0 .. m - 1) /\ Cardinality(0 .. m - 1) = m
  <2>1. m \in Nat
    BY <1>1
  <2> HIDE DEF m
  <2> QED
    BY <2>1, IntervalSize
<1>6. rank \in Surjection(there, 0 .. m - 1)
  BY <1>4, <1>5, FS_Injection
<1>7. ASSUME NEW j \in 1 .. m PROVE \E i \in there : Cardinality(below(i)) = j - 1
  <2>1. j - 1 \in 0 .. m - 1
    BY <1>1
  <2>2. PICK i \in there : rank[i] = j - 1
    BY <1>6, <2>1 DEF Surjection
  <2> QED
    BY <2>2
<1> QED
  BY <1>1, <1>7

(* What is loaded of different names is different, and not more than they. *)
LEMMA LoadsDifferent ==
  ASSUME NEW n \in Nat, NEW s, DOMAIN s = 1 .. n, Different(s)
  PROVE  \E m \in 0 .. n :
           /\ DOMAIN Plugins!Loads(s) = 1 .. m /\ Len(Plugins!Loads(s)) = m
           /\ Different(Plugins!Loads(s))
<1> DEFINE there == {i \in DOMAIN s : s[i] \in dir \ refused}
           m == Plugins!Cardinality(there)
           Nth(j) == CHOOSE i \in there :
                       Plugins!Cardinality({h \in there : h < i}) = j - 1
           l == [j \in 1 .. m |-> s[Nth(j)]]
<1>1. Plugins!Loads(s) = l
  BY DEF Plugins!Loads
<1>2. there \in SUBSET (1 .. n)
  OBVIOUS
<1>3. m \in 0 .. n
  <2> HIDE DEF there
  <2> QED
    BY <1>2, NthExists, SameCount
<1>4. ASSUME NEW j \in 1 .. m
      PROVE  Nth(j) \in there /\ Plugins!Cardinality({h \in there : h < Nth(j)}) = j - 1
  <2>1. \E i \in there : Plugins!Cardinality({h \in there : h < i}) = j - 1
    <3> HIDE DEF there
    <3>1. j \in 1 .. Cardinality(there)
      BY SameCount
    <3>2. PICK i \in there : Cardinality({h \in there : h < i}) = j - 1
      BY <1>2, <3>1, NthExists
    <3> QED
      BY <3>2, SameCount
  <2> HIDE DEF there
  <2> QED
    BY <2>1
<1>5. ASSUME NEW j \in 1 .. m, NEW k \in 1 .. m, s[Nth(j)] = s[Nth(k)] PROVE j = k
  <2>1. Nth(j) \in 1 .. n /\ Nth(k) \in 1 .. n
    <3> HIDE DEF Nth
    <3> QED
      BY <1>4
  <2> HIDE DEF there, Nth
  <2>2. Nth(j) = Nth(k)
    BY <1>5, <2>1 DEF Different
  <2>3. j - 1 = k - 1
    BY <1>4, <2>2
  <2> QED
    BY <2>3, <1>3
<1> HIDE DEF m, Nth
<1>6. DOMAIN l = 1 .. m /\ Len(l) = m
  BY <1>3
<1>7. Different(l)
  BY <1>5 DEF Different
<1> QED
  BY <1>1, <1>3, <1>6, <1>7

(* A directory lists each file once. *)
LEMMA ListingDifferent ==
  ASSUME dir \subseteq Plugin, NEW listing \in Plugins!Listings
  PROVE  Plugins!count \in Nat /\ DOMAIN listing = 1 .. Plugins!count /\ Different(listing)
<1>1. IsFiniteSet(dir) /\ Plugins!count = Cardinality(dir) /\ Cardinality(dir) \in Nat
  BY PluginAssumption, FS_Subset, FS_CardinalityType, SameCount DEF Plugins!count
<1>2. listing \in Surjection(1 .. Plugins!count, dir)
  BY DEF Plugins!Listings, Surjection
<1>3. IsFiniteSet(1 .. Plugins!count) /\ Cardinality(1 .. Plugins!count) = Cardinality(dir)
  BY <1>1, FS_Interval
<1>4. listing \in Injection(1 .. Plugins!count, dir)
  BY <1>2, <1>3, FS_SurjSameCardinalityImpliesInj
<1> QED
  BY <1>1, <1>4 DEF Injection, IsInjective, Different

LEMMA CountBounded ==
  ASSUME dir \subseteq Plugin
  PROVE  /\ Plugins!count \in Nat /\ Plugins!MaxPlugins \in Nat
         /\ Plugins!count <= Plugins!MaxPlugins
BY PluginAssumption, FS_Subset, FS_CardinalityType, SameCount
DEF Plugins!count, Plugins!MaxPlugins

LEMMA PluginInit == Plugins!Init => PluginInv
<1> SUFFICES ASSUME Plugins!Init PROVE PluginInv
  OBVIOUS
<1>1. Plugins!MaxPlugins \in Nat
  BY PluginAssumption, FS_CardinalityType, SameCount DEF Plugins!MaxPlugins
<1>2. /\ DOMAIN order = 0 .. Plugins!MaxPlugins - 1 /\ total \in Nat \cup {NULL}
      /\ saved = <<order, total>> /\ dir = Plugin /\ loaded = <<>>
  BY <1>1 DEF Plugins!Init
<1>3. NamedOnce(order, total)
  <2>1. CASE total = NULL
    BY <2>1 DEF NamedOnce
  <2>2. CASE order = [i \in 0 .. Plugins!MaxPlugins - 1 |-> OLD]
             /\ total \in 0 .. Plugins!MaxPlugins
    <3>1. CASE total = 0
      BY <3>1 DEF NamedOnce
    <3>2. CASE total # 0
      <4>1. order[0] = OLD
        BY <1>1, <2>2, <3>2
      <4> QED
        BY <4>1 DEF NamedOnce
    <3> QED
      BY <3>1, <3>2
  <2> QED
    BY <2>1, <2>2 DEF Plugins!Init
<1>4. Different(loaded)
  BY <1>2 DEF Different
<1> QED
  BY <1>2, <1>3, <1>4 DEF PluginInv

(* Whatever is loaded, by name or from the listing, is loaded once; what is *)
(* written down of it are different entries.                                *)
LEMMA OpenAllStep ==
  ASSUME PluginInv, Plugins!OpenAllPlugins
  PROVE  PluginInv'
<1>1. dir \subseteq Plugin /\ UNCHANGED <<dir, refused, saved>>
  BY DEF PluginInv, Plugins!OpenAllPlugins
<1>2. CASE Plugins!LoadNamed
  <2> DEFINE named == [i \in 1 .. Plugins!count |-> order[i - 1]]
  <2>1. /\ total # NULL /\ total = Plugins!count /\ order[0] # OLD
        /\ loaded' = Plugins!Loads(named) /\ UNCHANGED <<order, total>>
    BY <1>2 DEF Plugins!LoadNamed, Plugins!MustRebuild
  <2>2. Plugins!count \in Nat /\ DOMAIN named = 1 .. Plugins!count
    BY <1>1, CountBounded
  <2>3. ASSUME NEW i \in 1 .. Plugins!count, NEW j \in 1 .. Plugins!count,
               named[i] = named[j]
        PROVE  i = j
    <3>1. i - 1 \in 0 .. total - 1 /\ j - 1 \in 0 .. total - 1
      BY <2>1, <2>2
    <3>2. order[i - 1] = order[j - 1]
      BY <2>3
    <3>3. i - 1 = j - 1
      BY <2>1, <3>1, <3>2 DEF PluginInv, NamedOnce
    <3> QED
      BY <2>2, <3>3
  <2> HIDE DEF named
  <2>4. Different(named)
    BY <2>2, <2>3 DEF Different
  <2>5. Different(loaded')
    BY <2>1, <2>2, <2>4, LoadsDifferent
  <2> QED
    BY <1>1, <2>1, <2>5 DEF PluginInv, NamedOnce, Different, Plugins!MaxPlugins
<1>3. ASSUME NEW listing \in Plugins!Listings, Plugins!Rebuild(listing) PROVE PluginInv'
  <2>1. loaded' = Plugins!Loads(listing)
    BY <1>3 DEF Plugins!Rebuild
  <2>2. PICK m \in 0 .. Plugins!count :
          DOMAIN loaded' = 1 .. m /\ Len(loaded') = m /\ Different(loaded')
    BY <1>1, <2>1, ListingDifferent, LoadsDifferent
  <2>3. CASE UNCHANGED <<order, total>>
    BY <1>1, <2>2, <2>3 DEF PluginInv, NamedOnce, Different, Plugins!MaxPlugins
  <2>4. CASE /\ order' = [i \in DOMAIN order |->
                            IF i < Len(loaded') THEN loaded'[i + 1] ELSE order[i]]
             /\ total' = Len(loaded')
    <3>1. /\ Plugins!count \in Nat /\ Plugins!MaxPlugins \in Nat
          /\ m \in Nat /\ m <= Plugins!MaxPlugins /\ total' = m
      BY <1>1, <2>2, <2>4, CountBounded
    <3>2. DOMAIN order' = DOMAIN order /\ DOMAIN order = 0 .. Plugins!MaxPlugins - 1
      BY <2>4 DEF PluginInv
    <3>3. \A i \in 0 .. m - 1 : order'[i] = loaded'[i + 1] /\ i + 1 \in DOMAIN loaded'
      BY <2>2, <2>4, <3>1, <3>2
    <3>4. ASSUME NEW i \in 0 .. m - 1, NEW j \in 0 .. m - 1, order'[i] = order'[j]
          PROVE  i = j
      <4>1. i + 1 = j + 1
        BY <2>2, <3>3, <3>4 DEF Different
      <4> QED
        BY <3>1, <4>1
    <3>5. NamedOnce(order', total')
      BY <3>1, <3>4 DEF NamedOnce
    <3> QED
      BY <1>1, <2>2, <3>1, <3>2, <3>5
      DEF PluginInv, NamedOnce, Different, Plugins!MaxPlugins
  <2> QED
    BY <1>3, <2>3, <2>4 DEF Plugins!Rebuild
<1> QED
  BY <1>2, <1>3 DEF Plugins!OpenAllPlugins

(* For any files, installed, removed and switched off between the runs of   *)
(* the daemon, and entries of older versions: no plugin is loaded twice.    *)
THEOREM PluginsLoadOnce == Plugins!Spec => []NoneTwice
<1>1. PluginInv /\ [Plugins!Next]_Plugins!plvars => PluginInv'
  <2> SUFFICES ASSUME PluginInv, [Plugins!Next]_Plugins!plvars PROVE PluginInv'
    OBVIOUS
  <2>1. CASE Plugins!End
    <3>1. /\ loaded' = <<>> /\ saved' = <<order, total>>
          /\ UNCHANGED <<dir, order, total>>
      BY <2>1 DEF Plugins!End
    <3>2. saved'[1] = order /\ saved'[2] = total
      BY <3>1
    <3> QED
      BY <3>1, <3>2 DEF PluginInv, NamedOnce, Different, Plugins!MaxPlugins
  <2>2. CASE Plugins!Kill
    BY <2>2 DEF Plugins!Kill, PluginInv, NamedOnce, Different, Plugins!MaxPlugins
  <2>3. CASE Plugins!Install
    BY <2>3 DEF Plugins!Install, PluginInv, NamedOnce, Different, Plugins!MaxPlugins
  <2>4. CASE UNCHANGED Plugins!plvars
    BY <2>4 DEF Plugins!plvars, PluginInv, NamedOnce, Different, Plugins!MaxPlugins
  <2>5. CASE Plugins!Next
    BY <2>1, <2>2, <2>3, <2>5, OpenAllStep DEF Plugins!Next
  <2> QED
    BY <2>4, <2>5
<1>2. PluginInv => NoneTwice
  BY DEF PluginInv, Different, NoneTwice, Plugins!NoneTwice
<1> QED
  BY PluginInit, <1>1, <1>2, PTL DEF Plugins!Spec
=============================================================================
