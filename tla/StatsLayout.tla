---------------------------- MODULE StatsLayout -----------------------------
(***************************************************************************)
(* Where g15stats draws: the rows of the LCD each bar takes on the screens *)
(* that show every core, on the summary and on the screens of sensors and  *)
(* batteries.  A bar is the pair of its first and its last row.            *)
(***************************************************************************)
EXTENDS Integers, Sequences, FiniteSetsExt

CONSTANT MaxCpu   \* bound: cores of the machine

SCREEN_SUMMARY == 0
SCREEN_CPU == 1
SCREEN_FREQ == 2
BAR_BOTTOM == 32
INFO_ROW == 37
NUM_PROBES == 4
NUM_BATS == 3

VARIABLES
  ncpu,          \* cores; --variable-cpu counts them again
  view, view_mode, \* the screen, and its variant (L4)
  unicore,       \* -u: the cores together on the CPU screen
  shows,         \* what the summary shows beside CPU, memory and swap
  probes         \* the readings of a sensor

lvars == <<ncpu, view, view_mode, unicore, shows, probes>>

Init ==
  /\ ncpu \in 1 .. MaxCpu /\ view = SCREEN_SUMMARY /\ view_mode = 0
  /\ unicore \in BOOLEAN
  /\ shows \in SUBSET {"freq", "nic", "temp", "fan"} /\ probes \in 1 .. NUM_PROBES

-----------------------------------------------------------------------------
(* draw_cpu_screen_multicore *)

Rows5 == view_mode = 0       \* five indicators instead of four

SpacerOf == IF (view = SCREEN_FREQ /\ ncpu <= 11) \/ (view = SCREEN_CPU /\ ncpu <= 4) THEN 1 ELSE 0

GroupHeight ==
  CASE view = SCREEN_FREQ -> 36
    [] view = SCREEN_CPU  -> 12
    [] OTHER -> IF Rows5 /\ ncpu \in {1, 2, 3, 5, 6, 7} THEN 6 ELSE 8

MoveDown ==
  IF view = SCREEN_SUMMARY /\ ncpu \in (IF Rows5 THEN {1, 2, 5, 7} ELSE {3, 5}) THEN 1 ELSE 0

ShiftOf == IF view = SCREEN_SUMMARY THEN GroupHeight + 1 ELSE 12

Drawn == 1 .. (IF ncpu < GroupHeight THEN ncpu ELSE GroupHeight)

(* With a bug: the gaps between the bars are not taken off. *)
CoreHeightNoGaps ==
  LET n == Cardinality(Drawn) h == GroupHeight \div n
  IN IF h < 1 THEN 1 ELSE h

CoreHeight ==
  LET n == Cardinality(Drawn) h == (GroupHeight - (n - 1) * SpacerOf) \div n
  IN IF h < 1 THEN 1 ELSE h

CoreBar(core, from) ==
  LET y1 == (core - 1) * (CoreHeight + SpacerOf)
  IN <<from + y1 + MoveDown, from + y1 + CoreHeight - 1 + MoveDown>>

(* y2 after the last core *)
LastRow == CoreBar(Cardinality(Drawn), 0)[2] - MoveDown

(* The CPU screen shows user, system and nice time: of all the cores       *)
(* together, or in its second variant on rows of their own computation.    *)
Together == view = SCREEN_CPU /\ (unicore \/ ncpu = 1)
Stacked  == view = SCREEN_CPU /\ ~Together /\ view_mode = 1

divider == 9 \div ncpu
StackedBar(core, from) == <<from + (core - 1) * divider, from + core * divider>>
Kinds == {0, ShiftOf, 2 * ShiftOf}

Groups ==
  CASE view = SCREEN_FREQ -> {0}
    [] view = SCREEN_CPU  -> Kinds
    [] OTHER -> IF "freq" \in shows THEN {0, ShiftOf} ELSE {0}

CoreBars ==
  CASE Together -> {<<1, 10>>, <<12, 21>>, <<23, BAR_BOTTOM>>}
    [] Stacked -> {StackedBar(c, from) : c \in Drawn, from \in Kinds}
    [] OTHER -> {CoreBar(c, from) : c \in Drawn, from \in Groups}

-----------------------------------------------------------------------------
(* draw_summary_screen: below CPU and frequency *)

FirstId == IF "freq" \in shows THEN 2 ELSE 1
Tight == Rows5 /\ ShiftOf > 7
Below == IF Tight THEN IF FirstId = 2 THEN 4 ELSE 5 ELSE LastRow
Step  == IF Tight THEN IF FirstId = 2 THEN 6 ELSE 7 ELSE ShiftOf

summary_rows == IF Rows5 THEN 5 ELSE 4

(* Memory, network, temperature, fan and swap, as far as there are rows:   *)
(* the network is not asked whether there is one left.                     *)
Indicators ==
  LET always == <<"mem">> \o IF "nic" \in shows THEN <<"nic">> ELSE <<>>
      more == (IF "temp" \in shows THEN <<"temp">> ELSE <<>>)
                \o (IF "fan" \in shows THEN <<"fan">> ELSE <<>>) \o <<"swap">>
      room == summary_rows - FirstId - Len(always)
  IN always \o SubSeq(more, 1, IF room < Len(more) THEN room ELSE Len(more))

IndicatorBar(i) ==
  LET top == FirstId * ShiftOf + (i - 1) * Step + MoveDown IN <<top, top + Below>>

SummaryBars == {IndicatorBar(i) : i \in 1 .. Len(Indicators)}

(* draw_g15_stats_info_screen_logic and draw_bat_screen *)
SensorBars ==
  LET shift == CASE probes = 1 -> 33 [] probes = 3 -> 10 [] OTHER -> BAR_BOTTOM \div probes
  IN {<<j * shift + 1 + j, (j + 1) * shift + j>> : j \in 0 .. probes - 1}

BatteryBars == {<<i * 10 + 1 + i, (i + 1) * 10 + i>> : i \in 0 .. NUM_BATS - 1}

-----------------------------------------------------------------------------
(* keyboard_watch, a core that comes or goes, a sensor that is lost *)

ChangeView ==
  /\ view' \in {SCREEN_SUMMARY, SCREEN_CPU, SCREEN_FREQ} /\ view_mode' \in {0, 1}
  /\ UNCHANGED <<ncpu, unicore, shows, probes>>

ChangeCores ==
  /\ ncpu' \in {ncpu - 1, ncpu + 1} \cap 1 .. MaxCpu
  /\ UNCHANGED <<view, view_mode, unicore, shows, probes>>

ChangeSensors ==
  /\ \E s \in shows : shows' = shows \ {s}
  /\ probes' \in 1 .. NUM_PROBES
  /\ UNCHANGED <<ncpu, view, view_mode, unicore>>

Next == ChangeView \/ ChangeCores \/ ChangeSensors

Spec == Init /\ [][Next]_lvars

-----------------------------------------------------------------------------
Apart(bars) == \A b, c \in bars : b = c \/ b[2] < c[1] \/ c[2] < b[1]
Meet(bars) == \A b, c \in bars : b = c \/ b[2] <= c[1] \/ c[2] <= b[1]
Fits(bars) == \A b \in bars : 0 <= b[1] /\ b[1] <= b[2] /\ b[2] < INFO_ROW

(* g15stats/ChangeLog: "Fix Summary, Freq and CPU Screens for some         *)
(* variants of the cpu cores number", "Improve Summary Screen for cpus     *)
(* with more then 7 cores".  For every number of cores and set of sensors, *)
(* the bars of a screen end above the bottom row and lie apart from each   *)
(* other.  The exception is the second variant of the CPU screen: from two *)
(* cores on, the bar of a core begins on the last row of the one before,   *)
(* and from ten cores on all are drawn over each other on one row.  There, *)
(* two cores have at most that row in common, and user, system and nice    *)
(* time lie apart.                                                         *)
BarsApart ==
  /\ LET bars == CoreBars \cup IF view = SCREEN_SUMMARY THEN SummaryBars ELSE {}
     IN Fits(bars) /\ IF Stacked THEN Meet(bars) ELSE Apart(bars)
  /\ Stacked => \A c, d \in Drawn, from, to \in Kinds :
                  from < to => StackedBar(c, from)[2] < StackedBar(d, to)[1]
  /\ Apart(SensorBars) /\ Fits(SensorBars)
  /\ Apart(BatteryBars) /\ Fits(BatteryBars)
=============================================================================
