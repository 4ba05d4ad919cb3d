----------------------------- MODULE StatsInfo ------------------------------
(***************************************************************************)
(* The bottom row of g15stats: it belongs to the screen, or rotates over   *)
(* the items that are there (L5), a timer counting the passes of the main  *)
(* loop.                                                                   *)
(***************************************************************************)
EXTENDS Integers, FiniteSetsExt

CONSTANT PAUSE   \* passes an item stays

SCREEN_SUMMARY == 0
SCREEN_FREQ == 2
SCREEN_NET == 5
SCREEN_FAN == 8
SCREEN_NET2 == 9
Screens == SCREEN_SUMMARY .. SCREEN_FAN
Probed == {SCREEN_FREQ} \cup SCREEN_NET .. SCREEN_FAN   \* items that may be missing

VARIABLES
  screen,        \* cycle, as far as the bottom row is concerned
  submode, info_cycle, info_cycle_timer,
  probe,         \* have_freq, have_nic, have_bat, have_temp, have_fan
  touched        \* history: a key came since the last pass

ivars == <<screen, submode, info_cycle, info_cycle_timer, probe, touched>>

Init ==
  /\ screen = SCREEN_SUMMARY /\ submode \in {0, 1}
  /\ info_cycle = SCREEN_SUMMARY /\ info_cycle_timer = -1
  /\ probe \in [Probed -> BOOLEAN] /\ touched = FALSE

There(item) == IF item = SCREEN_NET2 THEN probe[SCREEN_NET] ELSE item \in Probed => probe[item]

(* calc_info_cycle: an item that is missing takes its time off the timer,  *)
(* and the next one is looked at; after the last one it starts over.       *)
(* The bound of the timer, which only rotation resets, is two turns.       *)
(* With a bug: the timer stays behind. *)
CalcInfoCycleStays ==
  LET timer == info_cycle_timer + 1
      item  == timer \div PAUSE
      later == {i \in item .. SCREEN_NET2 : There(i)}
  IN /\ timer <= 2 * (SCREEN_NET2 + 1) * PAUSE
     /\ touched' = FALSE
     /\ IF submode = 1 THEN info_cycle' = screen /\ info_cycle_timer' = timer
        ELSE IF later = {} THEN info_cycle' = SCREEN_SUMMARY /\ info_cycle_timer' = timer
        ELSE info_cycle' = Min(later) /\ info_cycle_timer' = timer
     /\ UNCHANGED <<screen, submode, probe>>

CalcInfoCycle ==
  LET timer == info_cycle_timer + 1
      item  == timer \div PAUSE
      later == {i \in item .. SCREEN_NET2 : There(i)}
  IN /\ timer <= 2 * (SCREEN_NET2 + 1) * PAUSE
     /\ touched' = FALSE
     /\ IF submode = 1 THEN info_cycle' = screen /\ info_cycle_timer' = timer
        ELSE IF later = {} THEN info_cycle' = SCREEN_SUMMARY /\ info_cycle_timer' = 0
        ELSE /\ info_cycle' = Min(later)
             /\ info_cycle_timer' = timer + (Min(later) - item) * PAUSE
     /\ UNCHANGED <<screen, submode, probe>>

(* keyboard_watch: L2 and L3 start the row at the new screen. *)
ScreenKey(s) ==
  /\ s # screen /\ There(s)
  /\ screen' = s /\ info_cycle_timer' = s * PAUSE /\ touched' = TRUE
  /\ UNCHANGED <<submode, info_cycle, probe>>

SubmodeKey ==
  /\ submode' = 1 - submode /\ touched' = TRUE
  /\ UNCHANGED <<screen, info_cycle, info_cycle_timer, probe>>

(* print_info_label and the screens find that a sensor is gone. *)
LoseProbe(s) ==
  /\ probe[s]
  /\ probe' = [probe EXCEPT ![s] = FALSE]
  /\ UNCHANGED <<screen, submode, info_cycle, info_cycle_timer, touched>>

Next ==
  \/ CalcInfoCycle \/ SubmodeKey
  \/ \E s \in Screens : ScreenKey(s)
  \/ \E s \in Probed : LoseProbe(s)

Spec == Init /\ [][Next]_ivars /\ WF_ivars(CalcInfoCycle)

-----------------------------------------------------------------------------
(* g15stats/README: "-ir enable the bottom info bar content rotate cycle   *)
(* over all available sensors": once no key comes any more, every item     *)
(* that is there keeps coming back.                                        *)
InfoRotates ==
  \A item \in Screens \cup {SCREEN_NET2} :
    <>[](~touched /\ submode = 0 /\ There(item)) => []<>(info_cycle = item)
=============================================================================
