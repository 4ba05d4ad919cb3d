---------------------------- MODULE StatsScreens ----------------------------
(***************************************************************************)
(* The screens of g15stats.  keyboard_watch moves cycle through them, in a *)
(* raw step and a correction; the main loop draws the screen cycle stands  *)
(* for and moves it on when its sensor turns out to be missing.  Nothing   *)
(* is locked.                                                              *)
(***************************************************************************)
EXTENDS Integers, FiniteSetsExt

SCREEN_SUMMARY == 0
SCREEN_SWAP == 4
SCREEN_NET == 5
SCREEN_BAT == 6
SCREEN_TEMP == 7
SCREEN_FAN == 8
MAX_SCREENS == 8
Optional == SCREEN_NET .. SCREEN_FAN
Stale == -2     \* a pass that has drawn nothing leaves the screen of an earlier one

VARIABLES
  cycle, cycle_old,
  have,          \* have_nic, have_bat, have_temp and have_fan
  kpc, change,   \* keyboard_watch: "recv" or "correct"; the way the key goes
  mpc, candidate, backward,  \* main: where it is, the screen it tries, the way it goes on
  shown,         \* the screen this pass puts on the LCD; Stale before
  pressed        \* history: a key came since the pass began

keyvars  == <<kpc, change>>
mainvars == <<cycle_old, mpc, candidate, backward, shown>>
svars    == <<cycle, have, keyvars, mainvars, pressed>>

Init ==
  /\ cycle = 0 /\ cycle_old = 0
  /\ have \in [Optional -> BOOLEAN]
  /\ kpc = "recv" /\ change = 0
  /\ mpc = "top" /\ candidate = 0 /\ backward = FALSE
  /\ shown = Stale /\ pressed = FALSE

-----------------------------------------------------------------------------
(* keyboard_watch *)

Available(s) == s \in Optional => have[s]

(* CHANGE_UP: screens that are missing are passed over. *)
Up(c) ==
  LET from == IF c > MAX_SCREENS THEN 0 ELSE c
      next == {s \in from .. MAX_SCREENS : Available(s)}
  IN IF from \notin Optional THEN from ELSE IF next = {} THEN 0 ELSE Min(next)

(* CHANGE_DOWN *)
(* With a bug: the screen before the first is the last that is always there. *)
DownFromSwap(c) ==
  LET from == IF c < 0 THEN SCREEN_SWAP ELSE c
  IN IF from \notin Optional THEN from
     ELSE Max({s \in SCREEN_SWAP .. from : Available(s)})

Down(c) ==
  LET from == IF c < 0 THEN MAX_SCREENS ELSE c
  IN IF from \notin Optional THEN from
     ELSE Max({s \in SCREEN_SWAP .. from : Available(s)})

Key(step) ==
  /\ kpc = "recv" /\ kpc' = "correct"
  /\ cycle' = cycle + step /\ change' = step
  /\ pressed' = TRUE
  /\ UNCHANGED <<have, mainvars>>

Correct ==
  /\ kpc = "correct" /\ kpc' = "recv"
  /\ cycle' = IF change = 1 THEN Up(cycle) ELSE Down(cycle)
  /\ change' = 0 /\ pressed' = TRUE
  /\ UNCHANGED <<have, mainvars>>

-----------------------------------------------------------------------------
(* main *)

BeginPass ==
  /\ mpc = "top" /\ mpc' = "try"
  /\ candidate' = cycle
  /\ backward' = (cycle_old # cycle /\ ((cycle_old = 0) # (cycle_old < cycle)))
  /\ pressed' = (kpc # "recv")
  /\ UNCHANGED <<cycle, cycle_old, have, keyvars, shown>>

(* A screen that is there is drawn. *)
DrawScreen ==
  /\ mpc = "try" /\ candidate \in 0 .. MAX_SCREENS /\ Available(candidate)
  /\ shown' = candidate /\ mpc' = "send"
  /\ UNCHANGED <<cycle, cycle_old, have, keyvars, candidate, backward, pressed>>

(* One that is not there, or not any more, is passed over: cycle goes one  *)
(* on, or back.  A network interface is only missing from the start.       *)
(* With a bug: the screen drawn is another, cycle the same. *)
PassOverOnly ==
  /\ mpc = "try" /\ candidate \in Optional
  /\ ~have[candidate] \/ candidate # SCREEN_NET
  /\ have' = [have EXCEPT ![candidate] = FALSE]
  /\ candidate' = candidate + IF backward THEN -1 ELSE 1
  /\ UNCHANGED <<cycle, cycle_old, keyvars, mpc, backward, shown, pressed>>

PassOver ==
  /\ mpc = "try" /\ candidate \in Optional
  /\ ~have[candidate] \/ candidate # SCREEN_NET
  /\ have' = [have EXCEPT ![candidate] = FALSE]
  /\ cycle' = cycle + IF backward THEN -1 ELSE 1
  /\ candidate' = candidate + IF backward THEN -1 ELSE 1
  /\ UNCHANGED <<cycle_old, keyvars, mpc, backward, shown, pressed>>

(* Out of range: the drawing of the CPU finds no screen to draw, and the   *)
(* first screen is next, unless a key has changed cycle since.             *)
StartOver ==
  /\ mpc = "try" /\ candidate \notin 0 .. MAX_SCREENS
  /\ shown' = Stale /\ mpc' = "send"
  /\ cycle' = IF candidate < 0 \/ cycle > MAX_SCREENS THEN 0 ELSE cycle
  /\ UNCHANGED <<cycle_old, have, keyvars, candidate, backward, pressed>>

(* The bottom row, and the summary, may find a sensor missing as well. *)
Send ==
  /\ mpc = "send" /\ mpc' = "wait"
  /\ cycle_old' = cycle
  /\ \E lost \in SUBSET {SCREEN_BAT, SCREEN_TEMP, SCREEN_FAN} :
       have' = [s \in Optional |-> have[s] /\ s \notin lost]
  /\ UNCHANGED <<cycle, keyvars, candidate, backward, shown, pressed>>

(* g15stats_wait: the time is over, or a key woke the loop. *)
Wake ==
  /\ mpc = "wait" /\ mpc' = "top"
  /\ shown' = Stale /\ candidate' = 0 /\ backward' = FALSE
  /\ UNCHANGED <<cycle, cycle_old, have, keyvars, pressed>>

(* network_watch finds no such interface. *)
NoInterface ==
  /\ have[SCREEN_NET]
  /\ have' = [have EXCEPT ![SCREEN_NET] = FALSE]
  /\ UNCHANGED <<cycle, keyvars, mainvars, pressed>>

MainLoop == BeginPass \/ DrawScreen \/ PassOver \/ StartOver \/ Send \/ Wake

Next ==
  \/ \E step \in {-1, 1} : Key(step)
  \/ Correct \/ MainLoop \/ NoInterface

Spec == Init /\ [][Next]_svars

-----------------------------------------------------------------------------
(* The screen on the LCD is the one cycle stands for, whichever sensors    *)
(* turn out to be missing on the way, unless a key came during the pass.   *)
(* When the last screen is the one that is missing, a pass draws nothing.  *)
ShowsSelected ==
  mpc = "wait" /\ ~pressed => shown = cycle \/ (shown = Stale /\ cycle = SCREEN_SUMMARY)

(* g15stats/README: "L2: Previous Screen", "L3: Next Screen": they undo    *)
(* each other on every screen that is there, whichever are missing.        *)
PreviousUndoesNext ==
  \A c \in 0 .. MAX_SCREENS :
    Available(c) => Down(Up(c + 1) - 1) = c /\ Up(Down(c - 1) + 1) = c
=============================================================================
