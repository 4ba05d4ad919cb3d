---------------------------- MODULE RefreshProps -----------------------------
(***************************************************************************)
(* What the refresh of the LCD must guarantee, stated over Refresh.        *)
(***************************************************************************)
EXTENDS Refresh

Places == {"idle", "copy", "subject", "notify", "load", "store", "reinit", "walk"}
DrawPlaces ==
  {"check", "arm", "wait", "decrement", "decremented", "lock", "write", "state", "clear"}

(* Every variable holds a value of its kind; the screen on display is a    *)
(* connected one.                                                          *)
TypeOK ==
  /\ connected \subseteq Client /\ current \in Visible
  /\ fresh \in BOOLEAN /\ state_changed \in [Screen -> BOOLEAN]
  /\ refresh_pending \in -MaxPending .. MaxPending
  /\ lcdlist_mutex \in Thread \cup {"draw", None} /\ g15lib_mutex \in {Kbd, None}
  /\ pc \in [Thread -> Places] /\ subject \in [Thread -> Screen]
  /\ tmp \in [Thread -> -MaxPending .. MaxPending]
  /\ dpc \in DrawPlaces /\ dtmp \in -MaxPending .. MaxPending /\ displaying \in Screen

(* Nobody touches what the drawing thread works on during a pass: the      *)
(* screen it picked stays on display and connected until it unlocks, and   *)
(* no client copies a frame meanwhile, so the LCD never shows half a frame *)
(* of a client.  (The clock draws its buffer without the mutex.)           *)
DrawsStableScreen ==
  dpc \in {"write", "state", "clear"} =>
    /\ displaying = current
    /\ displaying \in Visible
    /\ \A s \in Client : pc[s] # "copy"

-----------------------------------------------------------------------------
(* Scheduling.  Each thread that is inside a handler gets on with it; a    *)
(* thread that waits for lcdlist_mutex again and again gets it in the end; *)
(* the keyboard is plugged in again; the clock's update function runs      *)
(* every 500 ms.  Nobody has to connect, send, switch or press a key.      *)
Fairness ==
  /\ \A t \in Thread : WF_vars(SendRefresh(t))
  /\ \A s \in Screen : WF_vars(Copied(s))
  /\ WF_vars(\E s \in Screen : CycleLand(s))
  /\ WF_vars(KeyboardBack)
  /\ WF_vars(ClockTick)
  /\ SF_vars(DrawThread)

FairSpec == Spec /\ Fairness

(* The clock notifies twice a second, and wait_refresh is between its test *)
(* and the registration in pthread_cond_timedwait for microseconds: some   *)
(* tick always comes outside of that window.                               *)
ClockNotifies == Broadcast(Clock) \/ NoBroadcast(Clock)

TimedSpec == FairSpec /\ []<><<ClockNotifies /\ dpc \notin {"check", "arm"}>>_vars

(* lcdlist_mutex is always released: the drawing thread takes g15lib_mutex *)
(* inside it, the keyboard thread holds g15lib_mutex for as long as the    *)
(* device is unplugged and then refreshes the screen.  No order of these   *)
(* locks and of the threads blocks the daemon for good.                    *)
MutexReleased == lcdlist_mutex # None ~> lcdlist_mutex = None

(* While the clock is on display its ticks do reach the LCD, in spite of   *)
(* the refreshes that are lost and of a count that is wrong: it is written *)
(* again, unless another screen takes the display.                         *)
ClockIsShown == current = Clock ~> (fresh \/ current # Clock)

-----------------------------------------------------------------------------
(* ChangeLog:164: "BugFix: If lcd refresh is requested whilst processing,  *)
(* refreshes were missed."                                                 *)
NoRefreshMissed ==
  \A s \in Client : (pc[s] = "load" /\ current = s) ~> (fresh \/ current # s)
==============================================================================
