------------------------------- MODULE Refresh -------------------------------
(***************************************************************************)
(* How a change of a screen reaches the LCD: g15daemon_send_refresh and    *)
(* g15daemon_wait_refresh (utility_funcs.c), the drawing thread and the    *)
(* re-initialisation after an unplugged keyboard (main.c), the frames and  *)
(* LED commands of the network clients (g15_plugin_net.c) and the clock    *)
(* (g15_plugin_clock.c).                                                   *)
(*                                                                         *)
(* refresh_pending is an int that several threads increment and one        *)
(* decrements with no lock: its load and its store are steps of their own. *)
(* pthread_cond_broadcast wakes the drawing thread only while it is        *)
(* registered on lcd_refresh (dpc = "wait").                               *)
(*                                                                         *)
(* How the display moves along the list of screens is ScreenList's         *)
(* subject: here it moves to any connected screen, never to freed memory,  *)
(* and a walk of the cycle key is one step.  What the contrast, the        *)
(* backlight and the LEDs are set to is left out; that they must be set,   *)
(* state_changed, is not.                                                  *)
(***************************************************************************)
EXTENDS Integers, FiniteSets

CONSTANTS
  Client,     \* screens of network clients, and the threads that serve them
  Clock,      \* the clock plugin's screen and thread
  Kbd,        \* the keyboard thread
  None,       \* nobody holds a mutex
  MaxPending, \* bound of the model: refresh_pending saturates at +/- MaxPending
  MaxBusy     \* bound of the model: threads that are inside a handler at once

ASSUME RefreshAssumption ==
  /\ Clock \notin Client /\ Kbd \notin Client \cup {Clock}
  /\ None \notin Client \cup {Clock, Kbd, "draw"}
  /\ "draw" \notin Client \cup {Clock, Kbd}
  /\ MaxPending \in Nat \ {0} /\ MaxBusy \in Nat \ {0}

Screen == Client \cup {Clock}
Thread == Screen \cup {Kbd}

VARIABLES
  connected,       \* clients with a screen
  current,         \* masterlist->current
  fresh,           \* the LCD was written from current since its contents were complete
  state_changed,   \* lcd->state_changed: contrast and LEDs are to be set
  refresh_pending,
  lcdlist_mutex, g15lib_mutex,  \* holder
  pc,              \* per thread: place in the handler it runs
  subject,         \* per thread: argument of its call of g15daemon_send_refresh
  tmp,             \* per thread: refresh_pending as loaded
  dpc, dtmp,       \* the same for the drawing thread
  displaying       \* the screen it works on

lcds    == <<connected, state_changed>>
mutexes == <<lcdlist_mutex, g15lib_mutex>>
drawer  == <<dpc, dtmp, displaying>>
sender  == <<pc, subject, tmp>>
vars    == <<current, lcds, fresh, refresh_pending, mutexes, sender, drawer>>

Visible == connected \cup {Clock}

(* The daemon is up: the clock has put its screen in front. *)
Init ==
  /\ connected = {} /\ current = Clock /\ fresh = FALSE
  /\ state_changed = [s \in Screen |-> TRUE]
  /\ refresh_pending = 0
  /\ lcdlist_mutex = None /\ g15lib_mutex = None
  /\ pc = [t \in Thread |-> "idle"]
  /\ subject = [t \in Thread |-> Clock] /\ tmp = [t \in Thread |-> 0]
  /\ dpc = "check" /\ dtmp = 0 /\ displaying = Clock

Saturated(n) ==
  IF n > MaxPending THEN MaxPending ELSE IF n < -MaxPending THEN -MaxPending ELSE n

(* A thread starts a handler, within the bound. *)
Starts(t) == pc[t] = "idle" /\ Cardinality({u \in Thread : pc[u] # "idle"}) < MaxBusy

Goto(t, place) == pc' = [pc EXCEPT ![t] = place]

-----------------------------------------------------------------------------
(* g15daemon_send_refresh, in thread t *)

(* The callers that refresh "the current screen" load masterlist->current  *)
(* for the argument; the function loads it again for its test.             *)
LoadSubject(t) ==
  /\ pc[t] = "subject"
  /\ subject' = [subject EXCEPT ![t] = current]
  /\ Goto(t, "notify")
  /\ UNCHANGED <<current, lcds, fresh, refresh_pending, mutexes, tmp, drawer>>

Woken == IF dpc = "wait" THEN "decrement" ELSE dpc

(* Nothing happens unless the screen is on display or its state changed;   *)
(* a screen freed in between holds anything.                               *)
(* With a bug: the test looks at the state only. *)
NotifiedByState(s) == s \in Visible => state_changed[s]

Notified(s) == s \in Visible => (s = current \/ state_changed[s])
Ignored(s)  == s \in Visible => ~Notified(s)

(* Wake the drawing thread, then count the refresh.                        *)
Broadcast(t) ==
  /\ pc[t] = "notify"
  /\ Notified(subject[t])
  /\ Goto(t, "load")
  /\ dpc' = Woken
  /\ subject' = [subject EXCEPT ![t] = Clock]
  /\ UNCHANGED <<current, lcds, fresh, refresh_pending, mutexes, tmp, dtmp, displaying>>

(* Back in the caller: the keyboard thread goes on with the walk of the    *)
(* cycle key when it runs one; the others release what they hold.          *)
Return(t) ==
  IF t = Kbd /\ lcdlist_mutex = Kbd
  THEN Goto(t, "walk") /\ UNCHANGED mutexes
  ELSE /\ Goto(t, "idle")
       /\ lcdlist_mutex' = IF lcdlist_mutex = t THEN None ELSE lcdlist_mutex
       /\ g15lib_mutex' = IF g15lib_mutex = t THEN None ELSE g15lib_mutex

NoBroadcast(t) ==
  /\ pc[t] = "notify"
  /\ Ignored(subject[t])
  /\ Return(t)
  /\ subject' = [subject EXCEPT ![t] = Clock]
  /\ UNCHANGED <<current, lcds, fresh, refresh_pending, tmp, drawer>>

LoadPending(t) ==
  /\ pc[t] = "load"
  /\ tmp' = [tmp EXCEPT ![t] = refresh_pending]
  /\ Goto(t, "store")
  /\ UNCHANGED <<current, lcds, fresh, refresh_pending, mutexes, subject, drawer>>

StorePending(t) ==
  /\ pc[t] = "store"
  /\ refresh_pending' = Saturated(tmp[t] + 1)
  /\ tmp' = [tmp EXCEPT ![t] = 0]
  /\ Return(t)
  /\ UNCHANGED <<current, lcds, fresh, subject, drawer>>

SendRefresh(t) ==
  LoadSubject(t) \/ Broadcast(t) \/ NoBroadcast(t) \/ LoadPending(t) \/ StorePending(t)

-----------------------------------------------------------------------------
(* The handlers that end in a refresh *)

(* lcd_client_thread: a frame is complete; it is copied into the screen's  *)
(* buffer under lcdlist_mutex.                                             *)
Frame(s) ==
  /\ Starts(s) /\ s \in connected
  /\ lcdlist_mutex = None
  /\ lcdlist_mutex' = s
  /\ Goto(s, "copy")
  /\ UNCHANGED <<current, lcds, fresh, refresh_pending, g15lib_mutex, subject, tmp, drawer>>

(* lcdclock, every 500 ms: clears and redraws the buffer that may be on    *)
(* display, and takes no mutex.                                            *)
ClockTick ==
  /\ Starts(Clock)
  /\ Goto(Clock, "copy")
  /\ UNCHANGED <<current, lcds, fresh, refresh_pending, mutexes, subject, tmp, drawer>>

Copied(s) ==
  /\ pc[s] = "copy"
  /\ fresh' = (fresh /\ s # current)
  /\ subject' = [subject EXCEPT ![s] = s]
  /\ Goto(s, "notify")
  /\ UNCHANGED <<current, lcds, refresh_pending, mutexes, tmp, drawer>>

(* G15_EVENT_REQ_PRIORITY in a client's thread: the display moves under    *)
(* the mutex, the refresh comes after the unlock.                          *)
(* With a bug: the display moves without the mutex. *)
RequestPriorityUnlocked(t, s) ==
  /\ Starts(t) /\ t \in connected
  /\ s \in Visible \ {current}
  /\ current' = s
  /\ fresh' = FALSE
  /\ Goto(t, "subject")
  /\ UNCHANGED <<lcds, refresh_pending, mutexes, subject, tmp, drawer>>

RequestPriority(t, s) ==
  /\ lcdlist_mutex = None
  /\ Starts(t) /\ t \in connected
  /\ s \in Visible \ {current}
  /\ current' = s
  /\ fresh' = FALSE
  /\ Goto(t, "subject")
  /\ UNCHANGED <<lcds, refresh_pending, mutexes, subject, tmp, drawer>>

(* g15daemon_lcdnode_cycle: the screen that goes is notified under the     *)
(* mutex, the one that comes after the unlock.                             *)
CycleBegin ==
  /\ Starts(Kbd)
  /\ lcdlist_mutex = None
  /\ lcdlist_mutex' = Kbd
  /\ subject' = [subject EXCEPT ![Kbd] = current]
  /\ Goto(Kbd, "notify")
  /\ UNCHANGED <<current, lcds, fresh, refresh_pending, g15lib_mutex, tmp, drawer>>

CycleLand(s) ==
  /\ pc[Kbd] = "walk"
  /\ s \in Visible
  /\ current' = s
  /\ fresh' = (fresh /\ s = current)
  /\ lcdlist_mutex' = None
  /\ Goto(Kbd, "subject")
  /\ UNCHANGED <<lcds, refresh_pending, g15lib_mutex, subject, tmp, drawer>>

(* g15daemon_lcdnode_add puts the new screen in front and refreshes        *)
(* nothing; g15daemon_lcdnode_remove marks the screen that takes over and  *)
(* refreshes the one on display before it unlocks.                         *)
Connect(s) ==
  /\ pc[s] = "idle" /\ s \notin connected
  /\ lcdlist_mutex = None
  /\ connected' = connected \cup {s}
  /\ state_changed' = [state_changed EXCEPT ![s] = TRUE]
  /\ current' = s
  /\ fresh' = FALSE
  /\ UNCHANGED <<refresh_pending, mutexes, sender, drawer>>

(* With a bug: the screen that leaves keeps the display. *)
DisconnectKeepsDisplay(s, heir) ==
  /\ Starts(s) /\ s \in connected
  /\ lcdlist_mutex = None
  /\ connected' = connected \ {s}
  /\ heir = current
  /\ lcdlist_mutex' = s
  /\ subject' = [subject EXCEPT ![s] = heir]
  /\ Goto(s, "notify")
  /\ UNCHANGED <<current, state_changed, fresh, refresh_pending, g15lib_mutex, tmp, drawer>>

Disconnect(s, heir) ==
  /\ Starts(s) /\ s \in connected
  /\ lcdlist_mutex = None
  /\ connected' = connected \ {s}
  /\ IF s = current
     THEN /\ heir \in Visible \ {s}
          /\ state_changed' = [state_changed EXCEPT ![heir] = TRUE]
          /\ fresh' = FALSE
     ELSE heir = current /\ UNCHANGED <<state_changed, fresh>>
  /\ current' = heir
  /\ lcdlist_mutex' = s
  /\ subject' = [subject EXCEPT ![s] = heir]
  /\ Goto(s, "notify")
  /\ UNCHANGED <<refresh_pending, g15lib_mutex, tmp, drawer>>

(* keyboard_watch_thread on -ENODEV: g15lib_mutex is held until the device *)
(* is back, then the screen on display is marked and refreshed.            *)
KeyboardGone ==
  /\ Starts(Kbd)
  /\ g15lib_mutex = None
  /\ g15lib_mutex' = Kbd
  /\ Goto(Kbd, "reinit")
  /\ UNCHANGED <<current, lcds, fresh, refresh_pending, lcdlist_mutex, subject, tmp, drawer>>

(* With a bug: the list is locked to read current, inside g15lib_mutex. *)
KeyboardBackLocksList ==
  /\ pc[Kbd] = "reinit"
  /\ lcdlist_mutex = None
  /\ state_changed' = [state_changed EXCEPT ![current] = TRUE]
  /\ fresh' = FALSE
  /\ Goto(Kbd, "subject")
  /\ UNCHANGED <<connected, current, refresh_pending, mutexes,
                 subject, tmp, drawer>>

KeyboardBack ==
  /\ pc[Kbd] = "reinit"
  /\ state_changed' = [state_changed EXCEPT ![current] = TRUE]
  /\ fresh' = FALSE
  /\ Goto(Kbd, "subject")
  /\ UNCHANGED <<connected, current, refresh_pending, mutexes,
                 subject, tmp, drawer>>

(* process_client_cmds, the MKEY_LIGHTS, BACKLIGHT and CONTRAST commands:   *)
(* no mutex, no refresh                                                    *)
StateCommand(s) ==
  /\ pc[s] = "idle" /\ s \in connected
  /\ state_changed' = [state_changed EXCEPT ![s] = TRUE]
  /\ UNCHANGED <<connected, current, fresh, refresh_pending, mutexes, sender, drawer>>

-----------------------------------------------------------------------------
(* g15daemon_wait_refresh, in the drawing thread *)

DrawStep(from, to) == dpc = from /\ dpc' = to

CheckPending ==
  /\ DrawStep("check", IF refresh_pending < 1 THEN "arm" ELSE "decrement")
  /\ UNCHANGED <<current, lcds, fresh, refresh_pending, mutexes, sender, dtmp, displaying>>

(* Before pthread_cond_timedwait registers the thread, a broadcast is lost. *)
Arm ==
  /\ DrawStep("arm", "wait")
  /\ UNCHANGED <<current, lcds, fresh, refresh_pending, mutexes, sender, dtmp, displaying>>

(* ETIMEDOUT goes back to "start:", not to the test of refresh_pending.    *)
TimedOut ==
  /\ DrawStep("wait", "arm")
  /\ UNCHANGED <<current, lcds, fresh, refresh_pending, mutexes, sender, dtmp, displaying>>

(* A spurious wakeup returns 0 like a broadcast.                           *)
SpuriousWakeup ==
  /\ DrawStep("wait", "decrement")
  /\ UNCHANGED <<current, lcds, fresh, refresh_pending, mutexes, sender, dtmp, displaying>>

DecrementLoad ==
  /\ DrawStep("decrement", "decremented")
  /\ dtmp' = refresh_pending
  /\ UNCHANGED <<current, lcds, fresh, refresh_pending, mutexes, sender, displaying>>

DecrementStore ==
  /\ DrawStep("decremented", "lock")
  /\ refresh_pending' = Saturated(dtmp - 1)
  /\ dtmp' = 0
  /\ UNCHANGED <<current, lcds, fresh, mutexes, sender, displaying>>

(* lcd_draw_thread, after the wait *)
DrawLock ==
  /\ DrawStep("lock", "write")
  /\ lcdlist_mutex = None
  /\ lcdlist_mutex' = "draw"
  /\ displaying' = current
  /\ UNCHANGED <<current, lcds, fresh, refresh_pending, g15lib_mutex, sender, dtmp>>

WriteLCD ==
  /\ DrawStep("write", "state")
  /\ g15lib_mutex = None
  /\ fresh' = (displaying = current)
  /\ UNCHANGED <<current, lcds, refresh_pending, mutexes, sender, dtmp, displaying>>

ApplyState ==
  /\ DrawStep("state", "clear")
  /\ state_changed[displaying]
  /\ g15lib_mutex = None
  /\ UNCHANGED <<current, lcds, fresh, refresh_pending, mutexes, sender, dtmp, displaying>>

(* The end of the pass, with or without a change of state to clear.  The   *)
(* pointer displaying is dead until the next pass.                         *)
DrawUnlock ==
  /\ \/ dpc = "state" /\ ~state_changed[displaying] /\ UNCHANGED state_changed
     \/ dpc = "clear" /\ state_changed' = [state_changed EXCEPT ![displaying] = FALSE]
  /\ lcdlist_mutex' = None
  /\ dpc' = "check"
  /\ displaying' = Clock
  /\ UNCHANGED <<connected, current, fresh, refresh_pending, g15lib_mutex, sender, dtmp>>

DrawThread ==
  \/ CheckPending \/ Arm \/ DecrementLoad \/ DecrementStore
  \/ DrawLock \/ WriteLCD \/ ApplyState \/ DrawUnlock

-----------------------------------------------------------------------------
Next ==
  \/ \E t \in Thread : SendRefresh(t)
  \/ \E s \in Client : Frame(s) \/ StateCommand(s) \/ Connect(s)
  \/ \E s \in Client, other \in Screen : RequestPriority(s, other) \/ Disconnect(s, other)
  \/ ClockTick
  \/ \E s \in Screen : Copied(s) \/ CycleLand(s)
  \/ CycleBegin
  \/ KeyboardGone \/ KeyboardBack
  \/ TimedOut \/ SpuriousWakeup
  \/ DrawThread

Spec == Init /\ [][Next]_vars
==============================================================================
