----------------------------- MODULE KeyRouting ------------------------------
(***************************************************************************)
(* Where a key press goes: keyboard_watch_thread and g15daemon_send_event  *)
(* (main.c) against the connections of the network clients                 *)
(* (g15_plugin_net.c) and the uinput plugin (g15_plugin_uinput.c).         *)
(*                                                                         *)
(* The keyboard thread loads the screen on display without the mutex and   *)
(* works with it to the end of the event; remote_keyhandler_sock is read   *)
(* and written without a lock; a socket is a small number that the system  *)
(* hands out again once it is closed.  Each step of a thread is as long as *)
(* one access to what the threads share.                                   *)
(*                                                                         *)
(* The keys are the cycle key and the others; backlight key and screen     *)
(* dump are left out.  Time is whether half a second has passed.  Using a  *)
(* freed screen is undefined: the step sets "fault" and the system stops.  *)
(***************************************************************************)
EXTENDS Naturals, FiniteSets

CONSTANTS
  Client,  \* screens of network clients, and the threads that serve them
  Clock,   \* the clock plugin's screen
  Fd,      \* numbers the system hands out for sockets
  Key, L1  \* keys, and the one of them that is cycle_key

ASSUME KeyAssumption ==
  /\ Clock \notin Client
  /\ Fd \subseteq Nat \ {0}
  /\ L1 \in Key

VARIABLES
  pressed,      \* keys held down on the keyboard
  heldLong,     \* half a second has passed since the daemon saw the cycle key go down
  clickLong,    \* half a second has passed since clicktime
  current,      \* masterlist->current
  remote_keyhandler_sock,
  connection,   \* lcd->connection, 0 when not set
  socket,       \* the client at the other end of each open socket
  cpc,          \* per client: where its connection is
  kpc,          \* where the keyboard thread is
  caller,       \* the screen it works with
  value,        \* the keys it has read
  lastkeys,     \* lastkeys of keyboard_watch_thread and of g15daemon_send_event, which
                \* differ only for the splash screen, gone once the clock is up
  osKeys,       \* keys that are down for the kernel = lastkeys of the uinput plugin
  got,          \* history: how often each client was sent the present event
  osGot,        \* history: the uinput plugin got it
  raced,        \* history: a connection or the key handler was set during the event
  fault         \* a freed screen was used

keyboard == <<pressed, heldLong, clickLong>>
net      == <<connection, socket, cpc>>
watch    == <<kpc, caller, value, lastkeys>>
sinks    == <<osKeys, got, osGot>>
vars     == <<keyboard, current, remote_keyhandler_sock, net, watch, sinks, raced, fault>>

Nobody == [c \in Client |-> 0]

(* The screens in the list: from lcdnode_add to lcdnode_remove. *)
Visible == {Clock} \cup {c \in Client : cpc[c] \notin {"gone", "accepted"}}

Init ==
  /\ pressed = {} /\ heldLong = FALSE /\ clickLong = FALSE
  /\ current = Clock
  /\ remote_keyhandler_sock = 0
  /\ connection = Nobody
  /\ socket = [f \in Fd |-> Clock]   \* Clock stands for: closed
  /\ cpc = [c \in Client |-> "gone"]
  /\ kpc = "idle" /\ caller = Clock
  /\ value = {} /\ lastkeys = {}
  /\ osKeys = {} /\ got = Nobody /\ osGot = FALSE
  /\ raced = FALSE /\ fault = FALSE

Fault == fault' = TRUE /\ UNCHANGED <<keyboard, current, remote_keyhandler_sock, net, watch,
                                      sinks, raced>>

-----------------------------------------------------------------------------
(* The user *)

Press(k) ==
  /\ k \notin pressed /\ ~fault
  /\ pressed' = pressed \cup {k}
  /\ UNCHANGED <<heldLong, clickLong, current, remote_keyhandler_sock, net, watch, sinks, raced, fault>>

Release(k) ==
  /\ k \in pressed /\ ~fault
  /\ pressed' = pressed \ {k}
  /\ UNCHANGED <<heldLong, clickLong, current, remote_keyhandler_sock, net, watch, sinks, raced, fault>>

(* Half a second goes by with the cycle key down. *)
HalfSecond ==
  /\ L1 \in pressed /\ L1 \in lastkeys /\ kpc = "idle" /\ ~fault
  /\ heldLong' = TRUE /\ clickLong' = TRUE
  /\ UNCHANGED <<pressed, current, remote_keyhandler_sock, net, watch, sinks, raced, fault>>

-----------------------------------------------------------------------------
(* A connection *)

Closed == {f \in Fd : socket[f] = Clock}

Moves(c, from, to) ==
  /\ cpc[c] = from /\ ~fault
  /\ cpc' = [cpc EXCEPT ![c] = to]

Serving(c) == cpc[c] = "serving" /\ ~fault

Unhandled == UNCHANGED <<keyboard, remote_keyhandler_sock, watch, sinks, raced, fault>>

(* g15_clientconnect handles one connection at a time; accept takes the    *)
(* lowest number that is free.                                             *)
Accept(c) ==
  /\ Moves(c, "gone", "accepted")
  /\ \A other \in Client : cpc[other] \notin {"accepted", "added"}
  /\ \E f \in Closed : /\ \A g \in Closed : f <= g
                       /\ socket' = [socket EXCEPT ![f] = c]
  /\ UNCHANGED <<current, connection>> /\ Unhandled

(* g15_clientconnect goes on: g15daemon_lcdnode_add, ... *)
Add(c) ==
  /\ Moves(c, "accepted", "added")
  /\ current' = c
  /\ UNCHANGED <<connection, socket>> /\ Unhandled

FdOf(c) == CHOOSE f \in Fd : socket[f] = c

(* ... the connection is stored and a thread created ... *)
Serve(c) ==
  /\ Moves(c, "added", "serving")
  /\ connection' = [connection EXCEPT ![c] = FdOf(c)]
  /\ raced' = (kpc # "idle")
  /\ UNCHANGED <<keyboard, current, remote_keyhandler_sock, socket, watch, sinks, fault>>

(* ... or, when the system has no more threads, the socket is closed and   *)
(* the screen stays in the list.                                           *)
NoThread(c) ==
  /\ Moves(c, "added", "orphan")
  /\ connection' = [connection EXCEPT ![c] = FdOf(c)]
  /\ socket' = [socket EXCEPT ![FdOf(c)] = Clock]
  /\ UNCHANGED current /\ Unhandled

(* process_client_cmds, CLIENT_CMD_KEY_HANDLER *)
TakeOver(c) ==
  /\ Serving(c)
  /\ remote_keyhandler_sock # connection[c]
  /\ remote_keyhandler_sock' = connection[c]
  /\ raced' = (kpc # "idle")
  /\ UNCHANGED <<keyboard, current, net, watch, sinks, fault>>

(* CLIENT_CMD_SWITCH_PRIORITIES: any screen may come to the front. *)
SwitchPriorities(c, s) ==
  /\ Serving(c)
  /\ s \in Visible \ {current}
  /\ current' = s
  /\ UNCHANGED net /\ Unhandled

(* lcd_client_thread at exitthread: the handler is compared, ...           *)
(* With a bug: the comparison is with 0. *)
ExitAnyHandler(c) ==
  /\ Moves(c, "serving", IF remote_keyhandler_sock = 0 THEN "clear" ELSE "close")
  /\ UNCHANGED <<current, connection, socket>> /\ Unhandled

Exit(c) ==
  /\ Moves(c, "serving", IF remote_keyhandler_sock = connection[c] THEN "clear" ELSE "close")
  /\ UNCHANGED <<current, connection, socket>> /\ Unhandled

(* ... then cleared, ... *)
ClearHandler(c) ==
  /\ Moves(c, "clear", "close")
  /\ remote_keyhandler_sock' = 0
  /\ raced' = (kpc # "idle")
  /\ UNCHANGED <<keyboard, current, connection, socket, watch, sinks, fault>>

(* ... the socket closed, and the screen removed. *)
Close(c) ==
  /\ Moves(c, "close", "closed")
  /\ socket' = [socket EXCEPT ![connection[c]] = Clock]
  /\ UNCHANGED <<current, connection>> /\ Unhandled

(* With a bug: the screen that leaves keeps the display. *)
RemoveKeepsDisplay(c, heir) ==
  /\ Moves(c, "closed", "gone")
  /\ heir = current
  /\ connection' = [connection EXCEPT ![c] = 0]
  /\ UNCHANGED <<current, socket>> /\ Unhandled

Remove(c, heir) ==
  /\ Moves(c, "closed", "gone")
  /\ IF current = c THEN heir \in Visible \ {c} ELSE heir = current
  /\ current' = heir
  /\ connection' = [connection EXCEPT ![c] = 0]
  /\ UNCHANGED socket /\ Unhandled

Connection(c) ==
  \/ Accept(c) \/ Add(c) \/ Serve(c) \/ NoThread(c) \/ TakeOver(c)
  \/ Exit(c) \/ ClearHandler(c) \/ Close(c)
  \/ \E s \in Client \cup {Clock} : SwitchPriorities(c, s) \/ Remove(c, s)

-----------------------------------------------------------------------------
(* The keyboard thread *)

Deliver(f) ==
  got' = IF f \in Fd /\ socket[f] \in Client THEN [got EXCEPT ![socket[f]] = @ + 1] ELSE got

At(place) == kpc = place /\ ~fault

CycleBranch == L1 \in value \/ L1 \in lastkeys

(* keyboard_watch_thread: the keys changed; the screen on display is       *)
(* loaded for the event.                                                   *)
ReadKeys ==
  /\ At("idle")
  /\ pressed # lastkeys
  /\ value' = pressed
  /\ caller' = current
  /\ kpc' = "event"
  /\ UNCHANGED <<keyboard, current, remote_keyhandler_sock, net, lastkeys, sinks, raced, fault>>

(* The event handler of the screen: server_events sends a client the keys  *)
(* unless the client handles all keys and gets them anyway.  The clock     *)
(* keeps them to itself.                                                   *)
(* With a bug: the key handler is sent its own screen's keys as well. *)
ServerEventsTwice(keys) == Deliver(IF caller \in Client THEN connection[caller] ELSE 0)

ServerEvents(keys) ==
  Deliver(IF caller \in Client /\ remote_keyhandler_sock # connection[caller]
          THEN connection[caller] ELSE 0)

Listener ==
  /\ At("event") /\ ~CycleBranch
  /\ IF caller \in Visible
     THEN /\ ServerEvents(value)
          /\ kpc' = "os"
          /\ UNCHANGED <<keyboard, current, remote_keyhandler_sock, net, caller, value, lastkeys, osKeys, osGot, raced, fault>>
     ELSE Fault

(* The uinput plugin reports the difference with what it reported before.  *)
OsHandler ==
  /\ At("os")
  /\ IF caller \in Visible
     THEN /\ IF remote_keyhandler_sock = 0
             THEN osKeys' = value /\ osGot' = TRUE
             ELSE UNCHANGED <<osKeys, osGot>>
          /\ kpc' = "remote"
          /\ UNCHANGED <<keyboard, current, remote_keyhandler_sock, net, caller, value, lastkeys, got, raced, fault>>
     ELSE Fault

RemoteHandler ==
  /\ At("remote")
  /\ IF caller \in Visible
     THEN /\ Deliver(remote_keyhandler_sock)
          /\ kpc' = "done"
          /\ UNCHANGED <<keyboard, current, remote_keyhandler_sock, net, caller, value, lastkeys, osKeys, osGot, raced, fault>>
     ELSE Fault

(* The cycle key goes down, or another key moves while it is down: the     *)
(* time is taken.                                                          *)
Click ==
  /\ At("event") /\ L1 \in value
  /\ clickLong' = FALSE
  /\ heldLong' = (heldLong /\ L1 \in lastkeys)
  /\ kpc' = "done"
  /\ UNCHANGED <<pressed, current, remote_keyhandler_sock, net, caller, value, lastkeys, sinks, raced, fault>>

(* It was released within half a second of that time: g15daemon_lcdnode_   *)
(* cycle; the display moves, or comes back to the only screen there is.    *)
(* With a bug: the time is compared the other way round. *)
TooShort == clickLong

ClickedShort == ~clickLong

Unclick == At("event") /\ L1 \notin value /\ L1 \in lastkeys

CycleScreens(s) ==
  /\ Unclick /\ ClickedShort
  /\ s \in Visible
  /\ IF caller \in Visible
     THEN /\ current' = s
          /\ kpc' = "done"
          /\ UNCHANGED <<keyboard, remote_keyhandler_sock, net, caller, value, lastkeys,
                         sinks, raced, fault>>
     ELSE Fault

(* After a longer press the screen gets the key, pressed and released. *)
AppKey(from, to, keys) ==
  /\ At(from)
  /\ IF caller \in Visible
     THEN /\ ServerEvents(keys)
          /\ kpc' = to
          /\ UNCHANGED <<keyboard, current, remote_keyhandler_sock, net, caller, value, lastkeys, osKeys, osGot, raced, fault>>
     ELSE Fault

AppPress == Unclick /\ ~ClickedShort /\ AppKey("event", "appkey", value \cup {L1})

AppRelease == AppKey("appkey", "done", value)

(* What belongs to the event is dead until the next one. *)
EventDone ==
  /\ At("done")
  /\ lastkeys' = value
  /\ kpc' = "idle"
  /\ value' = {} /\ caller' = Clock
  /\ got' = Nobody /\ osGot' = FALSE /\ raced' = FALSE
  /\ UNCHANGED <<keyboard, current, remote_keyhandler_sock, net, osKeys, fault>>

Keyboard ==
  \/ ReadKeys \/ Listener \/ OsHandler \/ RemoteHandler
  \/ Click \/ (\E s \in Client \cup {Clock} : CycleScreens(s)) \/ AppPress \/ AppRelease
  \/ EventDone

Stopped == fault /\ UNCHANGED vars

Next ==
  \/ \E k \in Key : Press(k) \/ Release(k)
  \/ HalfSecond
  \/ \E c \in Client : Connection(c)
  \/ Keyboard
  \/ Stopped

Spec == Init /\ [][Next]_vars
==============================================================================
