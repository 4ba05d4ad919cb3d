----------------------------- MODULE ScreenStack -----------------------------
(***************************************************************************)
(* What the daemon's list of LCD screens promises to its users, with no    *)
(* pointers, locks or threads: the connected screens in the order in which *)
(* they connected, and the one that is shown.  ScreenList is the code's    *)
(* doubly linked ring; MCScreenList checks that it implements this module. *)
(*                                                                         *)
(* Gone is the one outcome nobody asked for: a client that gives the       *)
(* display back may hand it to a screen that has disconnected meanwhile    *)
(* (see Toggle).                                                           *)
(***************************************************************************)
EXTENDS Naturals, Sequences, SequencesExt

CONSTANTS
  Screen,   \* identities of client screens
  Splash,   \* the screen at the tail of the list, shown when nobody is connected
  Gone      \* "a screen that no longer exists is on display"

VARIABLES
  screens,  \* connected screens, oldest first
  hidden,   \* screens that asked never to be selected by the user
  shown     \* the screen on display

svars == <<screens, hidden, shown>>

Connected == ToSet(screens)

SInit == screens = << >> /\ hidden = {} /\ shown = Splash

(* A new screen goes to the top of the stack and is shown at once. *)
Connect(s) ==
  /\ s \notin Connected
  /\ screens' = Append(screens, s)
  /\ shown' = s
  /\ UNCHANGED hidden

(* The display passes to the next newer screen, or to the next older one   *)
(* when the newest screen leaves.                                          *)
Successor(i) ==
  CASE i < Len(screens)           -> screens[i + 1]
    [] i = Len(screens) /\ i > 1  -> screens[i - 1]
    [] i = Len(screens) /\ i = 1  -> Splash

Disconnect(s) ==
  \E i \in DOMAIN screens :
    /\ screens[i] = s
    /\ screens' = RemoveAt(screens, i)
    /\ hidden' = hidden \ {s}
    /\ shown' = IF shown = s THEN Successor(i) ELSE shown
    /\ shown # Gone

Hide(s) ==
  /\ s \in Connected
  /\ hidden' = hidden \cup {s}
  /\ UNCHANGED <<screens, shown>>

(* The user presses the cycle key: the next older selectable screen, then  *)
(* round again from the newest; the splash screen only when nothing else   *)
(* is connected.                                                           *)
Selectable == {i \in DOMAIN screens : screens[i] \notin hidden}

Older == {i \in Selectable : \E j \in DOMAIN screens : shown = screens[j] /\ i < j}

Cycle ==
  /\ shown # Gone
  /\ IF screens = << >>
     THEN shown' = Splash
     ELSE /\ Selectable # {}
          /\ shown' = screens[Max(IF Older # {} THEN Older ELSE Selectable)]
  /\ UNCHANGED <<screens, hidden>>

(* A client asks for the display, or gives it back: the screen that was on *)
(* display before may have left since.                                     *)
Toggle(s) ==
  /\ s \in Connected
  /\ IF shown # s
     THEN shown' = s
     ELSE shown' \in (Connected \cup {Splash, Gone}) \ {s}
  /\ UNCHANGED <<screens, hidden>>

SNext ==
  \/ \E s \in Screen : Connect(s) \/ Disconnect(s) \/ Hide(s) \/ Toggle(s)
  \/ Cycle

SSpec == SInit /\ [][SNext]_svars
==============================================================================
