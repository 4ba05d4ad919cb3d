--------------------------- MODULE ScreenListProps ---------------------------
(***************************************************************************)
(* What the screen list must guarantee, stated over ScreenList.            *)
(***************************************************************************)
EXTENDS ScreenList

(* Every variable holds a value of its kind: pointers are addresses of the *)
(* heap (freed or not) or NULL, counters are natural numbers.              *)
TypeOK ==
  /\ live \subseteq Node
  /\ prev \in [Ring -> Ring \cup {NULL}]
  /\ next \in [Ring -> Ring \cup {NULL}]
  /\ last_priority \in [Ring -> Ring \cup {NULL}]
  /\ usr_foreground \in [Ring -> BOOLEAN]
  /\ never_select \in [Ring -> BOOLEAN]
  /\ head \in Ring /\ current \in Ring
  /\ numclients \in Nat
  /\ kpc \in {"idle", "cycling", "unlocked", "mark"}
  /\ kptr \in Ring \cup {NULL}
  /\ choice \in Ring \cup {NULL}
  /\ switching \subseteq Client
  /\ fault \in BOOLEAN
  /\ order \in Seq(Node)

(* The node at place i of a ring that lists s after the tail, its place 0. *)
At(s, i) == IF i = 0 THEN Tail0 ELSE s[i]

(* The prev and next pointers list exactly the connected screens, each     *)
(* once, in the order in which they connected, head is the newest of them  *)
(* and numclients counts them: g15daemon_lcdnode_add and _remove, which    *)
(* relink the ring by three different sets of assignments, never lose,     *)
(* duplicate or reorder a screen, and leave no pointer to a freed node.    *)
RingWellFormed ==
  /\ live = ToSet(order)
  /\ IsInjective(order)
  /\ numclients = Len(order)
  /\ head = At(order, Len(order))
  /\ prev[Tail0] = Tail0
  /\ next[At(order, Len(order))] = Tail0
  /\ \A i \in 1 .. Len(order) : /\ prev[order[i]] = At(order, i - 1)
                                /\ next[At(order, i - 1)] = order[i]

(* At most one screen says it was selected by the user, whatever connects, *)
(* disconnects or switches while g15daemon_lcdnode_cycle runs, and none    *)
(* does between the walk that clears the flags and the store that sets one *)
(* (g15daemon.h:179).                                                      *)
OneUserForeground ==
  /\ \A m, n \in Ring : usr_foreground[m] /\ usr_foreground[n] => m = n
  /\ kpc \in {"unlocked", "mark"} => \A n \in Ring : ~usr_foreground[n]

Strands == Allocated(current) /\ ~Allocated(current)'

GivesBackToGone ==
  \E n \in Node : /\ RequestPriority(n)
                  /\ current = n
                  /\ ~Allocated(last_priority[n])

(* The display is lost, that is masterlist->current points to a freed      *)
(* node, only when a client gives the display back (REQ_PRIORITY) to a     *)
(* screen that has disconnected since: no connect, disconnect or press of  *)
(* the cycle key ever strands it.                                          *)
OnlyGivingBackStrands == [][Strands => GivesBackToGone]_vars

(* g15daemon_client_devel(3), SWITCH_PRIORITIES: "Toggles the client's LCD *)
(* screen to/from the front".  Each request moves the client to the front  *)
(* when it is not there and away from it when it is, including right after *)
(* the user cycled to it, when last_priority names the screen itself.      *)
SwitchToggles ==
  [][\A n \in Node : RequestPriority(n) => ((current = n) <=> (current' # n))]_vars

(* The cycle key never leaves the user on a screen that asked not to be    *)
(* selected (g15daemon.h:181), nor on the splash screen while a client is  *)
(* connected.                                                              *)
CycleLandsOnSelectable ==
  [][kpc = "cycling" /\ kpc' = "unlocked"
       => /\ ~never_select[current']
          /\ current' = Tail0 => live = {}]_vars

(* The walk of g15daemon_lcdnode_cycle, which holds lcdlist_mutex, ends    *)
(* whenever some screen may be selected, or none is connected.             *)
CycleEnds ==
  (kpc = "cycling" /\ (live = {} \/ \E n \in live : ~never_select[n]))
     ~> (kpc # "cycling" \/ fault)

-----------------------------------------------------------------------------
(* The screen on display as the user knows it: while the keyboard thread   *)
(* walks the ring under the mutex, still the one it started from.          *)
Displayed == IF kpc = "cycling" THEN choice ELSE current

CONSTANT Gone

ASSUME GoneAssumption == Gone \notin Ring \cup {NULL}

Stack == INSTANCE ScreenStack WITH
           Screen  <- Node,
           Splash  <- Tail0,
           screens <- order,
           hidden  <- {n \in live : never_select[n]},
           shown   <- IF Allocated(Displayed) THEN Displayed ELSE Gone

(* The pointer ring, the mutex and the skip loop implement the stack of    *)
(* screens of ScreenStack: a new screen is shown at once, one that leaves  *)
(* passes the display to its neighbour, and the cycle key shows the next   *)
(* older selectable screen.                                                *)
ImplementsScreenStack == Stack!SSpec

-----------------------------------------------------------------------------
(* g15_plugin_net.c:280: "once the client disconnects by closing the       *)
(* socket, the LCD buffer is removed and will no longer be displayed".     *)
DisconnectedNotDisplayed == Allocated(current)

(* g15daemon.h:179, of usr_foreground: "set to 1 if user manually selected *)
(* this screen 0 otherwise".                                               *)
UserForegroundIsUsersChoice ==
  [][\A n \in Ring : ~usr_foreground[n] /\ usr_foreground'[n] => n = choice]_vars
==============================================================================
