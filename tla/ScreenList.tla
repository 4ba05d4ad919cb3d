----------------------------- MODULE ScreenList ------------------------------
(***************************************************************************)
(* The daemon's list of LCD screens (g15daemon/linked_lists.c) and the     *)
(* events that move the display along it (g15daemon/main.c): a ring of     *)
(* heap nodes from tail (the splash screen) to head (the newest client),   *)
(* changed under lcdlist_mutex by the threads of the network clients and   *)
(* plugins, and by the keyboard thread when the user presses the cycle     *)
(* key.                                                                    *)
(*                                                                         *)
(* A critical section is one action, except the walk of                    *)
(* g15daemon_lcdnode_cycle, which is one action per turn of its "skip"     *)
(* loop: the mutex is held exactly while kpc = "cycling".  The reads that  *)
(* the code makes outside the mutex are actions of their own.              *)
(*                                                                         *)
(* Nodes are heap addresses: a freed address may be handed out again, and  *)
(* pointers to it survive.  Dereferencing a pointer to freed memory is     *)
(* undefined; the step that would do it sets "fault" and the system stops  *)
(* there, so what is stated holds up to the first undefined access.        *)
(***************************************************************************)
EXTENDS Naturals, Sequences, FiniteSets, SequencesExt

CONSTANTS
  Node,  \* addresses the heap hands out for client screens
  Tail0, \* address of the node that ll_lcdlist_init creates
  NULL,
  Client \* the screens of network clients, who may send commands; the rest are plugins'

ASSUME NodeAssumption ==
  /\ Tail0 \notin Node
  /\ NULL \notin Node \cup {Tail0}
  /\ Client \subseteq Node

Ring == Node \cup {Tail0}

VARIABLES
  live,          \* client nodes allocated and not freed
  prev, next,    \* lcdnode_s.prev, .next
  last_priority, \* lcdnode_s.last_priority
  usr_foreground, never_select,  \* fields of the node's lcd_s
  head, current, \* masterlist->head, ->current (->tail is always Tail0)
  numclients,    \* masterlist->numclients
  kpc,           \* where the keyboard thread is in g15daemon_lcdnode_cycle
  kptr,          \* masterlist->current as it loaded it after the unlock
  switching,     \* screens whose thread is between the unlock and the refresh of REQ_PRIORITY
  fault,         \* a freed node was dereferenced
  order,         \* history: the connected screens, oldest first
  choice         \* history: the screen the walk started from while it lasts, then
                 \* the one it chose for the user, until that one is marked

ring  == <<live, prev, next, head, numclients, order>>
lcds  == <<usr_foreground, never_select>>
keyb  == <<kpc, kptr, choice>>
vars  == <<ring, lcds, last_priority, current, keyb, switching, fault>>

-----------------------------------------------------------------------------
(* ll_lcdlist_init: the splash node, alone in the ring. *)
Init ==
  /\ live = {}
  /\ prev = [n \in Ring |-> IF n = Tail0 THEN Tail0 ELSE NULL]
  /\ next = [n \in Ring |-> IF n = Tail0 THEN Tail0 ELSE NULL]
  /\ last_priority = [n \in Ring |-> NULL]
  /\ usr_foreground = [n \in Ring |-> FALSE]
  /\ never_select = [n \in Ring |-> FALSE]
  /\ head = Tail0 /\ current = Tail0 /\ numclients = 0
  /\ kpc = "idle" /\ kptr = NULL /\ choice = NULL
  /\ switching = {} /\ fault = FALSE
  /\ order = << >>

Allocated(n) == n \in live \cup {Tail0}

LcdlistMutexFree == kpc # "cycling" /\ ~fault

(* The step dereferences freed memory: nothing is promised from here on. *)
Fault ==
  /\ fault' = TRUE
  /\ UNCHANGED <<ring, lcds, last_priority, current, keyb, switching>>

(* g15daemon_lcdnode_add *)
LcdnodeAdd(n) ==
  /\ LcdlistMutexFree
  /\ n \notin live
  /\ live' = live \cup {n}
  /\ prev' = [prev EXCEPT ![n] = head]
  /\ next' = [next EXCEPT ![n] = Tail0, ![head] = n]
  /\ last_priority' = [last_priority EXCEPT ![n] = NULL]
  /\ usr_foreground' = [usr_foreground EXCEPT ![n] = FALSE]
  /\ never_select' = [never_select EXCEPT ![n] = FALSE]
  /\ head' = n /\ current' = n
  /\ numclients' = numclients + 1
  /\ order' = Append(order, n)
  /\ UNCHANGED <<keyb, switching, fault>>

(* g15daemon_lcdnode_remove: the screen next to the one removed takes over *)
(* the display, and the node is unlinked and freed.                        *)
(* With bugs: a head that leaves keeps the display; the older screen always *)
(* takes over; the screen it was taken from takes over.                   *)
TakeoverToLast(n) == IF current = n THEN last_priority[n] ELSE current
TakeoverHeadKeeps(n) == IF current = n /\ n # head THEN next[n] ELSE current
TakeoverOlder(n) == IF current = n THEN prev[n] ELSE current

Takeover(n) ==
  CASE current # n            -> current
    [] current = n /\ n # head -> next[n]
    [] current = n /\ n = head -> prev[n]

(* With a bug: the new head keeps its pointer to the node it replaced. *)
UnlinkHeadStale(n) ==
  /\ IF n # head
     THEN /\ prev' = [prev EXCEPT ![next[n]] = prev[n], ![n] = NULL]
          /\ next' = [next EXCEPT ![prev[n]] = next[n], ![n] = NULL]
          /\ UNCHANGED head
     ELSE /\ prev' = [prev EXCEPT ![n] = NULL]
          /\ next' = [next EXCEPT ![n] = NULL]
          /\ head' = prev[n]
  /\ live' = live \ {n}
  /\ numclients' = numclients - 1
  /\ \E i \in DOMAIN order : order[i] = n /\ order' = RemoveAt(order, i)

Unlink(n) ==
  /\ IF n # head
     THEN /\ prev' = [prev EXCEPT ![next[n]] = prev[n], ![n] = NULL]
          /\ next' = [next EXCEPT ![prev[n]] = next[n], ![n] = NULL]
          /\ UNCHANGED head
     ELSE /\ prev' = [prev EXCEPT ![n] = NULL]
          /\ next' = [next EXCEPT ![prev[n]] = Tail0, ![n] = NULL]
          /\ head' = prev[n]
  /\ live' = live \ {n}
  /\ numclients' = numclients - 1
  /\ \E i \in DOMAIN order : order[i] = n /\ order' = RemoveAt(order, i)

LcdnodeRemove(n) ==
  /\ LcdlistMutexFree
  /\ n \in live \ switching
  /\ IF Allocated(current)
     THEN /\ Unlink(n)
          /\ current' = Takeover(n)
          /\ usr_foreground' = [usr_foreground EXCEPT ![n] = FALSE]
          /\ never_select' = [never_select EXCEPT ![n] = FALSE]
          /\ last_priority' = [last_priority EXCEPT ![n] = NULL]
          /\ UNCHANGED <<keyb, switching, fault>>
     ELSE Fault

(* process_client_cmds, CLIENT_CMD_NEVER_SELECT *)
NeverSelect(n) ==
  /\ LcdlistMutexFree
  /\ n \in live \ switching
  /\ never_select' = [never_select EXCEPT ![n] = TRUE]
  /\ UNCHANGED <<ring, usr_foreground, last_priority, current, keyb, switching,
                 fault>>

(* g15daemon_send_event, G15_EVENT_REQ_PRIORITY, up to the unlock: the     *)
(* client comes to the front, or gives the display back to the screen it   *)
(* took it from; to the next older one when there is none to go back to,   *)
(* or when the user put the client in front (last_priority is itself).     *)
(* With a bug: the case of a screen that the user selected is forgotten. *)
NowhereToGoBack(n) == last_priority[n] = NULL

GoesToOlder(n) == last_priority[n] \in {n, NULL}

RequestPriority(n) ==
  /\ LcdlistMutexFree
  /\ n \in live \ switching
  /\ \/ /\ current # n
        /\ last_priority' = [last_priority EXCEPT ![n] = current]
        /\ current' = n
     \/ /\ current = n
        /\ GoesToOlder(n)
        /\ current' = prev[n]
        /\ UNCHANGED last_priority
     \/ /\ current = n
        /\ ~GoesToOlder(n)
        /\ current' = last_priority[n]
        /\ last_priority' = [last_priority EXCEPT ![n] = NULL]
  /\ switching' = switching \cup {n}
  /\ UNCHANGED <<ring, lcds, keyb, fault>>

(* ... and the refresh after it, which reads current->lcd without the lock *)
RefreshAfterSwitch(n) ==
  /\ ~fault
  /\ n \in switching
  /\ IF Allocated(current)
     THEN /\ switching' = switching \ {n}
          /\ UNCHANGED <<ring, lcds, last_priority, current, keyb, fault>>
     ELSE Fault

-----------------------------------------------------------------------------
(* g15daemon_lcdnode_cycle, in the keyboard thread *)

CycleBegin ==
  /\ LcdlistMutexFree
  /\ kpc = "idle"
  /\ IF Allocated(current)
     THEN /\ kpc' = "cycling"
          /\ choice' = current
          /\ UNCHANGED <<ring, lcds, last_priority, current, kptr, switching,
                         fault>>
     ELSE Fault

(* One turn of the "skip" loop: the do-while visits the whole ring to      *)
(* clear usr_foreground and comes back to where it started, then the       *)
(* display moves on by one.                                                *)
(* With a bug: the walk does not wrap from the tail to the head. *)
StepBackNoWrap == prev[current]

StepBack == IF current = Tail0 THEN head ELSE prev[current]

(* With a bug: never_select is not looked at. *)
MustSkipTailOnly(n) == numclients > 0 /\ n = Tail0

MustSkip(n) == never_select[n] \/ (numclients > 0 /\ n = Tail0)

(* With a bug: only the screen the walk starts from is cleared. *)
FlagsClearedOnce == [usr_foreground EXCEPT ![current] = FALSE]

FlagsCleared == [n \in Ring |-> FALSE]

CycleSkip ==
  /\ kpc = "cycling" /\ ~fault
  /\ MustSkip(StepBack)
  /\ usr_foreground' = FlagsCleared
  /\ current' = StepBack
  /\ UNCHANGED <<ring, never_select, last_priority, keyb, switching, fault>>

CycleLand ==
  /\ kpc = "cycling" /\ ~fault
  /\ ~MustSkip(StepBack)
  /\ usr_foreground' = FlagsCleared
  /\ current' = StepBack
  /\ last_priority' = [last_priority EXCEPT ![StepBack] = StepBack]
  /\ kpc' = "unlocked"
  /\ choice' = StepBack
  /\ UNCHANGED <<ring, never_select, kptr, switching, fault>>

(* After the unlock the code loads masterlist->current again ...           *)
CycleLoad ==
  /\ kpc = "unlocked" /\ ~fault
  /\ IF Allocated(current)
     THEN /\ kptr' = current
          /\ kpc' = "mark"
          /\ UNCHANGED <<ring, lcds, last_priority, current, choice, switching, fault>>
     ELSE Fault

(* ... marks that screen as the user's choice, and notifies the screen it  *)
(* finds in masterlist->current a third time.                              *)
CycleMark ==
  /\ kpc = "mark" /\ ~fault
  /\ IF Allocated(kptr) /\ Allocated(current)
     THEN /\ usr_foreground' = [usr_foreground EXCEPT ![kptr] = TRUE]
          /\ kpc' = "idle"
          /\ kptr' = NULL /\ choice' = NULL
          /\ UNCHANGED <<ring, never_select, last_priority, current, switching, fault>>
     ELSE Fault

Keyboard == CycleSkip \/ CycleLand \/ CycleLoad \/ CycleMark

Stopped == fault /\ UNCHANGED vars

Next ==
  \/ \E n \in Node : LcdnodeAdd(n) \/ LcdnodeRemove(n)
  \/ \E n \in Client : NeverSelect(n) \/ RequestPriority(n) \/ RefreshAfterSwitch(n)
  \/ CycleBegin
  \/ Keyboard
  \/ Stopped

Spec == Init /\ [][Next]_vars

(* The keyboard thread is never stopped for good by the scheduler; nobody  *)
(* has to connect, disconnect or press a key.                              *)
FairSpec == Spec /\ WF_vars(Keyboard)
=============================================================================
