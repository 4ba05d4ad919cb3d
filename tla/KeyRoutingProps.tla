--------------------------- MODULE KeyRoutingProps ---------------------------
(***************************************************************************)
(* What the delivery of keys must guarantee, stated over KeyRouting.       *)
(***************************************************************************)
EXTENDS KeyRouting

(* Every variable holds a value of its kind; the screen on display is in   *)
(* the list, and an open socket belongs to a client that has not closed it.*)
TypeOK ==
  /\ pressed \subseteq Key /\ heldLong \in BOOLEAN /\ clickLong \in BOOLEAN
  /\ current \in Visible
  /\ remote_keyhandler_sock \in Fd \cup {0}
  /\ connection \in [Client -> Fd \cup {0}]
  /\ socket \in [Fd -> Client \cup {Clock}]
  /\ cpc \in [Client -> {"gone", "accepted", "added", "serving", "orphan", "clear", "close", "closed"}]
  /\ kpc \in {"idle", "event", "os", "remote", "appkey", "done"}
  /\ caller \in Client \cup {Clock}
  /\ value \subseteq Key /\ lastkeys \subseteq Key /\ osKeys \subseteq Key
  /\ got \in [Client -> 0 .. 2] /\ osGot \in BOOLEAN
  /\ raced \in BOOLEAN /\ fault \in BOOLEAN

(* g15daemon.h:57: "If the client dies or exits, normal functions resume." *)
(* While remote_keyhandler_sock is set, it is the socket of a client that  *)
(* is connected and has not come to the end of its thread: keys are never  *)
(* kept from the kernel for the sake of a client that is gone, nor sent to *)
(* whoever got the number of its socket next.                              *)
HandlerIsConnected ==
  remote_keyhandler_sock # 0 =>
    \E c \in Client : /\ cpc[c] \in {"serving", "clear"}
                      /\ connection[c] = remote_keyhandler_sock
                      /\ socket[remote_keyhandler_sock] = c

(* An event that does not concern the cycle key, and during which nobody   *)
(* connects or changes the key handler, goes to the client on display, to  *)
(* the key handler if there is one, to the kernel if there is none, and to *)
(* nobody twice: not to a client that is both on display and the handler,  *)
(* nor to one whose socket number is that of a screen left behind.         *)
EveryKeyOnce ==
  kpc = "done" /\ ~CycleBranch /\ ~raced =>
    /\ osGot <=> remote_keyhandler_sock = 0
    /\ \A c \in Client : got[c] <= 1
    /\ remote_keyhandler_sock # 0 => got[socket[remote_keyhandler_sock]] = 1
    /\ caller \in Client /\ cpc[caller] = "serving" => got[caller] = 1

(* main.c:113: a press of the cycle key of less than half a second is      *)
(* never taken for a long one, whatever other keys move meanwhile.         *)
ShortPressStaysHere == [][kpc = "event" /\ kpc' = "appkey" => heldLong]_vars

-----------------------------------------------------------------------------
(* main.c:113: "If held for longer, the key is sent to the application for *)
(* use instead".                                                           *)
LongPressDoesNotCycle ==
  [][(\E s \in Client \cup {Clock} : CycleScreens(s)) => ~heldLong]_vars

(* g15daemon.h:55: "G15Daemon will not send any MR or G? keypresses via    *)
(* uinput, all M&G keys must be handled by the client.  If the client dies *)
(* or exits, normal functions resume": until it exits, a client that took  *)
(* over the keys keeps them unless another takes them from it.             *)
HandlerKeepsKeys ==
  [][\A c \in Client :
       /\ cpc[c] = "serving" /\ remote_keyhandler_sock = connection[c]
       /\ remote_keyhandler_sock' = 0
       => cpc'[c] # "serving"]_vars

(* g15daemon(1): "G15Daemon allows users access to all extra keys by       *)
(* decoding them and pushing them back into the kernel": a key that is     *)
(* down for the kernel is one the user holds, once all events are handled. *)
KernelKeysReleased ==
  kpc = "idle" /\ lastkeys = pressed => osKeys \subseteq pressed
==============================================================================
