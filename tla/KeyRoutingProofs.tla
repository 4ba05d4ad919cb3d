-------------------------- MODULE KeyRoutingProofs ---------------------------
(***************************************************************************)
(* Proof that the key handler is always a connected client and that every  *)
(* key goes once to everyone it concerns, for any number of clients,       *)
(* sockets and keys.                                                       *)
(***************************************************************************)
EXTENDS KeyRoutingProps, TLAPS

(* Only what the connections do matters. *)
NetTypes ==
  /\ remote_keyhandler_sock \in Fd \cup {0}
  /\ connection \in [Client -> Fd \cup {0}]
  /\ socket \in [Fd -> Client \cup {Clock}]
  /\ cpc \in [Client -> {"gone", "accepted", "added", "serving", "orphan", "clear", "close", "closed"}]

HasSocket ==
  \A c \in Client : cpc[c] \in {"accepted", "added"} => \E f \in Fd : socket[f] = c

Connected ==
  \A c \in Client : cpc[c] \in {"serving", "clear", "close"} =>
    connection[c] \in Fd /\ socket[connection[c]] = c

NetInv == NetTypes /\ HasSocket /\ Connected /\ HandlerIsConnected

(* What TakeOver, ClearHandler and the steps of a connection change.       *)
netstate == <<remote_keyhandler_sock, net>>

LEMMA NetInit == Init => NetInv
<1> SUFFICES ASSUME Init PROVE NetInv
  OBVIOUS
<1>1. NetTypes
  BY DEF Init, NetTypes, Nobody
<1>2. HasSocket /\ Connected /\ HandlerIsConnected
  BY DEF Init, HasSocket, Connected, HandlerIsConnected
<1> QED
  BY <1>1, <1>2 DEF NetInv

(* The number a connection waiting to be served will get.                  *)
LEMMA FdOfWaiting ==
  ASSUME NEW c \in Client, HasSocket, cpc[c] \in {"accepted", "added"}
  PROVE  FdOf(c) \in Fd /\ socket[FdOf(c)] = c
BY DEF HasSocket, FdOf

(* A step that changes neither a connection nor the handler.               *)
LEMMA NetUntouched ==
  ASSUME NetInv, UNCHANGED netstate
  PROVE  NetInv'
BY DEF NetInv, netstate, net, NetTypes, HasSocket, Connected, HandlerIsConnected

(* Another connection than the one that takes a step stays what it was.    *)
LEMMA NetElsewhere ==
  ASSUME NEW c \in Client, NEW place, NetTypes,
         cpc' = [cpc EXCEPT ![c] = place]
  PROVE  /\ cpc'[c] = place
         /\ \A other \in Client \ {c} : cpc'[other] = cpc[other]
BY DEF NetTypes

LEMMA AcceptKeeps ==
  ASSUME NEW c \in Client, NetInv, Accept(c)
  PROVE  NetInv'
<1> USE DEF NetInv, Accept, Moves, Unhandled
<1>1. PICK f \in Closed : socket' = [socket EXCEPT ![f] = c]
  OBVIOUS
<1>2. f \in Fd /\ socket[f] = Clock /\ Clock \notin Client
  BY <1>1, KeyAssumption DEF Closed
<1>3. /\ cpc'[c] = "accepted"
      /\ \A other \in Client \ {c} : cpc'[other] = cpc[other]
  BY NetElsewhere
<1>4. /\ socket'[f] = c
      /\ \A g \in Fd \ {f} : socket'[g] = socket[g]
  BY <1>1, <1>2 DEF NetTypes
<1>5. UNCHANGED <<remote_keyhandler_sock, connection>>
  OBVIOUS
<1>6. NetTypes'
  BY <1>1, <1>2, <1>5 DEF NetTypes
<1>7. HasSocket'
  <2> SUFFICES ASSUME NEW d \in Client, cpc'[d] \in {"accepted", "added"}
               PROVE  \E g \in Fd : socket'[g] = d
    BY DEF HasSocket
  <2>1. CASE d = c
    BY <2>1, <1>2, <1>4
  <2>2. CASE d # c
    <3>1. PICK g \in Fd : socket[g] = d
      BY <2>2, <1>3 DEF HasSocket
    <3>2. g # f
      BY <3>1, <1>2
    <3> QED
      BY <3>1, <3>2, <1>4
  <2> QED
    BY <2>1, <2>2
<1>8. Connected'
  BY <1>2, <1>3, <1>4, <1>5 DEF Connected
<1>9. HandlerIsConnected'
  BY <1>2, <1>3, <1>4, <1>5 DEF HandlerIsConnected, NetTypes
<1> QED
  BY <1>6, <1>7, <1>8, <1>9

LEMMA AddKeeps ==
  ASSUME NEW c \in Client, NetInv, Add(c)
  PROVE  NetInv'
<1> USE DEF NetInv, Add, Moves, Unhandled
<1>1. /\ cpc'[c] = "added"
      /\ \A other \in Client \ {c} : cpc'[other] = cpc[other]
  BY NetElsewhere
<1>2. UNCHANGED <<remote_keyhandler_sock, connection, socket>>
  OBVIOUS
<1>3. NetTypes'
  BY <1>2 DEF NetTypes
<1>4. HasSocket' /\ Connected'
  BY <1>1, <1>2 DEF HasSocket, Connected
<1>5. HandlerIsConnected'
  BY <1>1, <1>2 DEF HandlerIsConnected
<1> QED
  BY <1>3, <1>4, <1>5

LEMMA ServeKeeps ==
  ASSUME NEW c \in Client, NetInv, Serve(c)
  PROVE  NetInv'
<1> USE DEF NetInv, Serve, Moves
<1>1. FdOf(c) \in Fd /\ socket[FdOf(c)] = c
  BY FdOfWaiting
<1>2. /\ cpc'[c] = "serving"
      /\ \A other \in Client \ {c} : cpc'[other] = cpc[other]
  BY NetElsewhere
<1>3. /\ connection'[c] = FdOf(c)
      /\ \A other \in Client \ {c} : connection'[other] = connection[other]
  BY DEF NetTypes
<1>4. UNCHANGED <<remote_keyhandler_sock, socket>>
  OBVIOUS
<1>5. NetTypes'
  BY <1>1, <1>4 DEF NetTypes
<1>6. HasSocket' /\ Connected'
  BY <1>1, <1>2, <1>3, <1>4 DEF HasSocket, Connected
<1>7. HandlerIsConnected'
  BY <1>2, <1>3, <1>4 DEF HandlerIsConnected
<1> QED
  BY <1>5, <1>6, <1>7

(* Both ways to close a socket: number f, of client c, which is neither    *)
(* served nor about to be.                                                 *)
LEMMA ClosingKeeps ==
  ASSUME NEW c \in Client, NEW f \in Fd, NetInv,
         socket[f] = c, socket' = [socket EXCEPT ![f] = Clock],
         cpc'[c] \in {"orphan", "closed"}, cpc[c] \notin {"serving", "clear"},
         cpc' \in [Client -> {"gone", "accepted", "added", "serving", "orphan",
                              "clear", "close", "closed"}],
         \A other \in Client \ {c} :
           cpc'[other] = cpc[other] /\ connection'[other] = connection[other],
         connection' \in [Client -> Fd \cup {0}],
         UNCHANGED remote_keyhandler_sock
  PROVE  NetInv'
<1> USE DEF NetInv
<1>1. \A g \in Fd : socket[g] # c => socket'[g] = socket[g]
  BY DEF NetTypes
<1>2. NetTypes'
  BY DEF NetTypes
<1>3. HasSocket'
  BY <1>1 DEF HasSocket
<1>4. Connected'
  BY <1>1 DEF Connected
<1>5. HandlerIsConnected'
  BY <1>1 DEF HandlerIsConnected, NetTypes
<1> QED
  BY <1>2, <1>3, <1>4, <1>5

LEMMA NoThreadKeeps ==
  ASSUME NEW c \in Client, NetInv, NoThread(c)
  PROVE  NetInv'
<1> USE DEF NetInv, NoThread, Moves, Unhandled
<1>1. FdOf(c) \in Fd /\ socket[FdOf(c)] = c
  BY FdOfWaiting
<1>2. /\ cpc'[c] = "orphan"
      /\ \A other \in Client \ {c} : cpc'[other] = cpc[other]
  BY NetElsewhere
<1>3. \A other \in Client \ {c} : connection'[other] = connection[other]
  BY DEF NetTypes
<1>4. connection' \in [Client -> Fd \cup {0}]
  BY <1>1 DEF NetTypes
<1>5. cpc' \in [Client -> {"gone", "accepted", "added", "serving", "orphan",
                           "clear", "close", "closed"}]
  BY DEF NetTypes
<1> QED
  BY <1>1, <1>2, <1>3, <1>4, <1>5, ClosingKeeps

LEMMA CloseKeeps ==
  ASSUME NEW c \in Client, NetInv, Close(c)
  PROVE  NetInv'
<1> USE DEF NetInv, Close, Moves, Unhandled
<1>1. connection[c] \in Fd /\ socket[connection[c]] = c
  BY DEF Connected
<1>2. /\ cpc'[c] = "closed"
      /\ \A other \in Client \ {c} : cpc'[other] = cpc[other]
  BY NetElsewhere
<1>3. cpc' \in [Client -> {"gone", "accepted", "added", "serving", "orphan",
                           "clear", "close", "closed"}]
  BY DEF NetTypes
<1>4. connection' \in [Client -> Fd \cup {0}]
  BY DEF NetTypes
<1> QED
  BY <1>1, <1>2, <1>3, <1>4, ClosingKeeps

LEMMA TakeOverKeeps ==
  ASSUME NEW c \in Client, NetInv, TakeOver(c)
  PROVE  NetInv'
<1> USE DEF NetInv, TakeOver, Serving, net
<1>1. connection[c] \in Fd /\ socket[connection[c]] = c
  BY DEF Connected
<1>2. NetTypes' /\ HasSocket' /\ Connected'
  BY <1>1 DEF NetTypes, HasSocket, Connected
<1>3. HandlerIsConnected'
  BY <1>1 DEF HandlerIsConnected
<1> QED
  BY <1>2, <1>3

(* The comparison under which a client that goes away leaves the handler   *)
(* alone is why the handler can only be another client.                    *)
LEMMA ExitKeeps ==
  ASSUME NEW c \in Client, NetInv, Exit(c)
  PROVE  NetInv'
<1> USE DEF NetInv, Exit, Moves, Unhandled
<1>1. /\ cpc'[c] = (IF remote_keyhandler_sock = connection[c] THEN "clear" ELSE "close")
      /\ \A other \in Client \ {c} : cpc'[other] = cpc[other]
  BY NetElsewhere
<1>2. UNCHANGED <<remote_keyhandler_sock, connection, socket>>
  OBVIOUS
<1>3. NetTypes'
  BY <1>2 DEF NetTypes
<1>4. HasSocket' /\ Connected'
  BY <1>1, <1>2 DEF HasSocket, Connected
<1>5. HandlerIsConnected'
  BY <1>1, <1>2 DEF HandlerIsConnected
<1> QED
  BY <1>3, <1>4, <1>5

LEMMA ClearHandlerKeeps ==
  ASSUME NEW c \in Client, NetInv, ClearHandler(c)
  PROVE  NetInv'
<1> USE DEF NetInv, ClearHandler, Moves
<1>1. /\ cpc'[c] = "close"
      /\ \A other \in Client \ {c} : cpc'[other] = cpc[other]
  BY NetElsewhere
<1>2. NetTypes'
  BY DEF NetTypes
<1>3. HasSocket' /\ Connected'
  BY <1>1 DEF HasSocket, Connected
<1>4. HandlerIsConnected'
  BY DEF HandlerIsConnected
<1> QED
  BY <1>2, <1>3, <1>4

LEMMA RemoveKeeps ==
  ASSUME NEW c \in Client, NEW heir, NetInv, Remove(c, heir)
  PROVE  NetInv'
<1> USE DEF NetInv, Remove, Moves, Unhandled
<1>1. /\ cpc'[c] = "gone"
      /\ \A other \in Client \ {c} : cpc'[other] = cpc[other]
  BY NetElsewhere
<1>2. /\ connection' \in [Client -> Fd \cup {0}]
      /\ \A other \in Client \ {c} : connection'[other] = connection[other]
  BY DEF NetTypes
<1>3. UNCHANGED <<remote_keyhandler_sock, socket>>
  OBVIOUS
<1>4. NetTypes'
  BY <1>2, <1>3 DEF NetTypes
<1>5. HasSocket' /\ Connected'
  BY <1>1, <1>2, <1>3 DEF HasSocket, Connected
<1>6. HandlerIsConnected'
  BY <1>1, <1>2, <1>3 DEF HandlerIsConnected
<1> QED
  BY <1>4, <1>5, <1>6

(* The keyboard thread and the user read the connections and no more.      *)
LEMMA KeyboardKeeps ==
  ASSUME NetInv, Keyboard
  PROVE  NetInv'
<1>1. UNCHANGED netstate
  BY DEF Keyboard, ReadKeys, Listener, OsHandler, RemoteHandler, Click, CycleScreens,
         AppPress, AppRelease, AppKey, EventDone, Fault, netstate
<1> QED
  BY <1>1, NetUntouched

LEMMA NetStep == NetInv /\ [Next]_vars => NetInv'
<1> SUFFICES ASSUME NetInv, [Next]_vars PROVE NetInv'
  OBVIOUS
<1>1. CASE \E k \in Key : Press(k) \/ Release(k)
  BY <1>1, NetUntouched DEF Press, Release, netstate
<1>2. CASE HalfSecond
  BY <1>2, NetUntouched DEF HalfSecond, netstate
<1>3. ASSUME NEW c \in Client, Connection(c) PROVE NetInv'
  <2>1. ASSUME NEW s \in Client \cup {Clock}, SwitchPriorities(c, s) PROVE NetInv'
    BY <2>1, NetUntouched DEF SwitchPriorities, Unhandled, netstate
  <2> QED
    BY <1>3, <2>1, AcceptKeeps, AddKeeps, ServeKeeps, NoThreadKeeps, TakeOverKeeps,
       ExitKeeps, ClearHandlerKeeps, CloseKeeps, RemoveKeeps DEF Connection
<1>4. CASE Keyboard
  BY <1>4, KeyboardKeeps
<1>5. CASE UNCHANGED vars
  BY <1>5, NetUntouched DEF vars, netstate
<1> QED
  BY <1>1, <1>2, <1>3, <1>4, <1>5 DEF Next, Stopped

(* For any number of clients and sockets: the client that handles all keys *)
(* is connected and has not come to the end of its thread.                 *)
THEOREM HandlerAlwaysConnected == Spec => []HandlerIsConnected
<1>1. NetInv => HandlerIsConnected
  BY DEF NetInv
<1> QED
  BY NetInit, NetStep, <1>1, PTL DEF Spec
-----------------------------------------------------------------------------
(* Where a key press goes.  Added to the connections: an open socket is of *)
(* a client that waits for its thread or has one, and of one only.         *)
Sockets ==
  /\ \A f \in Fd : socket[f] \in Client =>
       cpc[socket[f]] \in {"accepted", "added", "serving", "clear", "close"}
  /\ \A f, g \in Fd : socket[f] \in Client /\ socket[f] = socket[g] => f = g

(* What is true of an event, place by place of the keyboard thread: what   *)
(* was sent so far, and to whom a key still has to go.                     *)
ToHandlerYet == remote_keyhandler_sock # 0 => got[socket[remote_keyhandler_sock]] = 0
SentToCaller ==
  caller \in Client /\ cpc[caller] = "serving" /\ connection[caller] # remote_keyhandler_sock
    => got[caller] = 1

Event ==
  /\ kpc \in {"idle", "event"} => got = Nobody /\ ~osGot
  /\ kpc = "idle" => ~raced
  /\ kpc \in {"os", "remote"} => ~CycleBranch
  /\ kpc \in {"os", "remote", "appkey"} => got \in [Client -> 0 .. 1]
  /\ kpc = "os" => ~osGot
  /\ kpc \in {"os", "remote"} /\ ~raced => ToHandlerYet /\ SentToCaller
  /\ kpc = "remote" /\ ~raced => (osGot <=> remote_keyhandler_sock = 0)

(* The times of the cycle key: a key that is down for long since it was    *)
(* seen last was down for long since it was pressed.                       *)
Times ==
  /\ clickLong /\ L1 \in lastkeys => heldLong
  /\ kpc = "done" /\ L1 \in value => ~clickLong
  /\ kpc = "appkey" => L1 \notin value /\ L1 \in lastkeys

KeyInv == TypeOK /\ NetInv /\ Sockets /\ Event /\ EveryKeyOnce /\ Times

LEMMA KeyInit == Init => KeyInv
<1> SUFFICES ASSUME Init PROVE KeyInv
  OBVIOUS
<1>1. NetInv
  BY NetInit
<1>2. TypeOK
  <2>1. got \in [Client -> 0 .. 2] /\ connection \in [Client -> Fd \cup {0}]
    BY DEF Init, Nobody
  <2> QED
    BY <2>1 DEF Init, TypeOK, Visible
<1>3. Sockets
  BY KeyAssumption DEF Init, Sockets
<1>4. Event /\ EveryKeyOnce /\ Times
  BY DEF Init, Event, EveryKeyOnce, Times
<1> QED
  BY <1>1, <1>2, <1>3, <1>4 DEF KeyInv

(* What no step of the keyboard thread or the user does.                   *)
LEMMA SocketsUntouched ==
  ASSUME Sockets, UNCHANGED net
  PROVE  Sockets'
BY DEF Sockets, net

(* Only connecting opens a socket, and only the end of a connection, or of *)
(* the attempt to serve it, closes one.                                    *)
LEMMA ConnectionKeepsSockets ==
  ASSUME KeyInv, NEW c \in Client, Connection(c)
  PROVE  Sockets'
<1> USE KeyAssumption DEF KeyInv, NetInv, Moves, Unhandled
<1>1. CASE Accept(c)
  <2>1. PICK f \in Closed : socket' = [socket EXCEPT ![f] = c]
    BY <1>1 DEF Accept
  <2>2. \A g \in Fd : socket[g] # c
    BY <1>1 DEF Accept, Sockets
  <2>3. f \in Fd /\ socket'[f] = c /\ \A g \in Fd \ {f} : socket'[g] = socket[g]
    BY <2>1 DEF Closed, NetTypes
  <2>4. cpc'[c] = "accepted" /\ \A d \in Client \ {c} : cpc'[d] = cpc[d]
    BY <1>1 DEF Accept, NetTypes
  <2>5. \A g \in Fd : socket'[g] \in Client =>
          cpc'[socket'[g]] \in {"accepted", "added", "serving", "clear", "close"}
    <3>1. ASSUME NEW g \in Fd \ {f}, socket'[g] \in Client
          PROVE  cpc'[socket'[g]] \in {"accepted", "added", "serving", "clear", "close"}
      <4>1. socket[g] \in Client \ {c} /\ socket'[g] = socket[g]
        BY <2>2, <2>3, <3>1
      <4> QED
        BY <2>4, <4>1 DEF Sockets
    <3> QED
      BY <2>3, <2>4, <3>1
  <2>6. \A g, h \in Fd : socket'[g] \in Client /\ socket'[g] = socket'[h] => g = h
    BY <2>2, <2>3 DEF Sockets
  <2> QED
    BY <2>5, <2>6 DEF Sockets
<1>2. CASE Add(c) \/ Serve(c) \/ Exit(c) \/ ClearHandler(c)
  <2>1. UNCHANGED socket
    BY <1>2 DEF Add, Serve, Exit, ClearHandler
  <2>2. /\ cpc'[c] \in {"added", "serving", "clear", "close"}
        /\ \A d \in Client \ {c} : cpc'[d] = cpc[d]
    BY <1>2 DEF Add, Serve, Exit, ClearHandler, NetTypes
  <2> QED
    BY <2>1, <2>2 DEF Sockets
<1>3. CASE NoThread(c) \/ Close(c)
  <2>1. PICK f \in Fd : socket[f] = c /\ socket' = [socket EXCEPT ![f] = Clock]
    BY <1>3, FdOfWaiting DEF NoThread, Close, Connected
  <2>2. \A d \in Client \ {c} : cpc'[d] = cpc[d]
    BY <1>3 DEF NoThread, Close, NetTypes
  <2>3. socket'[f] = Clock /\ \A g \in Fd \ {f} : socket'[g] = socket[g]
    BY <2>1 DEF NetTypes
  <2>4. \A g \in Fd : socket'[g] \in Client =>
          cpc'[socket'[g]] \in {"accepted", "added", "serving", "clear", "close"}
    <3> SUFFICES ASSUME NEW g \in Fd, socket'[g] \in Client
                 PROVE  cpc'[socket'[g]] \in {"accepted", "added", "serving", "clear", "close"}
      OBVIOUS
    <3>1. g # f /\ socket[g] = socket'[g] /\ socket[g] # c
      BY <2>1, <2>3 DEF Sockets
    <3> QED
      BY <2>2, <3>1 DEF Sockets
  <2>5. \A g, h \in Fd : socket'[g] \in Client /\ socket'[g] = socket'[h] => g = h
    BY <2>3 DEF Sockets
  <2> QED
    BY <2>4, <2>5 DEF Sockets
<1>4. CASE TakeOver(c)
  BY <1>4, SocketsUntouched DEF TakeOver
<1>5. ASSUME NEW s \in Client \cup {Clock}, SwitchPriorities(c, s)
      PROVE  Sockets'
  BY <1>5, SocketsUntouched DEF SwitchPriorities
<1>6. ASSUME NEW s \in Client \cup {Clock}, Remove(c, s)
      PROVE  Sockets'
  <2>1. \A f \in Fd : socket[f] # c
    BY <1>6 DEF Remove, Sockets
  <2>2. UNCHANGED socket /\ \A d \in Client \ {c} : cpc'[d] = cpc[d]
    BY <1>6 DEF Remove, NetTypes
  <2> QED
    BY <2>1, <2>2 DEF Sockets
<1> QED
  BY <1>1, <1>2, <1>3, <1>4, <1>5, <1>6 DEF Connection

(* A screen on display stays in the list: it is handed on before it goes.  *)
LEMMA ConnectionKeepsTypes ==
  ASSUME KeyInv, NetInv', NEW c \in Client, Connection(c)
  PROVE  TypeOK'
<1> USE KeyAssumption DEF KeyInv, NetInv, NetTypes, Moves, Unhandled, watch, sinks, keyboard
<1>1. current' \in Visible'
  <2>1. CASE Accept(c) \/ Add(c) \/ Serve(c) \/ NoThread(c) \/ Exit(c) \/ ClearHandler(c) \/ Close(c)
    BY <2>1 DEF Accept, Add, Serve, NoThread, Exit, ClearHandler, Close, Visible, TypeOK
  <2>2. CASE TakeOver(c)
    BY <2>2 DEF TakeOver, Visible, TypeOK, net
  <2>3. ASSUME NEW s \in Client \cup {Clock}, SwitchPriorities(c, s)
        PROVE  current' \in Visible'
    BY <2>3 DEF SwitchPriorities, Visible, net
  <2>4. ASSUME NEW s \in Client \cup {Clock}, Remove(c, s)
        PROVE  current' \in Visible'
    BY <2>4 DEF Remove, Visible, TypeOK
  <2> QED
    BY <2>1, <2>2, <2>3, <2>4 DEF Connection
<1>2. UNCHANGED <<keyboard, watch, sinks, fault>> /\ raced' \in BOOLEAN
  BY DEF Connection, Accept, Add, Serve, NoThread, Exit, ClearHandler, Close, TakeOver,
         SwitchPriorities, Remove, TypeOK
<1> QED
  BY <1>1, <1>2 DEF TypeOK

(* An event is disturbed by no connection that comes or goes, unless it    *)
(* sets a connection or the key handler: then raced says so.               *)
LEMMA ConnectionKeepsEvent ==
  ASSUME KeyInv, NetInv', NEW c \in Client, Connection(c)
  PROVE  Event' /\ EveryKeyOnce' /\ Times'
<1> USE KeyAssumption DEF KeyInv, NetInv, watch, sinks, keyboard
<1>1. UNCHANGED <<keyboard, watch, sinks>>
  BY DEF Connection, Accept, Add, Serve, NoThread, Exit, ClearHandler, Close, TakeOver,
         SwitchPriorities, Remove, Unhandled
<1>2. Times'
  BY <1>1 DEF Times
<1>3. CASE Serve(c) \/ TakeOver(c) \/ ClearHandler(c)
  <2>1. raced' = (kpc # "idle")
    BY <1>3 DEF Serve, TakeOver, ClearHandler
  <2> QED
    BY <1>1, <1>2, <2>1 DEF Event, EveryKeyOnce, CycleBranch
<1>4. ASSUME UNCHANGED <<raced, remote_keyhandler_sock>>,
             remote_keyhandler_sock # 0 =>
               socket'[remote_keyhandler_sock] = socket[remote_keyhandler_sock],
             \A d \in Client : cpc'[d] = "serving" =>
               cpc[d] = "serving" /\ connection'[d] = connection[d]
      PROVE  Event' /\ EveryKeyOnce'
  BY <1>1, <1>4 DEF Event, EveryKeyOnce, CycleBranch, ToHandlerYet, SentToCaller
<1> HIDE DEF KeyInv
<1>5. CASE Accept(c)
  <2> QED
    BY <1>2, <1>4, <1>5 DEF Accept, Moves, Unhandled, NetTypes, Closed, HandlerIsConnected, KeyInv
<1>6. CASE Add(c) \/ Exit(c)
  BY <1>2, <1>4, <1>6 DEF Add, Exit, Moves, Unhandled, NetTypes, KeyInv
<1>7. CASE NoThread(c) \/ Close(c)
  BY <1>2, <1>4, <1>7, FdOfWaiting
     DEF NoThread, Close, Moves, Unhandled, NetTypes, HandlerIsConnected, Connected, KeyInv
<1>8. ASSUME NEW s \in Client \cup {Clock}, SwitchPriorities(c, s) \/ Remove(c, s)
      PROVE  Event' /\ EveryKeyOnce' /\ Times'
  BY <1>2, <1>4, <1>8 DEF SwitchPriorities, Remove, Moves, Unhandled, NetTypes, net, KeyInv
<1> QED
  BY <1>3, <1>5, <1>6, <1>7, <1>8, <1>2 DEF Connection

-----------------------------------------------------------------------------
(* The user moves keys and lets time go by, and no event notices.          *)
LEMMA UserKeeps ==
  ASSUME KeyInv, (\E k \in Key : Press(k) \/ Release(k)) \/ HalfSecond
  PROVE  TypeOK' /\ Sockets' /\ Event' /\ EveryKeyOnce' /\ Times'
<1> USE DEF KeyInv, net, watch, sinks
<1>1. /\ pressed' \subseteq Key
      /\ heldLong' \in BOOLEAN /\ clickLong' \in BOOLEAN
      /\ UNCHANGED <<current, remote_keyhandler_sock, net, watch, sinks, raced, fault>>
  BY DEF Press, Release, HalfSecond, TypeOK
<1>2. TypeOK'
  BY <1>1 DEF TypeOK, Visible
<1>3. Sockets'
  BY <1>1, SocketsUntouched
<1>4. Event' /\ EveryKeyOnce'
  BY <1>1 DEF Event, EveryKeyOnce, CycleBranch, ToHandlerYet, SentToCaller
<1>5. Times'
  BY DEF Times, Press, Release, HalfSecond
<1> QED
  BY <1>2, <1>3, <1>4, <1>5

(* What one delivery does to the counts.                                   *)
LEMMA Delivers ==
  ASSUME TypeOK, NEW f, Deliver(f), NEW n \in {0, 1}, got \in [Client -> 0 .. n]
  PROVE  /\ got' \in [Client -> 0 .. n + 1]
         /\ \A c \in Client : got'[c] = IF f \in Fd /\ socket[f] = c THEN got[c] + 1 ELSE got[c]
BY DEF Deliver, TypeOK

(* The screen on display gets the event before the kernel and the key      *)
(* handler do, and unless it is the key handler itself.                    *)
LEMMA ListenerKeeps ==
  ASSUME KeyInv, Listener, caller \in Visible
  PROVE  TypeOK' /\ Event' /\ EveryKeyOnce' /\ Times'
<1> USE KeyAssumption DEF KeyInv, NetInv, Listener, At
<1> DEFINE f == IF caller \in Client /\ remote_keyhandler_sock # connection[caller]
                THEN connection[caller] ELSE 0
<1>1. got = Nobody /\ got \in [Client -> 0 .. 0] /\ Deliver(f)
  BY DEF Event, ServerEvents, Nobody
<1>2. /\ got' \in [Client -> 0 .. 1]
      /\ \A c \in Client : got'[c] = IF f \in Fd /\ socket[f] = c THEN 1 ELSE 0
  BY <1>1, Delivers DEF Nobody
<1> HIDE DEF f
<1>3. /\ kpc' = "os"
      /\ UNCHANGED <<keyboard, current, remote_keyhandler_sock, net, caller, value, lastkeys,
                     osKeys, osGot, raced, fault>>
  OBVIOUS
<1>4. TypeOK'
  BY <1>2, <1>3 DEF TypeOK, Visible, net, keyboard
<1>5. ToHandlerYet'
  <2> SUFFICES ASSUME remote_keyhandler_sock # 0
               PROVE  got'[socket[remote_keyhandler_sock]] = 0
    BY <1>3 DEF ToHandlerYet, net
  <2>1. /\ remote_keyhandler_sock \in Fd
        /\ socket[remote_keyhandler_sock] \in Client
    BY DEF HandlerIsConnected, NetTypes
  <2>2. f # remote_keyhandler_sock
    BY DEF f
  <2>3. ~(f \in Fd /\ socket[f] = socket[remote_keyhandler_sock])
    BY <2>1, <2>2 DEF Sockets
  <2> QED
    BY <1>2, <2>1, <2>3
<1>6. SentToCaller'
  <2> SUFFICES ASSUME caller \in Client, cpc[caller] = "serving",
                      connection[caller] # remote_keyhandler_sock
               PROVE  got'[caller] = 1
    BY <1>3 DEF SentToCaller, net
  <2>1. f \in Fd /\ socket[f] = caller
    BY DEF f, Connected
  <2> QED
    BY <1>2, <2>1
<1>7. Event'
  BY <1>2, <1>3, <1>5, <1>6 DEF Event, CycleBranch
<1>8. EveryKeyOnce' /\ Times'
  BY <1>3 DEF EveryKeyOnce, Times, keyboard
<1> QED
  BY <1>4, <1>7, <1>8

(* The key handler gets the event last, and is not whoever was on display  *)
(* and got it already.                                                     *)
LEMMA RemoteHandlerKeeps ==
  ASSUME KeyInv, RemoteHandler, caller \in Visible
  PROVE  TypeOK' /\ Event' /\ EveryKeyOnce' /\ Times'
<1> USE KeyAssumption DEF KeyInv, NetInv, RemoteHandler, At
<1> DEFINE h == remote_keyhandler_sock
<1>1. got \in [Client -> 0 .. 1] /\ Deliver(h)
  BY DEF Event
<1>2. /\ got' \in [Client -> 0 .. 2]
      /\ \A c \in Client : got'[c] = IF h \in Fd /\ socket[h] = c THEN got[c] + 1 ELSE got[c]
  BY <1>1, Delivers
<1>3. /\ kpc' = "done"
      /\ UNCHANGED <<keyboard, current, remote_keyhandler_sock, net, caller, value, lastkeys,
                     osKeys, osGot, raced, fault>>
  OBVIOUS
<1>4. TypeOK'
  BY <1>2, <1>3 DEF TypeOK, Visible, net, keyboard
<1>5. Event' /\ Times'
  BY <1>3 DEF Event, Times, CycleBranch
<1>6. EveryKeyOnce'
  <2> SUFFICES ASSUME ~raced
               PROVE  /\ osGot <=> h = 0
                      /\ \A c \in Client : got'[c] <= 1
                      /\ h # 0 => got'[socket[h]] = 1
                      /\ caller \in Client /\ cpc[caller] = "serving" => got'[caller] = 1
    BY <1>3 DEF EveryKeyOnce, net
  <2>1. osGot <=> h = 0
    BY DEF Event
  <2>2. ToHandlerYet /\ SentToCaller
    BY DEF Event
  <2>3. h # 0 => h \in Fd /\ socket[h] \in Client
    BY DEF HandlerIsConnected, NetTypes
  <2>4. (\A c \in Client : got'[c] <= 1) /\ (h # 0 => got'[socket[h]] = 1)
    BY <1>1, <1>2, <2>2, <2>3 DEF ToHandlerYet
  <2>5. ASSUME caller \in Client, cpc[caller] = "serving"
        PROVE  got'[caller] = 1
    <3>1. connection[caller] \in Fd /\ socket[connection[caller]] = caller
      BY <2>5 DEF Connected
    <3>2. CASE connection[caller] = h
      BY <2>4, <3>1, <3>2
    <3>3. CASE connection[caller] # h
      <4>1. got[caller] = 1
        BY <2>2, <2>5, <3>3 DEF SentToCaller
      <4>2. ~(h \in Fd /\ socket[h] = caller)
        BY <2>5, <3>1, <3>3 DEF Sockets
      <4> QED
        BY <1>2, <2>5, <4>1, <4>2
    <3> QED
      BY <3>2, <3>3
  <2> QED
    BY <2>1, <2>4, <2>5
<1> QED
  BY <1>4, <1>5, <1>6

(* The other places of the keyboard thread.                                *)
LEMMA AppKeyKeeps ==
  ASSUME KeyInv, AppPress \/ AppRelease, caller \in Visible
  PROVE  TypeOK' /\ Event' /\ EveryKeyOnce' /\ Times'
<1> USE DEF KeyInv, AppPress, AppRelease, AppKey, At, Unclick
<1> DEFINE f == IF caller \in Client /\ remote_keyhandler_sock # connection[caller]
                THEN connection[caller] ELSE 0
<1>1. Deliver(f)
  BY DEF ServerEvents
<1> HIDE DEF f
<1>2. UNCHANGED <<keyboard, current, remote_keyhandler_sock, net, caller, value, lastkeys,
                  osKeys, osGot, raced, fault>>
  OBVIOUS
<1>3. CASE AppPress
  <2>1. got \in [Client -> 0 .. 0] /\ kpc' = "appkey" /\ L1 \notin value /\ L1 \in lastkeys
    BY <1>3 DEF Event, Nobody
  <2>2. got' \in [Client -> 0 .. 1]
    BY <1>1, <2>1, Delivers
  <2> QED
    BY <1>2, <2>1, <2>2 DEF TypeOK, Visible, net, keyboard, Event, EveryKeyOnce, Times
<1>4. CASE AppRelease
  <2>1. got \in [Client -> 0 .. 1] /\ kpc' = "done" /\ kpc = "appkey" /\ L1 \notin value
    BY <1>4 DEF Event, Times
  <2>2. got' \in [Client -> 0 .. 2]
    BY <1>1, <2>1, Delivers
  <2>3. L1 \in lastkeys
    BY <1>4 DEF Times
  <2> QED
    BY <1>2, <2>1, <2>2, <2>3
       DEF TypeOK, Visible, net, keyboard, Event, EveryKeyOnce, Times, CycleBranch
<1> QED
  BY <1>3, <1>4

LEMMA OsHandlerKeeps ==
  ASSUME KeyInv, OsHandler, caller \in Visible
  PROVE  TypeOK' /\ Event' /\ EveryKeyOnce' /\ Times'
<1> USE DEF KeyInv, OsHandler, At
<1>1. /\ osGot' <=> remote_keyhandler_sock = 0
      /\ osKeys' \subseteq Key /\ osGot' \in BOOLEAN
  BY DEF Event, TypeOK
<1>2. /\ kpc = "os" /\ kpc' = "remote"
      /\ UNCHANGED <<keyboard, current, remote_keyhandler_sock, net, caller, value, lastkeys,
                     got, raced, fault>>
  OBVIOUS
<1>3. TypeOK'
  BY <1>1, <1>2 DEF TypeOK, Visible, net, keyboard
<1>4. Event'
  BY <1>1, <1>2 DEF Event, CycleBranch, ToHandlerYet, SentToCaller, net
<1>5. EveryKeyOnce' /\ Times'
  BY <1>2 DEF EveryKeyOnce, Times, keyboard
<1> QED
  BY <1>3, <1>4, <1>5

(* The steps that send nothing: the keys are read, the cycle key is seen,  *)
(* the display moves on, and the event ends.                               *)
LEMMA QuietKeeps ==
  ASSUME KeyInv, NEW s \in Client \cup {Clock},
         \/ ReadKeys \/ Click \/ EventDone
         \/ CycleScreens(s) /\ caller \in Visible
  PROVE  TypeOK' /\ Event' /\ EveryKeyOnce' /\ Times'
<1> USE DEF KeyInv, At
<1>1. CASE ReadKeys
  BY <1>1 DEF ReadKeys, TypeOK, Event, EveryKeyOnce, Times, Visible, net, keyboard, sinks
<1>2. CASE Click
  <2>1. TypeOK'
    BY <1>2 DEF Click, TypeOK, Visible, net, sinks
  <2>2. Event' /\ EveryKeyOnce' /\ Times'
    BY <1>2 DEF Click, Event, EveryKeyOnce, CycleBranch, Times
  <2> QED
    BY <2>1, <2>2
<1>3. CASE EventDone
  <2>1. Nobody \in [Client -> 0 .. 2]
    BY DEF Nobody
  <2>2. TypeOK'
    BY <1>3, <2>1 DEF EventDone, TypeOK, Visible, net, keyboard
  <2>3. Event' /\ EveryKeyOnce' /\ Times'
    BY <1>3 DEF EventDone, Event, EveryKeyOnce, Times, keyboard
  <2> QED
    BY <2>2, <2>3
<1>4. CASE CycleScreens(s) /\ caller \in Visible
  <2>1. TypeOK'
    BY <1>4 DEF CycleScreens, Unclick, TypeOK, Visible, net, keyboard, sinks
  <2>2. Event' /\ EveryKeyOnce' /\ Times'
    BY <1>4 DEF CycleScreens, Unclick, Event, EveryKeyOnce, CycleBranch, Times, keyboard
  <2> QED
    BY <2>1, <2>2
<1> QED
  BY <1>1, <1>2, <1>3, <1>4

(* A freed screen was used: nothing but fault changes.                     *)
LEMMA FaultKeeps ==
  ASSUME KeyInv, Fault
  PROVE  TypeOK' /\ Event' /\ EveryKeyOnce' /\ Times'
BY DEF Fault, KeyInv, TypeOK, Event, EveryKeyOnce, Times, CycleBranch, ToHandlerYet,
       SentToCaller, Visible, net, keyboard, watch, sinks

LEMMA KeyboardKeepsEvent ==
  ASSUME KeyInv, Keyboard
  PROVE  TypeOK' /\ Sockets' /\ Event' /\ EveryKeyOnce' /\ Times'
<1>1. UNCHANGED net
  BY DEF Keyboard, ReadKeys, Listener, OsHandler, RemoteHandler, Click, CycleScreens,
         AppPress, AppRelease, AppKey, EventDone, Fault
<1>2. Sockets'
  BY <1>1, SocketsUntouched DEF KeyInv
<1>3. CASE Fault
  BY <1>2, <1>3, FaultKeeps
<1>4. CASE ~Fault /\ (Listener \/ OsHandler \/ RemoteHandler \/ AppPress \/ AppRelease)
  <2>1. caller \in Visible
    BY <1>4 DEF Listener, OsHandler, RemoteHandler, AppPress, AppRelease, AppKey
  <2> QED
    BY <1>2, <1>4, <2>1, ListenerKeeps, OsHandlerKeeps, RemoteHandlerKeeps, AppKeyKeeps
<1>5. CASE ReadKeys \/ Click \/ EventDone
  BY <1>2, <1>5, QuietKeeps
<1>6. ASSUME NEW s \in Client \cup {Clock}, CycleScreens(s), ~Fault
      PROVE  TypeOK' /\ Event' /\ EveryKeyOnce' /\ Times'
  BY <1>6, QuietKeeps DEF CycleScreens
<1> QED
  BY <1>2, <1>3, <1>4, <1>5, <1>6 DEF Keyboard

LEMMA KeyStep == KeyInv /\ [Next]_vars => KeyInv'
<1> SUFFICES ASSUME KeyInv, [Next]_vars PROVE KeyInv'
  OBVIOUS
<1>1. NetInv'
  BY NetStep DEF KeyInv
<1>2. CASE (\E k \in Key : Press(k) \/ Release(k)) \/ HalfSecond
  BY <1>1, <1>2, UserKeeps DEF KeyInv
<1>3. ASSUME NEW c \in Client, Connection(c) PROVE KeyInv'
  BY <1>1, <1>3, ConnectionKeepsSockets, ConnectionKeepsTypes, ConnectionKeepsEvent DEF KeyInv
<1>4. CASE Keyboard
  BY <1>1, <1>4, KeyboardKeepsEvent DEF KeyInv
<1>5. CASE UNCHANGED vars
  BY <1>1, <1>5 DEF vars, KeyInv, TypeOK, Sockets, Event, EveryKeyOnce, Times, CycleBranch,
                    ToHandlerYet, SentToCaller, Visible, net, keyboard, watch, sinks
<1> QED
  BY <1>2, <1>3, <1>4, <1>5 DEF Next, Stopped

LEMMA KeyInvariance == Spec => []KeyInv
BY KeyInit, KeyStep, PTL DEF Spec

(* The screen on display is in the list whenever nobody is between two     *)
(* accesses to it, an open socket belongs to a client, and all the rest    *)
(* keeps to its kind.                                                      *)
THEOREM KeyRoutingTypes == Spec => []TypeOK
<1>1. KeyInv => TypeOK
  BY DEF KeyInv
<1> QED
  BY KeyInvariance, <1>1, PTL

(* However many clients connect and exit between its steps, the event goes *)
(* to the screen on display, to the key handler or else to the kernel, and *)
(* to nobody twice.                                                        *)
THEOREM KeysGoOnce == Spec => []EveryKeyOnce
<1>1. KeyInv => EveryKeyOnce
  BY DEF KeyInv
<1> QED
  BY KeyInvariance, <1>1, PTL

(* Whatever other keys move while it is down, a cycle key that was down    *)
(* for less than half a second is not sent to the screen.                  *)
THEOREM ShortPress == Spec => ShortPressStaysHere
<1>1. KeyInv /\ [Next]_vars => [kpc = "event" /\ kpc' = "appkey" => heldLong]_vars
  <2> SUFFICES ASSUME KeyInv, Next, kpc = "event", kpc' = "appkey"
               PROVE  heldLong
    OBVIOUS
  <2>1. ~(\E k \in Key : Press(k) \/ Release(k)) /\ ~HalfSecond /\ ~Stopped
    BY DEF Press, Release, HalfSecond, Stopped, vars, watch
  <2>2. ASSUME NEW c \in Client, Connection(c) PROVE FALSE
    BY <2>2 DEF Connection, Accept, Add, Serve, NoThread, TakeOver, Exit, ClearHandler, Close,
                SwitchPriorities, Remove, Unhandled, watch
  <2>3. Keyboard
    BY <2>1, <2>2 DEF Next
  <2>4. AppPress
    BY <2>3 DEF Keyboard, ReadKeys, Listener, OsHandler, RemoteHandler, Click, CycleScreens,
                AppRelease, AppKey, EventDone, Fault, At, watch
  <2> QED
    BY <2>4 DEF AppPress, Unclick, ClickedShort, KeyInv, Times
<1> QED
  BY KeyInvariance, <1>1, PTL DEF Spec, ShortPressStaysHere
==============================================================================
