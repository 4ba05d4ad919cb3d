--------------------------- MODULE ClientProtocol ---------------------------
(***************************************************************************)
(* One connection: the client library (libg15daemon_client/g15daemon_net.c)*)
(* and the thread that serves it (g15_plugin_net.c).                       *)
(*                                                                         *)
(* Frames and key presses travel in the stream, a frame in several pieces. *)
(* Commands and their answers are single out-of-band bytes of the stream.  *)
(* TCP keeps one urgent byte in each direction, which is read on its own   *)
(* and passed over where its place in the stream is reached.  The next one *)
(* makes ordinary data of it, whether it was read or not, if its place was *)
(* not reached yet: neither side sets SO_OOBINLINE, nor looks for the mark.*)
(* A command carries its number as history.                                *)
(***************************************************************************)
EXTENDS Naturals, SequencesExt

CONSTANTS
  Command,      \* the commands a client uses, out of CommandCode
  Value,        \* what it passes with them
  Buffer,       \* the types of screen it opens, first letter of what it sends
  Pieces,       \* pieces of a frame
  MaxFrames, MaxCommands, \* bounds: frames and commands of one connection
  MaxQueued     \* bound: what waits in the stream when a piece is sent

KEY_HANDLER == 16
MKEYLEDS == 32
CONTRAST == 64
BACKLIGHT == 128
KB_BACKLIGHT == 8
SWITCH == 112
FOREGROUND == 118
USER_SELECTED == 117
NEVER_SELECT == 110

CommandCode == {KEY_HANDLER, MKEYLEDS, CONTRAST, BACKLIGHT, KB_BACKLIGHT, SWITCH, FOREGROUND,
                USER_SELECTED, NEVER_SELECT}

VARIABLES
  cpc,       \* the client: "start", "connected", "ready", "failed", "closed"
  type,      \* the screen it opens
  frame, piece,   \* the frame it sends, and the pieces it has sent of it
  number,    \* commands sent so far
  waiting,   \* the command whose answer it waits for, 0 for none
  answered,  \* history: the number of the command whose answer g15_send_cmd returned last
  stream, urgent,    \* on the way to the daemon: the data, and the urgent byte not yet read
  mark,      \* the last urgent byte's place is before stream[mark]; 0 once it was passed
  answer, keys,      \* on the way to the client: an answer, and whether a key press waits
  spc,       \* the server thread: "helo", "type", "frame", "copy", "exit", "spin", "gone", "orphan"
  buf,       \* the pieces in tmpbuf
  shown,     \* the pieces in the screen's buffer
  reset,     \* the connection was reset
  eagain,    \* errno of the server thread is EAGAIN
  handled,   \* history: the number of the last command carried out, and what it was taken for
  late,      \* history: a wait for an answer has timed out
  overrun,   \* history: commands sent before their predecessor was read
  stray      \* history: a superseded urgent byte stayed in the stream

client  == <<cpc, type, frame, piece, number, waiting, answered>>
wire    == <<stream, urgent, mark, answer, keys>>
server  == <<spc, buf, shown, eagain, handled>>
pvars   == <<client, wire, server, reset, late, overrun, stray>>

None == [n |-> 0, byte |-> 0]

Init ==
  /\ cpc = "start" /\ type \in Buffer
  /\ frame = 0 /\ piece = 0 /\ number = 0 /\ waiting = 0 /\ answered = 0
  /\ stream = <<>> /\ urgent = None /\ mark = 0 /\ answer = 0 /\ keys = FALSE
  /\ spc = "helo" /\ buf = <<>> /\ shown = <<>>
  /\ reset = FALSE /\ eagain = FALSE
  /\ handled = [n |-> 0, cmd |-> 0, value |-> 0, sent |-> <<0, 0>>]
  /\ late = FALSE /\ overrun = {} /\ stray = FALSE

-----------------------------------------------------------------------------
(* The byte of a command, and what the daemon takes it for *)

AtMost(v, max) == IF v > max THEN max ELSE v

(* g15_send_cmd: values are limited to what the command knows; the value is*)
(* OR'd to a code whose bits it does not share.                            *)
Argument(cmd, v) ==
  IF cmd \in {CONTRAST, BACKLIGHT, KB_BACKLIGHT} THEN AtMost(v, 2)
  ELSE IF cmd = KEY_HANDLER THEN AtMost(v, 8)
  ELSE IF cmd = MKEYLEDS THEN v ELSE 0

Encode(cmd, v) == cmd + Argument(cmd, v)

Bit(byte, b) == (byte \div b) % 2 = 1

(* process_client_cmds: the letters first, then the bits one by one. *)
Decode(byte) ==
  IF byte \in {SWITCH, NEVER_SELECT, FOREGROUND, USER_SELECTED} THEN <<byte, 0>>
  ELSE LET order == <<MKEYLEDS, KEY_HANDLER, BACKLIGHT, KB_BACKLIGHT, CONTRAST>>
           first == CHOOSE i \in 1 .. 5 : /\ Bit(byte, order[i])
                                          /\ \A j \in 1 .. i - 1 : ~Bit(byte, order[j])
       IN <<order[first], byte - order[first]>>

(* The commands for whose answer the library waits, and those the daemon   *)
(* answers.                                                                *)
HasAnswer(cmd) == cmd \in {FOREGROUND, USER_SELECTED, BACKLIGHT, CONTRAST}

(* With a bug: one more. *)
AnsweredMore(cmd) == cmd \in {FOREGROUND, USER_SELECTED, BACKLIGHT, CONTRAST, KB_BACKLIGHT}

Answered(cmd) == cmd \in {FOREGROUND, USER_SELECTED, BACKLIGHT, CONTRAST}

-----------------------------------------------------------------------------
(* The client *)

Using == cpc = "ready"

(* new_g15_screen: HELO is read, the type of the screen sent. *)
NewScreen ==
  /\ cpc = "connected"
  /\ cpc' = "ready" /\ stream' = Append(stream, <<0, type>>)
  /\ UNCHANGED <<type, frame, piece, number, waiting, answered, urgent, mark, answer, keys,
                 server, reset, late, overrun, stray>>

(* new_g15_screen: the daemon closed the connection before HELO came. *)
NoHelo ==
  /\ cpc = "start" /\ spc = "orphan"
  /\ cpc' = "failed"
  /\ UNCHANGED <<type, frame, piece, number, waiting, answered, wire, server, reset, late,
                 overrun, stray>>

(* g15_send: what the socket takes of a frame, piece after piece. *)
SendPiece ==
  /\ Using /\ ~reset /\ spc # "gone" /\ Len(stream) < MaxQueued
  /\ frame < MaxFrames \/ piece # 0
  /\ LET f == IF piece = 0 THEN frame + 1 ELSE frame
     IN /\ stream' = Append(stream, <<f, piece + 1>>)
        /\ frame' = f
  /\ piece' = (piece + 1) % Pieces
  /\ UNCHANGED <<cpc, type, number, waiting, answered, urgent, mark, answer, keys, server, reset,
                 late, overrun, stray>>

(* The urgent byte before it becomes data, unless its place was passed; at *)
(* the place where the daemon reads it may vanish.                         *)
Stray(n) == <<n, 0>>

Supersede ==
  \/ /\ mark # 0
     /\ stream' = InsertAt(stream, mark, Stray(number)) /\ stray' = TRUE
  \/ /\ mark \in {0, 1}
     /\ UNCHANGED <<stream, stray>>

(* g15_send_cmd, up to the wait for an answer. *)
SendCmd(cmd, v) ==
  /\ Using /\ waiting = 0 /\ number < MaxCommands /\ ~reset /\ spc # "gone"
  /\ number' = number + 1
  /\ overrun' = IF urgent # None THEN overrun \cup {urgent.n} ELSE overrun
  /\ urgent' = [n |-> number', byte |-> Encode(cmd, v), sent |-> <<cmd, Argument(cmd, v)>>]
  /\ Supersede /\ mark' = Len(stream') + 1
  /\ waiting' = IF HasAnswer(cmd) THEN number' ELSE 0
  /\ UNCHANGED <<cpc, type, frame, piece, answered, answer, keys, server, reset, late>>

(* g15_recv_oob_answer: the byte that is there is the answer, ...          *)
RecvOobAnswer ==
  /\ waiting # 0 /\ answer # 0
  /\ answered' = answer /\ answer' = 0
  /\ waiting' = 0
  /\ UNCHANGED <<cpc, type, frame, piece, number, stream, urgent, mark, keys, server, reset, late,
                 overrun, stray>>

(* ... and after 100 ms, or when the connection is broken, there is none:  *)
(* what is returned then was never written.                                *)
NoAnswer ==
  /\ waiting # 0 /\ answer = 0
  /\ waiting' = 0 /\ late' = TRUE
  /\ UNCHANGED <<cpc, type, frame, piece, number, answered, wire, server, reset, overrun, stray>>

(* G15DAEMON_GET_KEYSTATE sends nothing: it reads the next key press.      *)
GetKeystate ==
  /\ Using /\ keys
  /\ keys' = FALSE
  /\ UNCHANGED <<client, stream, urgent, mark, answer, server, reset, late, overrun, stray>>

(* g15_close_screen, or the end of the program, in the middle of anything. *)
(* The system resets a connection with unread input: what is on its way is *)
(* lost.                                                                   *)
CloseScreen ==
  /\ cpc \in {"start", "connected", "ready"}
  /\ cpc' = "closed" /\ waiting' = 0
  /\ reset' = (keys \/ answer # 0)
  /\ IF reset' THEN stream' = <<>> /\ urgent' = None /\ mark' = 0
               ELSE UNCHANGED <<stream, urgent, mark>>
  /\ keys' = FALSE /\ answer' = 0
  /\ UNCHANGED <<type, frame, piece, number, answered, server, late, overrun, stray>>

-----------------------------------------------------------------------------
(* The server thread *)

ByServer == UNCHANGED <<client, reset, late, overrun, stray>>
Receiving == spc \in {"type", "frame"}

(* g15_clientconnect: no thread for the connection, which is closed; the   *)
(* screen stays.                                                           *)
NoThread ==
  /\ spc = "helo"
  /\ spc' = "orphan"
  /\ UNCHANGED <<wire, buf, shown, eagain, handled>> /\ ByServer

(* lcd_client_thread greets. *)
SendHelo ==
  /\ spc = "helo" /\ cpc = "start"
  /\ spc' = "type" /\ cpc' = "connected"
  /\ UNCHANGED <<type, frame, piece, number, waiting, answered, wire, buf, shown, eagain,
                 handled, reset, late, overrun, stray>>

(* The greeting fails: the client is gone already. *)
HeloFails ==
  /\ spc = "helo" /\ cpc = "closed"
  /\ spc' = "exit"
  /\ UNCHANGED <<wire, buf, shown, eagain, handled>> /\ ByServer

(* An answer nobody took and that another one follows stays among the key  *)
(* presses, or vanishes.                                                   *)
SupersededAnswer == keys' \in IF answer \in {0, answer'} THEN {keys} ELSE {keys, TRUE}

(* g15_recv takes an out-of-band byte before anything else. *)
(* With a bug: what comes inside a frame is read and forgotten. *)
RecvOobBetweenFrames ==
  /\ Receiving /\ ~reset /\ urgent # None
  /\ LET cmd == Decode(urgent.byte)
     IN IF buf = <<>>
        THEN /\ handled' = [n |-> urgent.n, cmd |-> cmd[1], value |-> cmd[2], sent |-> urgent.sent]
             /\ answer' = IF Answered(cmd[1]) /\ cpc # "closed" THEN urgent.n ELSE answer
        ELSE UNCHANGED <<handled, answer>>
  /\ urgent' = None
  /\ SupersededAnswer
  /\ UNCHANGED <<stream, mark, spc, buf, shown, eagain>> /\ ByServer

RecvOob ==
  /\ Receiving /\ ~reset /\ urgent # None
  /\ LET cmd == Decode(urgent.byte)
     IN /\ handled' = [n |-> urgent.n, cmd |-> cmd[1], value |-> cmd[2], sent |-> urgent.sent]
        /\ answer' = IF Answered(cmd[1]) /\ cpc # "closed" THEN urgent.n ELSE answer
  /\ urgent' = None
  /\ SupersededAnswer
  /\ UNCHANGED <<stream, mark, spc, buf, shown, eagain>> /\ ByServer

(* Reading goes past the mark. *)
PassMark == mark' = IF mark = 0 THEN 0 ELSE mark - 1

(* The type of the screen: text buffers are hung up on. *)
RecvType ==
  /\ spc = "type" /\ ~reset /\ urgent = None /\ stream # <<>>
  /\ spc' = IF Head(stream)[2] = "T" THEN "exit" ELSE "frame"
  /\ stream' = Tail(stream) /\ PassMark
  /\ UNCHANGED <<urgent, answer, keys, buf, shown, eagain, handled>> /\ ByServer

(* A piece of a frame; g15_recv returns when it has all of them. *)
(* With a bug: it returns as soon as it has something. *)
RecvSome ==
  /\ spc = "frame" /\ ~reset /\ urgent = None /\ stream # <<>>
  /\ buf' = Append(buf, Head(stream))
  /\ stream' = Tail(stream) /\ PassMark
  /\ spc' = "copy"
  /\ UNCHANGED <<urgent, answer, keys, shown, eagain, handled>> /\ ByServer

RecvPiece ==
  /\ spc = "frame" /\ ~reset /\ urgent = None /\ stream # <<>>
  /\ buf' = Append(buf, Head(stream))
  /\ stream' = Tail(stream) /\ PassMark
  /\ spc' = IF Len(buf') = Pieces THEN "copy" ELSE "frame"
  /\ UNCHANGED <<urgent, answer, keys, shown, eagain, handled>> /\ ByServer

(* poll announces input and recv finds none. *)
RecvNothing ==
  /\ Receiving /\ ~reset /\ urgent = None /\ stream = <<>> /\ cpc # "closed"
  /\ eagain' = TRUE
  /\ UNCHANGED <<wire, spc, buf, shown, handled>> /\ ByServer

(* The end of the stream: an incomplete frame ends the connection, but for *)
(* a wireless bitmap, of which any part will do.                           *)
RecvEof ==
  /\ Receiving /\ ~reset /\ urgent = None /\ stream = <<>> /\ cpc = "closed"
  /\ spc' = IF spc = "frame" /\ type = "W" /\ buf # <<>> THEN "copy" ELSE "exit"
  /\ UNCHANGED <<wire, buf, shown, eagain, handled>> /\ ByServer

(* A broken connection, unless errno still is EAGAIN: then the loop goes   *)
(* round with nothing to wait for.                                         *)
(* With a bug: whatever errno is, the loop goes round. *)
PollErrorSpins ==
  /\ Receiving /\ reset
  /\ spc' = "spin"
  /\ UNCHANGED <<wire, buf, shown, eagain, handled>> /\ ByServer

PollError ==
  /\ Receiving /\ reset
  /\ spc' = IF eagain THEN "spin" ELSE "exit"
  /\ UNCHANGED <<wire, buf, shown, eagain, handled>> /\ ByServer

(* The frame is copied to the screen under lcdlist_mutex. *)
CopyFrame ==
  /\ spc = "copy"
  /\ shown' = buf /\ buf' = <<>> /\ spc' = "frame"
  /\ UNCHANGED <<wire, eagain, handled>> /\ ByServer

(* The keyboard thread: a key press is sent to the client. *)
SendKeys ==
  /\ spc \in {"type", "frame", "copy"} /\ cpc = "ready" /\ ~keys
  /\ keys' = TRUE
  /\ UNCHANGED <<client, stream, urgent, mark, answer, server, reset, late, overrun, stray>>

(* exitthread *)
ExitThread ==
  /\ spc = "exit"
  /\ spc' = "gone"
  /\ UNCHANGED <<wire, buf, shown, eagain, handled>> /\ ByServer

ServerThread ==
  \/ SendHelo \/ HeloFails \/ RecvOob \/ RecvType \/ RecvPiece \/ RecvEof \/ PollError
  \/ CopyFrame \/ ExitThread

Next ==
  \/ NewScreen \/ NoHelo \/ SendPiece \/ RecvOobAnswer \/ NoAnswer \/ GetKeystate \/ CloseScreen
  \/ \E cmd \in Command, v \in Value : SendCmd(cmd, v)
  \/ ServerThread \/ NoThread \/ RecvNothing \/ SendKeys

-----------------------------------------------------------------------------
(* The screen shows whole frames: g15_recv puts together what arrives in   *)
(* pieces with commands in between, whatever the client does and whenever  *)
(* it goes; only the last frame of a wireless bitmap may be cut short.     *)
(* They are the frames the client sent, each on its own, as long as no     *)
(* command was sent before the place of the one before it was read past.   *)
WholeFrames ==
  Len(shown) \in {0, Pieces} \/ (type = "W" /\ cpc = "closed")

FramesInOrder ==
  \A i \in 1 .. Len(shown) : shown[i] = <<shown[1][1], i>>

ShowsFrames == WholeFrames /\ (~stray => FramesInOrder)

(* Commands are carried out once each, in order and as they were meant,    *)
(* though codes, letters and values share the bits of one byte; one that   *)
(* is passed over was overrun by a later one before the daemon had read it,*)
(* and a client that waits for its answers only loses one to a timeout.    *)
CarriedOutAsSent ==
  [][handled'.n # handled.n =>
       /\ handled'.n > handled.n
       /\ \A lost \in handled.n + 1 .. handled'.n - 1 : lost \in overrun
       /\ <<handled'.cmd, handled'.value>> = handled'.sent]_pvars

(* g15daemon_client.h: "any replies from the daemon are returned".  The    *)
(* answer returned is that of the command, unless a wait has timed out     *)
(* before.                                                                 *)
AnswersMatch ==
  [][answered' # answered /\ ~late => answered' = waiting]_pvars

(* g15_plugin_net.c:280: "once the client disconnects by closing the       *)
(* socket, the LCD buffer is removed".  Unless there was no thread for it, *)
(* or a read that found nothing left EAGAIN behind, the thread of a client *)
(* that is gone ends.                                                      *)
GoneIsRemoved == cpc = "closed" ~> spc \in {"gone", "orphan"} \/ eagain

Spec == Init /\ [][Next]_pvars /\ WF_pvars(ServerThread)

-----------------------------------------------------------------------------
(* g15_plugin_net.c:276: the client is to "send multiple 6880 byte packets *)
(* (1 for each screen update)": a screen update is what one packet held.   *)
UpdatesArePackets == FramesInOrder

=============================================================================
