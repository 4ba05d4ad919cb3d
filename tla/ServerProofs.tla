------------------------------ MODULE ServerProofs -----------------------------
(***************************************************************************)
(* Proofs about the daemon's service to a client, for any set of commands, *)
(* values, screens and levels, and a connection of any length: what        *)
(* carries a frame from the client to the screen (Stream), a command to    *)
(* the daemon (Urgent) and its answer back (Answers), and what a drawing   *)
(* pass makes of the settings (DevInv).                                    *)
(***************************************************************************)
EXTENDS MCServer, SequenceTheorems, TLAPS

-----------------------------------------------------------------------------
(* The byte of a command *)

(* Each command a client sends is taken for itself, with its argument,     *)
(* though letters, codes and values share the bits of one byte.            *)
LEMMA DecodesWhatIsEncoded ==
  ASSUME NEW cmd \in Command, NEW v \in Value
  PROVE  Protocol!Decode(Protocol!Encode(cmd, v)) = <<cmd, Protocol!Argument(cmd, v)>>
<1> DEFINE a == Protocol!Argument(cmd, v)
           byte == cmd + a
           order == <<32, 16, 128, 8, 64>>
           First(i) == /\ i \in 1 .. 5
                       /\ Protocol!Bit(byte, order[i])
                       /\ \A j \in 1 .. i - 1 : ~Protocol!Bit(byte, order[j])
<1>1. cmd \in {8, 16, 32, 64, 110, 112, 117, 118, 128} /\ v \in 0 .. 15
  BY ProtocolAssumption
<1> USE DEF Protocol!KEY_HANDLER, Protocol!MKEYLEDS, Protocol!CONTRAST, Protocol!BACKLIGHT,
            Protocol!KB_BACKLIGHT, Protocol!SWITCH, Protocol!FOREGROUND,
            Protocol!USER_SELECTED, Protocol!NEVER_SELECT
<1>2. /\ a \in Nat
      /\ cmd \in {64, 128, 8} => a \in 0 .. 2
      /\ cmd = 16 => a \in 0 .. 8
      /\ cmd = 32 => a \in 0 .. 15
      /\ cmd \in {110, 112, 117, 118} => a = 0
  BY <1>1 DEF Protocol!Argument, Protocol!AtMost
<1> HIDE DEF a
<1>3. CASE cmd \in {110, 112, 117, 118}
  BY <1>2, <1>3 DEF Protocol!Decode, Protocol!Encode, a
<1>4. CASE cmd \in {8, 16, 32, 64, 128}
  <2>1. byte \notin {110, 112, 117, 118}
    BY <1>2, <1>4
  <2>2. \E i \in 1 .. 5 : First(i) /\ order[i] = cmd
    <3>1. CASE cmd = 32
      BY <1>2, <3>1 DEF Protocol!Bit
    <3>2. CASE cmd = 16
      BY <1>2, <3>2 DEF Protocol!Bit
    <3>3. CASE cmd = 128
      BY <1>2, <3>3 DEF Protocol!Bit
    <3>4. CASE cmd = 8
      BY <1>2, <3>4 DEF Protocol!Bit
    <3>5. CASE cmd = 64
      BY <1>2, <3>5 DEF Protocol!Bit
    <3> QED
      BY <1>4, <3>1, <3>2, <3>3, <3>4, <3>5
  <2>3. \A i, j : First(i) /\ First(j) => i = j
    OBVIOUS
  <2>4. PICK i \in 1 .. 5 : First(i) /\ order[i] = cmd
    BY <2>2
  <2>5. (CHOOSE k \in 1 .. 5 : First(k)) = i
    BY <2>3, <2>4
  <2>6. Protocol!Decode(byte) = <<cmd, byte - cmd>>
    BY <2>1, <2>4, <2>5 DEF Protocol!Decode
  <2> QED
    BY <1>1, <1>2, <2>6 DEF Protocol!Encode, a
<1> QED
  BY <1>1, <1>3, <1>4

-----------------------------------------------------------------------------
(* The connection: commands *)

ProtocolTypes ==
  /\ cpc \in {"start", "connected", "ready", "failed", "closed"}
  /\ spc \in {"helo", "type", "frame", "copy", "exit", "spin", "gone", "orphan"}
  /\ number \in Nat /\ waiting \in Nat
  /\ answer \in Nat /\ handled.n \in Nat
  /\ reset => cpc = "closed"
  /\ cpc = "closed" => waiting = 0

(* The byte on its way is the last command sent; those before it that were *)
(* not carried out were overrun, and without one on its way all are done.  *)
Urgent ==
  /\ urgent # Protocol!None =>
       /\ \E cmd \in Command, v \in Value :
            urgent = [n |-> number, byte |-> Protocol!Encode(cmd, v),
                      sent |-> <<cmd, Protocol!Argument(cmd, v)>>]
       /\ handled.n < number
       /\ \A lost \in handled.n + 1 .. number - 1 : lost \in overrun
  /\ urgent = Protocol!None /\ ~reset => handled.n = number

(* As long as no wait has timed out, a command with an answer is waited    *)
(* for until the answer is there, and there is no other answer.            *)
Answers ==
  ~late /\ cpc # "closed" =>
    /\ waiting \in {0, number}
    /\ answer # 0 => answer = waiting /\ urgent = Protocol!None
    /\ urgent # Protocol!None /\ Protocol!HasAnswer(urgent.sent[1]) => waiting = number

CommandInv == ProtocolTypes /\ Urgent /\ Answers

LEMMA CommandInit == Protocol!Init => CommandInv
BY DEF Protocol!Init, CommandInv, ProtocolTypes, Urgent, Answers, Protocol!None

(* What a step leaves alone when it is not about commands.                 *)
commands == <<number, waiting, answer, urgent, handled, reset, late, overrun>>

LEMMA CommandsUntouched ==
  ASSUME CommandInv, UNCHANGED commands,
         cpc' \in {"start", "connected", "ready", "failed", "closed"},
         spc' \in {"helo", "type", "frame", "copy", "exit", "spin", "gone", "orphan"},
         cpc = "closed" <=> cpc' = "closed"
  PROVE  CommandInv'
<1>1. ProtocolTypes'
  BY DEF CommandInv, commands, ProtocolTypes
<1>2. Urgent' /\ Answers'
  BY DEF CommandInv, commands, Urgent, Answers
<1> QED
  BY <1>1, <1>2 DEF CommandInv

LEMMA SendCmdKeeps ==
  ASSUME CommandInv, NEW cmd \in Command, NEW v \in Value, Protocol!SendCmd(cmd, v)
  PROVE  CommandInv'
<1> USE DEF CommandInv, Protocol!SendCmd, Protocol!Using
<1>1. /\ number' = number + 1 /\ UNCHANGED <<cpc, spc, answer, handled, reset, late>>
      /\ urgent' = [n |-> number', byte |-> Protocol!Encode(cmd, v),
                    sent |-> <<cmd, Protocol!Argument(cmd, v)>>]
      /\ waiting = 0 /\ cpc = "ready" /\ ~reset
      /\ waiting' \in {0, number'} /\ (Protocol!HasAnswer(cmd) => waiting' = number')
      /\ overrun' = IF urgent # Protocol!None THEN overrun \cup {urgent.n} ELSE overrun
  BY DEF Protocol!server
<1> HIDE DEF Protocol!SendCmd
<1>2. ProtocolTypes'
  <2>1. number' \in Nat /\ waiting' \in Nat
    BY <1>1 DEF ProtocolTypes
  <2> QED
    BY <1>1, <2>1 DEF ProtocolTypes
<1>3. \A lost \in handled.n + 1 .. number : lost \in overrun'
  <2>1. CASE urgent = Protocol!None
    BY <1>1, <2>1 DEF Urgent, ProtocolTypes
  <2>2. CASE urgent # Protocol!None
    BY <1>1, <2>2 DEF Urgent, ProtocolTypes
  <2> QED
    BY <2>1, <2>2
<1>4. handled.n =< number
  BY <1>1 DEF Urgent, ProtocolTypes
<1>5. Urgent'
  BY <1>1, <1>3, <1>4 DEF Urgent, ProtocolTypes, Protocol!None
<1>6. Answers'
  BY <1>1 DEF Answers, ProtocolTypes
<1> QED
  BY <1>2, <1>5, <1>6

(* A command is taken for what it was, and answered if the client waits.   *)
LEMMA RecvOobTakes ==
  ASSUME CommandInv, Protocol!RecvOob
  PROVE  /\ urgent.n = number /\ handled.n < number
         /\ \A lost \in handled.n + 1 .. number - 1 : lost \in overrun
         /\ handled'.n = number /\ handled'.sent = urgent.sent
         /\ <<handled'.cmd, handled'.value>> = urgent.sent
         /\ answer' = IF Protocol!HasAnswer(urgent.sent[1]) /\ cpc # "closed" THEN number ELSE answer
         /\ urgent' = Protocol!None
<1>1. PICK cmd \in Command, v \in Value :
        urgent = [n |-> number, byte |-> Protocol!Encode(cmd, v),
                  sent |-> <<cmd, Protocol!Argument(cmd, v)>>]
  BY DEF CommandInv, Urgent, Protocol!RecvOob
<1>2. Protocol!Decode(urgent.byte) = urgent.sent
  BY <1>1, DecodesWhatIsEncoded
<1>3. /\ handled' = [n |-> urgent.n, cmd |-> urgent.sent[1], value |-> urgent.sent[2],
                     sent |-> urgent.sent]
      /\ answer' = IF Protocol!Answered(urgent.sent[1]) /\ cpc # "closed" THEN urgent.n ELSE answer
      /\ urgent' = Protocol!None
  BY <1>2 DEF Protocol!RecvOob
<1> QED
  BY <1>1, <1>3 DEF CommandInv, Urgent, Protocol!RecvOob, Protocol!Answered, Protocol!HasAnswer

LEMMA RecvOobKeeps ==
  ASSUME CommandInv, Protocol!RecvOob
  PROVE  CommandInv'
<1>1. /\ handled'.n = number /\ urgent' = Protocol!None
      /\ answer' = IF Protocol!HasAnswer(urgent.sent[1]) /\ cpc # "closed" THEN number ELSE answer
      /\ urgent # Protocol!None
      /\ UNCHANGED <<cpc, spc, number, waiting, reset, late, overrun>>
  BY RecvOobTakes DEF Protocol!RecvOob, Protocol!ByServer, Protocol!client
<1>2. ProtocolTypes' /\ Urgent'
  BY <1>1 DEF CommandInv, ProtocolTypes, Urgent
<1>3. Answers'
  BY <1>1 DEF CommandInv, Answers, ProtocolTypes
<1> QED
  BY <1>2, <1>3 DEF CommandInv

LEMMA CommandStep == CommandInv /\ [Protocol!Next]_Protocol!pvars => CommandInv'
<1> SUFFICES ASSUME CommandInv, [Protocol!Next]_Protocol!pvars PROVE CommandInv'
  OBVIOUS
<1> USE DEF Protocol!client, Protocol!wire, Protocol!server, Protocol!ByServer
<1>1. CASE Protocol!RecvOobAnswer \/ Protocol!NoAnswer
  BY <1>1 DEF Protocol!RecvOobAnswer, Protocol!NoAnswer, CommandInv, ProtocolTypes, Urgent, Answers
<1>2. CASE Protocol!CloseScreen
  BY <1>2 DEF Protocol!CloseScreen, CommandInv, ProtocolTypes, Urgent, Answers
<1>3. CASE Protocol!NewScreen \/ Protocol!NoHelo \/ Protocol!SendPiece \/ Protocol!GetKeystate
  BY <1>3, CommandsUntouched
     DEF Protocol!NewScreen, Protocol!NoHelo, Protocol!SendPiece, Protocol!GetKeystate, commands,
         CommandInv, ProtocolTypes
<1>4. ASSUME NEW cmd \in Command, NEW v \in Value, Protocol!SendCmd(cmd, v) PROVE CommandInv'
  BY <1>4, SendCmdKeeps
<1>5. CASE Protocol!RecvOob
  BY <1>5, RecvOobKeeps
<1>6. CASE Protocol!SendHelo \/ Protocol!HeloFails \/ Protocol!RecvType \/ Protocol!RecvPiece
  BY <1>6, CommandsUntouched
     DEF Protocol!SendHelo, Protocol!HeloFails, Protocol!RecvType, Protocol!RecvPiece, commands,
         CommandInv, ProtocolTypes
<1>7. CASE Protocol!RecvEof \/ Protocol!PollError \/ Protocol!CopyFrame \/ Protocol!ExitThread
  BY <1>7, CommandsUntouched
     DEF Protocol!RecvEof, Protocol!PollError, Protocol!CopyFrame, Protocol!ExitThread, commands,
         CommandInv, ProtocolTypes
<1>8. CASE Protocol!NoThread \/ Protocol!RecvNothing \/ Protocol!SendKeys
  BY <1>8, CommandsUntouched
     DEF Protocol!NoThread, Protocol!RecvNothing, Protocol!SendKeys, commands, CommandInv,
         ProtocolTypes
<1>9. CASE UNCHANGED Protocol!pvars
  BY <1>9, CommandsUntouched DEF Protocol!pvars, commands, CommandInv, ProtocolTypes
<1> QED
  BY <1>1, <1>2, <1>3, <1>4, <1>5, <1>6, <1>7, <1>8, <1>9
     DEF Protocol!Next, Protocol!ServerThread

LEMMA CommandInvariance == Protocol!Spec => []CommandInv
BY CommandInit, CommandStep, PTL DEF Protocol!Spec

(* However many commands a client sends before the daemon reads them, each *)
(* is carried out once, in order and as it was meant, or was overrun.      *)
THEOREM CommandsAreCarriedOut == Protocol!Spec => CarriedOutAsSent
<1>1. CommandInv /\ [Protocol!Next]_Protocol!pvars =>
        [handled'.n # handled.n =>
           /\ handled'.n > handled.n
           /\ \A lost \in handled.n + 1 .. handled'.n - 1 : lost \in overrun
           /\ <<handled'.cmd, handled'.value>> = handled'.sent]_Protocol!pvars
  <2> SUFFICES ASSUME CommandInv, Protocol!Next, handled'.n # handled.n
               PROVE  /\ handled'.n > handled.n
                      /\ \A lost \in handled.n + 1 .. handled'.n - 1 : lost \in overrun
                      /\ <<handled'.cmd, handled'.value>> = handled'.sent
    OBVIOUS
  <2>1. Protocol!RecvOob
    BY DEF Protocol!Next, Protocol!ServerThread, Protocol!NewScreen, Protocol!NoHelo,
           Protocol!SendPiece, Protocol!RecvOobAnswer, Protocol!NoAnswer, Protocol!GetKeystate,
           Protocol!CloseScreen, Protocol!SendCmd, Protocol!SendHelo, Protocol!HeloFails,
           Protocol!RecvType, Protocol!RecvPiece, Protocol!RecvEof, Protocol!PollError,
           Protocol!CopyFrame, Protocol!ExitThread, Protocol!NoThread, Protocol!RecvNothing,
           Protocol!SendKeys, Protocol!server
  <2> QED
    BY <2>1, RecvOobTakes DEF CommandInv, ProtocolTypes
<1> QED
  BY CommandInvariance, <1>1, PTL DEF Protocol!Spec, CarriedOutAsSent, Protocol!CarriedOutAsSent

(* Whatever else travels meanwhile: the answer g15_send_cmd returns is that *)
(* of its command, as long as no wait has timed out.                       *)
THEOREM AnswersAreTheirOwn == Protocol!Spec => AnswersMatch
<1>1. CommandInv /\ [Protocol!Next]_Protocol!pvars =>
        [answered' # answered /\ ~late => answered' = waiting]_Protocol!pvars
  <2> SUFFICES ASSUME CommandInv, Protocol!Next, answered' # answered, ~late
               PROVE  answered' = waiting
    OBVIOUS
  <2>1. Protocol!RecvOobAnswer
    BY DEF Protocol!Next, Protocol!ServerThread, Protocol!NewScreen, Protocol!NoHelo,
           Protocol!SendPiece, Protocol!RecvOob, Protocol!NoAnswer, Protocol!GetKeystate,
           Protocol!CloseScreen, Protocol!SendCmd, Protocol!SendHelo, Protocol!HeloFails,
           Protocol!RecvType, Protocol!RecvPiece, Protocol!RecvEof, Protocol!PollError,
           Protocol!CopyFrame, Protocol!ExitThread, Protocol!NoThread, Protocol!RecvNothing,
           Protocol!SendKeys, Protocol!ByServer, Protocol!client
  <2>2. answer # 0 /\ waiting # 0 /\ answered' = answer
    BY <2>1 DEF Protocol!RecvOobAnswer
  <2>3. cpc # "closed"
    BY <2>2 DEF CommandInv, ProtocolTypes
  <2> QED
    BY <2>2, <2>3 DEF CommandInv, Answers
<1> QED
  BY CommandInvariance, <1>1, PTL DEF Protocol!Spec, AnswersMatch, Protocol!AnswersMatch

-----------------------------------------------------------------------------
(* The connection: frames *)

(* What follows what in the stream: the type of the screen is followed by  *)
(* the first piece of the first frame, a piece by the next one of its      *)
(* frame, and the last one by the first of the next frame.                 *)
Follows(a, b) == b = IF a[1] = 0 \/ a[2] = Pieces THEN <<a[1] + 1, 1>> ELSE <<a[1], a[2] + 1>>
First(b) == b[1] # 0 /\ b = <<b[1], 1>>
Sent == IF frame = 0 THEN <<0, type>> ELSE <<frame, IF piece = 0 THEN Pieces ELSE piece>>

(* Pieces of one frame, in order *)
InOrder(s) == \A i \in 1 .. Len(s) : s[i] = <<s[1][1], i>>

StreamTypes ==
  /\ cpc \in {"start", "connected", "ready", "failed", "closed"}
  /\ spc \in {"helo", "type", "frame", "copy", "exit", "spin", "gone", "orphan"}
  /\ frame \in Nat /\ piece \in 0 .. Pieces - 1 /\ (piece # 0 => frame # 0)
  /\ stream \in Seq({<<0, type>>} \cup (Nat \X Nat)) /\ buf \in Seq(Nat \X Nat)

(* How far the two sides are with each other.                              *)
Greeting ==
  /\ spc = "helo" => cpc \in {"start", "closed"} /\ stream = <<>>
  /\ cpc = "start" => spc \in {"helo", "orphan"}
  /\ cpc = "connected" => spc = "type" /\ stream = <<>>
  /\ spc \in {"helo", "type"} => buf = <<>>
  /\ cpc \in {"start", "connected"} => frame = 0 /\ piece = 0

(* What is on its way follows what the server has and leads to what the    *)
(* client has sent.                                                        *)
Chain ==
  /\ \A i \in 1 .. Len(stream) - 1 : Follows(stream[i], stream[i + 1])
  /\ spc = "type" /\ stream # <<>> => stream[1] = <<0, type>>
  /\ spc \in {"frame", "copy"} /\ stream # <<>> =>
       IF buf = <<>> THEN First(stream[1]) ELSE Follows(buf[Len(buf)], stream[1])
  /\ cpc = "ready" /\ stream # <<>> => stream[Len(stream)] = Sent
  /\ cpc = "ready" /\ stream = <<>> => spc # "type"
  /\ cpc = "ready" /\ stream = <<>> /\ spc \in {"frame", "copy"} =>
       IF buf # <<>> THEN buf[Len(buf)] = Sent ELSE piece = 0

(* The frame that is put together.                                         *)
Collected ==
  /\ InOrder(buf) /\ (buf # <<>> => buf[1][1] # 0)
  /\ spc = "frame" => Len(buf) < Pieces
  /\ spc = "copy" => Len(buf) = Pieces
                      \/ (type = "W" /\ cpc = "closed" /\ stream = <<>>)

Framed == Protocol!WholeFrames /\ Protocol!FramesInOrder

(* All this is so until an urgent byte is left in the stream as data.      *)
StreamInv == StreamTypes /\ Greeting /\ Chain /\ Collected /\ Framed

LEMMA PiecesType == Pieces \in Nat \ {0}
BY ProtocolAssumption

LEMMA ModOfLess ==
  ASSUME NEW n \in Nat \ {0}, NEW k \in 0 .. n - 1
  PROVE  k % n = k
OBVIOUS

LEMMA TailOf ==
  ASSUME NEW S, NEW s \in Seq(S), s # <<>>
  PROVE  /\ Len(s) \in Nat \ {0} /\ Head(s) = s[1]
         /\ Tail(s) \in Seq(S) /\ Len(Tail(s)) = Len(s) - 1
         /\ \A i \in 1 .. Len(s) - 1 : Tail(s)[i] = s[i + 1]
         /\ Tail(s) # <<>> <=> Len(s) > 1
<1>1. Len(s) \in Nat \ {0} /\ Head(s) = s[1] /\ Tail(s) \in Seq(S) /\ Len(Tail(s)) = Len(s) - 1
  OBVIOUS
<1>2. \A i \in 1 .. Len(s) - 1 : Tail(s)[i] = s[i + 1]
  OBVIOUS
<1>3. \A t \in Seq(S) : t # <<>> <=> Len(t) # 0
  OBVIOUS
<1>4. Tail(s) # <<>> <=> Len(s) > 1
  <2> DEFINE t == Tail(s)
  <2>1. t \in Seq(S) /\ Len(t) = Len(s) - 1
    BY <1>1
  <2> HIDE DEF t
  <2>2. t # <<>> <=> Len(s) - 1 # 0
    BY <1>3, <2>1
  <2>3. Len(s) - 1 # 0 <=> Len(s) > 1
    <3> DEFINE n == Len(s)
    <3>1. n \in Nat \ {0}
      BY <1>1
    <3> HIDE DEF n
    <3>2. n - 1 # 0 <=> n > 1
      BY <3>1
    <3> QED
      BY <3>2 DEF n
  <2> QED
    BY <2>2, <2>3 DEF t
<1> QED
  BY <1>1, <1>2, <1>4

(* What is read is the first of the stream: the rest is as connected.      *)
LEMMA ReadOff ==
  ASSUME StreamInv, stream # <<>>, stream' = Tail(stream)
  PROVE  /\ Len(stream) \in Nat \ {0} /\ Len(stream') = Len(stream) - 1
         /\ stream' \in Seq({<<0, type>>} \cup (Nat \X Nat))
         /\ stream' # <<>> <=> Len(stream) > 1
         /\ \A i \in 1 .. Len(stream') - 1 : Follows(stream'[i], stream'[i + 1])
         /\ stream' # <<>> => /\ Follows(stream[1], stream'[1])
                             /\ stream'[Len(stream')] = stream[Len(stream)]
<1>1. stream \in Seq({<<0, type>>} \cup (Nat \X Nat))
  BY DEF StreamInv, StreamTypes
<1>2. /\ Len(stream) \in Nat \ {0} /\ Len(stream') = Len(stream) - 1
      /\ stream' \in Seq({<<0, type>>} \cup (Nat \X Nat))
      /\ stream' # <<>> <=> Len(stream) > 1
      /\ \A i \in 1 .. Len(stream) - 1 : stream'[i] = stream[i + 1]
  BY <1>1, TailOf
<1>3. \A i \in 1 .. Len(stream) - 1 : Follows(stream[i], stream[i + 1])
  BY DEF StreamInv, Chain
<1>4. ASSUME NEW i \in 1 .. Len(stream') - 1
      PROVE  Follows(stream'[i], stream'[i + 1])
  <2>1. i \in 1 .. Len(stream) - 1 /\ i + 1 \in 1 .. Len(stream) - 1
    BY <1>2
  <2> QED
    BY <1>2, <1>3, <2>1
<1>5. ASSUME stream' # <<>>
      PROVE  Follows(stream[1], stream'[1]) /\ stream'[Len(stream')] = stream[Len(stream)]
  <2>1. 1 \in 1 .. Len(stream) - 1 /\ Len(stream') \in 1 .. Len(stream) - 1
    BY <1>2, <1>5
  <2>2. stream'[1] = stream[1 + 1] /\ stream'[Len(stream')] = stream[Len(stream') + 1]
    BY <1>2, <2>1
  <2> QED
    BY <1>2, <1>3, <2>1, <2>2
<1> QED
  BY <1>2, <1>4, <1>5

LEMMA StreamInit == Protocol!Init => StreamInv
<1> SUFFICES ASSUME Protocol!Init PROVE StreamInv
  OBVIOUS
<1> USE PiecesType DEF Protocol!Init
<1>1. StreamTypes /\ Greeting
  BY DEF StreamTypes, Greeting
<1>2. Chain /\ Collected
  BY DEF Chain, Collected, InOrder
<1>3. Framed
  BY DEF Framed, Protocol!WholeFrames, Protocol!FramesInOrder
<1> QED
  BY <1>1, <1>2, <1>3 DEF StreamInv

(* A step that is about something else.                                    *)
frames == <<cpc, spc, type, frame, piece, stream, buf, shown>>

LEMMA FramesUntouched ==
  ASSUME StreamInv, UNCHANGED frames
  PROVE  StreamInv'
<1>1. StreamTypes' /\ Greeting'
  BY DEF StreamInv, frames, StreamTypes, Greeting
<1>2. Chain' /\ Collected'
  BY DEF StreamInv, frames, Chain, Collected, Follows, First, Sent, InOrder
<1>3. Framed'
  BY DEF StreamInv, frames, Framed, Protocol!WholeFrames,
         Protocol!FramesInOrder
<1> QED
  BY <1>1, <1>2, <1>3 DEF StreamInv

(* The screen keeps its picture until the next frame is copied.            *)
LEMMA PictureStays ==
  ASSUME Framed, UNCHANGED <<shown, type>>, cpc = "closed" => cpc' = "closed"
  PROVE  Framed'
BY DEF Framed, Protocol!WholeFrames, Protocol!FramesInOrder

LEMMA NewScreenKeeps ==
  ASSUME StreamInv, Protocol!NewScreen
  PROVE  StreamInv'
<1> USE PiecesType DEF Protocol!NewScreen, Protocol!server, StreamInv
<1>1. /\ spc = "type" /\ frame = 0 /\ piece = 0 /\ buf = <<>> /\ stream = <<>>
      /\ stream' = <<<<0, type>>>> /\ cpc' = "ready"
      /\ UNCHANGED <<spc, type, frame, piece, buf, shown>>
  BY DEF Greeting
<1>2. StreamTypes' /\ Greeting' /\ Collected'
  BY <1>1 DEF StreamTypes, Greeting, Collected, InOrder
<1>3. Chain'
  BY <1>1 DEF Chain, Sent
<1>4. Framed'
  BY <1>1, PictureStays
<1> QED
  BY <1>2, <1>3, <1>4

(* A piece that is sent follows the one sent before it.                    *)
LEMMA SendPieceKeeps ==
  ASSUME StreamInv, Protocol!SendPiece
  PROVE  StreamInv'
<1> USE PiecesType DEF StreamInv
<1> DEFINE f == IF piece = 0 THEN frame + 1 ELSE frame
<1>1. /\ cpc = "ready" /\ stream' = Append(stream, <<f, piece + 1>>) /\ frame' = f
      /\ piece' = (piece + 1) % Pieces
      /\ UNCHANGED <<cpc, spc, type, buf, shown>>
  BY DEF Protocol!SendPiece, Protocol!Using, Protocol!server
<1>2. f \in Nat /\ f # 0 /\ piece \in 0 .. Pieces - 1
  BY DEF StreamTypes
<1>3. piece' = IF piece + 1 = Pieces THEN 0 ELSE piece + 1
  <2>1. CASE piece + 1 = Pieces
    BY <1>1, <2>1
  <2>2. CASE piece + 1 # Pieces
    <3>1. piece + 1 \in 0 .. Pieces - 1
      BY <1>2, <2>2
    <3> QED
      BY <1>1, <2>2, <3>1, ModOfLess
  <2> QED
    BY <2>1, <2>2
<1>4. Follows(Sent, <<f, piece + 1>>) /\ Sent' = <<f, piece + 1>>
  BY <1>1, <1>2, <1>3 DEF Follows, Sent, StreamTypes
<1> HIDE DEF f
<1>5. StreamTypes'
  BY <1>1, <1>2, <1>3 DEF StreamTypes
<1>6. /\ stream \in Seq({<<0, type>>} \cup (Nat \X Nat))
      /\ Len(stream') = Len(stream) + 1 /\ stream' # <<>> /\ Len(stream) \in Nat
      /\ stream'[Len(stream) + 1] = <<f, piece + 1>>
      /\ \A i \in 1 .. Len(stream) : stream'[i] = stream[i]
      /\ stream # <<>> => Len(stream) > 0
  BY <1>1, <1>2 DEF StreamTypes
<1>7. Chain'
  <2>1. \A i \in 1 .. Len(stream') - 1 : Follows(stream'[i], stream'[i + 1])
    <3> SUFFICES ASSUME NEW i \in 1 .. Len(stream)
                 PROVE  Follows(stream'[i], stream'[i + 1])
      BY <1>6
    <3>1. CASE i = Len(stream)
      BY <1>1, <1>4, <1>6, <3>1 DEF Chain
    <3>2. CASE i # Len(stream)
      <4>1. i \in 1 .. Len(stream) - 1
        BY <1>6, <3>2
      <4>2. stream'[i] = stream[i] /\ stream'[i + 1] = stream[i + 1]
        BY <1>6, <4>1
      <4> QED
        BY <4>1, <4>2 DEF Chain
    <3> QED
      BY <3>1, <3>2
  <2>2. CASE stream = <<>>
    <3>1. stream'[1] = <<f, piece + 1>> /\ spc # "type"
      BY <1>1, <1>6, <2>2 DEF Chain
    <3>2. ASSUME spc \in {"frame", "copy"}
          PROVE  IF buf = <<>> THEN First(stream'[1]) ELSE Follows(buf[Len(buf)], stream'[1])
      <4>1. CASE buf = <<>>
        <5>1. piece = 0
          BY <1>1, <2>2, <3>2, <4>1 DEF Chain
        <5> QED
          BY <1>2, <3>1, <4>1, <5>1 DEF First
      <4>2. CASE buf # <<>>
        BY <1>1, <1>4, <2>2, <3>1, <3>2, <4>2 DEF Chain
      <4> QED
        BY <4>1, <4>2
    <3> QED
      BY <1>1, <1>4, <1>6, <2>1, <2>2, <3>1, <3>2 DEF Chain
  <2>3. CASE stream # <<>>
    <3>1. stream'[1] = stream[1]
      BY <1>6, <2>3
    <3> QED
      BY <1>1, <1>4, <1>6, <2>1, <2>3, <3>1 DEF Chain
  <2> QED
    BY <2>2, <2>3
<1>8. Greeting' /\ Collected'
  BY <1>1 DEF Greeting, Collected
<1>9. Framed'
  BY <1>1, PictureStays
<1> QED
  BY <1>5, <1>7, <1>8, <1>9

(* Closing keeps the order of what is on its way, or loses all of it.      *)
LEMMA CloseKeeps ==
  ASSUME StreamInv, Protocol!CloseScreen \/ Protocol!NoHelo
  PROVE  StreamInv'
<1> USE PiecesType DEF StreamInv
<1>1. /\ cpc' \in {"failed", "closed"} /\ (cpc = "closed" => cpc' = "closed")
      /\ spc = "helo" => cpc' = "closed"
      /\ stream' \in {stream, <<>>}
      /\ UNCHANGED <<spc, type, frame, piece, buf, shown>>
  BY DEF Protocol!CloseScreen, Protocol!NoHelo, Protocol!server, Protocol!wire
<1>2. StreamTypes'
  <2>1. stream' \in Seq({<<0, type>>} \cup (Nat \X Nat))
    <3>1. CASE stream' = stream
      BY <3>1 DEF StreamTypes
    <3>2. CASE stream' = <<>>
      BY <3>2
    <3> QED
      BY <1>1, <3>1, <3>2
  <2> QED
    BY <1>1, <2>1 DEF StreamTypes
<1>3. Greeting' /\ Chain'
  BY <1>1 DEF Greeting, Chain
<1>4. Collected'
  BY <1>1 DEF Collected
<1>5. Framed'
  BY <1>1, PictureStays
<1> QED
  BY <1>2, <1>3, <1>4, <1>5

(* The server thread comes from the greeting to the first frame, ...       *)
LEMMA GreetingKeeps ==
  ASSUME StreamInv, Protocol!SendHelo \/ Protocol!HeloFails \/ Protocol!NoThread
  PROVE  StreamInv'
<1> USE PiecesType DEF StreamInv
<1>1. /\ spc = "helo" /\ spc' \in {"type", "exit", "orphan"}
      /\ spc' = "type" => cpc' = "connected"
      /\ cpc' \in {"connected", cpc} /\ (cpc' # cpc => cpc = "start" /\ spc' = "type")
      /\ cpc = "start" => spc' = "orphan" \/ cpc' = "connected"
      /\ cpc' = "closed" <=> cpc = "closed"
      /\ stream = <<>> /\ cpc' # "ready"
      /\ UNCHANGED <<stream, type, frame, piece, buf, shown>>
  BY DEF Protocol!SendHelo, Protocol!HeloFails, Protocol!NoThread, Protocol!wire,
         Protocol!ByServer, Protocol!client, Greeting
<1>2. StreamTypes' /\ Greeting'
  BY <1>1 DEF StreamTypes, Greeting
<1>3. Chain' /\ Collected'
  BY <1>1 DEF Chain, Collected
<1>4. Framed'
  BY <1>1, PictureStays
<1> QED
  BY <1>2, <1>3, <1>4

LEMMA RecvTypeKeeps ==
  ASSUME StreamInv, Protocol!RecvType
  PROVE  StreamInv'
<1> USE PiecesType DEF StreamInv
<1>1. /\ spc = "type" /\ spc' \in {"exit", "frame"} /\ buf = <<>>
      /\ stream # <<>> /\ stream' = Tail(stream)
      /\ UNCHANGED <<cpc, type, frame, piece, buf, shown>>
  BY DEF Protocol!RecvType, Protocol!ByServer, Protocol!client, Greeting
<1>2. /\ Len(stream) \in Nat \ {0} /\ Len(stream') = Len(stream) - 1
      /\ stream' \in Seq({<<0, type>>} \cup (Nat \X Nat))
      /\ stream' # <<>> <=> Len(stream) > 1
      /\ \A i \in 1 .. Len(stream') - 1 : Follows(stream'[i], stream'[i + 1])
      /\ stream' # <<>> => /\ Follows(stream[1], stream'[1])
                          /\ stream'[Len(stream')] = stream[Len(stream)]
  BY <1>1, ReadOff
<1>3. stream[1] = <<0, type>> /\ cpc \notin {"start", "connected"}
  BY <1>1 DEF Chain, Greeting
<1>4. StreamTypes' /\ Greeting'
  BY <1>1, <1>2, <1>3 DEF StreamTypes, Greeting
<1>5. Chain'
  <2>1. stream' # <<>> => First(stream'[1])
    BY <1>2, <1>3 DEF Follows, First
  <2>2. ASSUME stream' = <<>>, cpc = "ready" PROVE piece = 0
    <3>1. stream[1] = Sent
      BY <1>1, <1>2, <2>2 DEF Chain
    <3>2. frame = 0
      BY <1>3, <3>1 DEF Sent
    <3> QED
      BY <3>2 DEF StreamTypes
  <2> QED
    BY <1>1, <1>2, <2>1, <2>2 DEF Chain, Sent
<1>6. Collected'
  BY <1>1 DEF Collected
<1>7. Framed'
  BY <1>1, PictureStays
<1> QED
  BY <1>4, <1>5, <1>6, <1>7

(* ... puts a frame together, ...                                          *)
LEMMA RecvPieceKeeps ==
  ASSUME StreamInv, Protocol!RecvPiece
  PROVE  StreamInv'
<1> USE PiecesType DEF StreamInv
<1>1. /\ spc = "frame" /\ stream # <<>>
      /\ buf' = Append(buf, stream[1]) /\ stream' = Tail(stream)
      /\ spc' = IF Len(buf') = Pieces THEN "copy" ELSE "frame"
      /\ UNCHANGED <<cpc, type, frame, piece, shown>>
  BY DEF Protocol!RecvPiece, Protocol!ByServer, Protocol!client, StreamTypes
<1>2. /\ Len(stream) \in Nat \ {0} /\ Len(stream') = Len(stream) - 1
      /\ stream' \in Seq({<<0, type>>} \cup (Nat \X Nat))
      /\ stream' # <<>> <=> Len(stream) > 1
      /\ \A i \in 1 .. Len(stream') - 1 : Follows(stream'[i], stream'[i + 1])
      /\ stream' # <<>> => /\ Follows(stream[1], stream'[1])
                          /\ stream'[Len(stream')] = stream[Len(stream)]
  BY <1>1, ReadOff
<1>3. buf \in Seq(Nat \X Nat) /\ Len(buf) \in 0 .. Pieces - 1 /\ (buf # <<>> <=> Len(buf) > 0)
  BY <1>1 DEF StreamTypes, Collected
<1>4. stream[1] \in Nat \X Nat /\ stream[1][1] # 0 /\ stream[1][2] = Len(buf) + 1
      /\ (buf # <<>> => stream[1][1] = buf[1][1])
  <2>1. CASE buf = <<>>
    <3>1. First(stream[1])
      BY <1>1, <2>1 DEF Chain
    <3>2. stream[1] \in {<<0, type>>} \cup (Nat \X Nat)
      BY <1>2 DEF StreamTypes
    <3>3. stream[1] \in Nat \X Nat
      BY <3>1, <3>2 DEF First
    <3> QED
      BY <1>3, <2>1, <3>1, <3>3 DEF First
  <2>2. CASE buf # <<>>
    <3>1. Follows(buf[Len(buf)], stream[1])
      BY <1>1, <2>2 DEF Chain
    <3>2. buf[Len(buf)] = <<buf[1][1], Len(buf)>> /\ buf[1][1] \in Nat \ {0}
      BY <1>3, <2>2 DEF Collected, InOrder
    <3>3. stream[1] = <<buf[1][1], Len(buf) + 1>>
      BY <1>3, <3>1, <3>2 DEF Follows
    <3> QED
      BY <1>3, <3>2, <3>3
  <2> QED
    BY <2>1, <2>2
<1>5. /\ buf' \in Seq(Nat \X Nat) /\ Len(buf') = Len(buf) + 1 /\ buf' # <<>>
      /\ buf'[Len(buf')] = stream[1] /\ \A i \in 1 .. Len(buf) : buf'[i] = buf[i]
  BY <1>1, <1>3, <1>4
<1>6. StreamTypes'
  BY <1>1, <1>2, <1>5 DEF StreamTypes
<1>7. Greeting'
  BY <1>1 DEF Greeting
<1>8. Collected'
  <2>1. buf'[1][1] # 0 /\ buf'[1][1] = stream[1][1]
    <3>1. CASE buf = <<>>
      BY <1>3, <1>4, <1>5, <3>1
    <3>2. CASE buf # <<>>
      <4>1. 1 \in 1 .. Len(buf)
        BY <1>3, <3>2
      <4> QED
        BY <1>4, <1>5, <3>2, <4>1
    <3> QED
      BY <3>1, <3>2
  <2>2. InOrder(buf')
    <3> SUFFICES ASSUME NEW i \in 1 .. Len(buf')
                 PROVE  buf'[i] = <<buf'[1][1], i>>
      BY DEF InOrder
    <3>1. CASE i = Len(buf')
      BY <1>4, <1>5, <2>1, <3>1
    <3>2. CASE i # Len(buf')
      <4>1. i \in 1 .. Len(buf) /\ 1 \in 1 .. Len(buf)
        <5>1. Len(buf) \in Nat /\ i \in 1 .. Len(buf) + 1 /\ i # Len(buf) + 1
          BY <1>3, <1>5, <3>2
        <5> QED
          BY <5>1
      <4> QED
        BY <1>5, <4>1 DEF Collected, InOrder
    <3> QED
      BY <3>1, <3>2
  <2> QED
    BY <1>1, <1>3, <1>5, <2>1, <2>2 DEF Collected
<1>9. Chain'
  <2>1. stream' = <<>> => Len(stream) = 1
    BY <1>2
  <2> QED
    BY <1>1, <1>2, <1>5, <2>1 DEF Chain, Sent
<1>10. Framed'
  BY <1>1, PictureStays
<1> QED
  BY <1>6, <1>7, <1>8, <1>9, <1>10

(* ... and copies it, or comes to its end.                                 *)
LEMMA CopyFrameKeeps ==
  ASSUME StreamInv, Protocol!CopyFrame
  PROVE  StreamInv'
<1> USE PiecesType DEF StreamInv
<1>1. /\ spc = "copy" /\ spc' = "frame" /\ shown' = buf /\ buf' = <<>>
      /\ UNCHANGED <<cpc, type, frame, piece, stream>>
  BY DEF Protocol!CopyFrame, Protocol!ByServer, Protocol!client, Protocol!wire
<1>2. buf \in Seq(Nat \X Nat)
  BY DEF StreamTypes
<1>3. CASE buf = <<>>
  <2>1. type = "W" /\ cpc = "closed" /\ stream = <<>>
    BY <1>1, <1>3 DEF Collected
  <2>2. StreamTypes' /\ Greeting' /\ Chain' /\ Collected'
    BY <1>1, <2>1 DEF StreamTypes, Greeting, Chain, Collected, InOrder
  <2>3. Framed'
    BY <1>1, <1>3 DEF Framed, Protocol!WholeFrames,
                      Protocol!FramesInOrder
  <2> QED
    BY <2>2, <2>3
<1>4. CASE buf # <<>>
  <2>1. Len(buf) \in Nat \ {0} /\ 1 \in 1 .. Len(buf)
    BY <1>2, <1>4
  <2>2. InOrder(buf) /\ buf[1][1] # 0 /\ buf[1][1] \in Nat
    BY <1>2, <1>4, <2>1 DEF Collected
  <2>3. stream # <<>> => First(stream[1])
    <3> SUFFICES ASSUME stream # <<>> PROVE First(stream[1])
      OBVIOUS
    <3>1. Follows(buf[Len(buf)], stream[1]) /\ Len(buf) = Pieces
      BY <1>1, <1>4 DEF Chain, Collected
    <3>2. buf[Len(buf)] = <<buf[1][1], Pieces>>
      BY <2>1, <2>2, <3>1 DEF InOrder
    <3> QED
      BY <2>2, <3>1, <3>2 DEF Follows, First
  <2>4. cpc = "ready" /\ stream = <<>> => piece = 0
    <3> SUFFICES ASSUME cpc = "ready", stream = <<>> PROVE piece = 0
      OBVIOUS
    <3>1. Len(buf) = Pieces
      BY <1>1, <1>4 DEF Collected
    <3>2. buf[Len(buf)] = <<buf[1][1], Pieces>>
      BY <2>1, <2>2, <3>1 DEF InOrder
    <3>3. buf[Len(buf)] = Sent
      BY <1>1, <1>4 DEF Chain
    <3>4. frame # 0
      BY <2>2, <3>2, <3>3 DEF Sent
    <3> QED
      BY <3>2, <3>3, <3>4 DEF Sent, StreamTypes
  <2>5. StreamTypes' /\ Greeting' /\ Collected'
    BY <1>1 DEF StreamTypes, Greeting, Collected, InOrder
  <2>6. Chain'
    BY <1>1, <2>3, <2>4 DEF Chain, Sent, Follows
  <2>7. Framed'
    BY <1>1, <2>2 DEF Framed, Protocol!WholeFrames,
                      Protocol!FramesInOrder, InOrder, Collected
  <2> QED
    BY <2>5, <2>6, <2>7
<1> QED
  BY <1>3, <1>4

LEMMA EndKeeps ==
  ASSUME CommandInv, StreamInv, Protocol!RecvEof \/ Protocol!PollError \/ Protocol!ExitThread
  PROVE  StreamInv'
<1> USE PiecesType DEF StreamInv
<1>1. /\ spc \in {"type", "frame", "exit"} /\ spc' \in {"copy", "exit", "spin", "gone"}
      /\ spc' = "copy" => type = "W" /\ cpc = "closed" /\ stream = <<>>
      /\ cpc = "connected" => spc = "type" /\ cpc # "closed"
      /\ UNCHANGED <<cpc, type, frame, piece, stream, buf, shown>>
  BY DEF Protocol!RecvEof, Protocol!PollError, Protocol!ExitThread, Protocol!Receiving,
         Protocol!ByServer, Protocol!client, Protocol!wire, Greeting
<1>2. cpc \notin {"start", "connected"}
  BY <1>1 DEF Protocol!RecvEof, Protocol!PollError, Protocol!ExitThread, Greeting,
              CommandInv, ProtocolTypes
<1>3. StreamTypes' /\ Greeting'
  BY <1>1, <1>2 DEF StreamTypes, Greeting
<1>4. Chain' /\ Collected'
  BY <1>1 DEF Chain, Collected, Sent
<1>5. Framed'
  BY <1>1, PictureStays
<1> QED
  BY <1>3, <1>4, <1>5

LEMMA StreamStep ==
  CommandInv /\ StreamInv /\ [Protocol!Next]_Protocol!pvars /\ ~stray' => StreamInv'
<1> SUFFICES ASSUME CommandInv, StreamInv, [Protocol!Next]_Protocol!pvars, ~stray' PROVE StreamInv'
  OBVIOUS
<1> USE DEF Protocol!client, Protocol!wire, Protocol!server, Protocol!ByServer, frames
<1>1. CASE Protocol!RecvOobAnswer \/ Protocol!NoAnswer \/ Protocol!GetKeystate
  BY <1>1, FramesUntouched DEF Protocol!RecvOobAnswer, Protocol!NoAnswer, Protocol!GetKeystate
<1>2. ASSUME NEW cmd \in Command, NEW v \in Value, Protocol!SendCmd(cmd, v) PROVE StreamInv'
  BY <1>2, FramesUntouched DEF Protocol!SendCmd, Protocol!Supersede
<1>3. CASE Protocol!RecvOob \/ Protocol!RecvNothing \/ Protocol!SendKeys
  BY <1>3, FramesUntouched DEF Protocol!RecvOob, Protocol!RecvNothing, Protocol!SendKeys
<1>4. CASE UNCHANGED Protocol!pvars
  BY <1>4, FramesUntouched DEF Protocol!pvars
<1> HIDE DEF Protocol!client, Protocol!wire, Protocol!server, Protocol!ByServer, frames
<1> QED
  BY <1>1, <1>2, <1>3, <1>4, NewScreenKeeps, SendPieceKeeps, CloseKeeps, GreetingKeeps,
     RecvTypeKeeps, RecvPieceKeeps, CopyFrameKeeps, EndKeeps
     DEF Protocol!Next, Protocol!ServerThread

(* Whether or not it has stray bytes, the stream is put together in whole  *)
(* frames.                                                                 *)
Unit == {<<0, type>>} \cup (Nat \X Nat)

LengthInv ==
  /\ frame \in Nat /\ piece \in Nat
  /\ stream \in Seq(Unit) /\ buf \in Seq(Unit)
  /\ mark \in 0 .. Len(stream) + 1
  /\ spc = "helo" => cpc \in {"start", "closed"}
  /\ spc \in {"helo", "type"} => buf = <<>>
  /\ spc = "frame" => Len(buf) < Pieces
  /\ spc = "copy" => Len(buf) = Pieces \/ (type = "W" /\ cpc = "closed")
  /\ Protocol!WholeFrames

LEMMA LengthInit == Protocol!Init => LengthInv
BY PiecesType DEF Protocol!Init, LengthInv, Protocol!WholeFrames

(* What is put into the stream, and where its mark is.                     *)
LEMMA Inserted ==
  ASSUME NEW S, NEW s \in Seq(S), NEW e \in S, NEW i \in 1 .. Len(s) + 1
  PROVE  /\ SubSeq(s, 1, i - 1) \o <<e>> \o SubSeq(s, i, Len(s)) \in Seq(S)
         /\ Append(s, e) \in Seq(S) /\ Len(Append(s, e)) = Len(s) + 1
<1>1. SubSeq(s, 1, i - 1) \in Seq(S)
  <2>1. \A k \in 1 .. i - 1 : s[k] \in S
    OBVIOUS
  <2> QED
    BY <2>1, SubSeqProperties
<1>2. SubSeq(s, i, Len(s)) \in Seq(S)
  <2>1. \A k \in i .. Len(s) : s[k] \in S
    OBVIOUS
  <2> QED
    BY <2>1, SubSeqProperties
<1>3. <<e>> \in Seq(S)
  OBVIOUS
<1>4. SubSeq(s, 1, i - 1) \o <<e>> \in Seq(S)
  BY <1>1, <1>3, ConcatProperties
<1> QED
  BY <1>2, <1>4, ConcatProperties

(* What stands in for a byte in the stream, and where the mark goes.       *)
LEMMA LengthSendCmd ==
  ASSUME CommandInv, LengthInv, NEW cmd \in Command, NEW v \in Value, Protocol!SendCmd(cmd, v)
  PROVE  LengthInv'
<1> USE PiecesType DEF LengthInv
<1>1. /\ UNCHANGED <<cpc, type, frame, piece, spc, buf, shown>>
      /\ mark' = Len(stream') + 1
      /\ \/ stream' = stream
         \/ /\ mark # 0
            /\ stream' = SubSeq(stream, 1, mark - 1) \o <<<<number, 0>>>>
                           \o SubSeq(stream, mark, Len(stream))
  BY DEF Protocol!SendCmd, Protocol!Supersede, Protocol!InsertAt, Protocol!Stray, Protocol!server
<1>2. stream' \in Seq(Unit)
  <2>1. CASE stream' = stream
    BY <2>1
  <2>2. CASE stream' # stream
    <3>1. <<number, 0>> \in Unit
      BY DEF CommandInv, ProtocolTypes, Unit
    <3>2. mark \in 1 .. Len(stream) + 1 /\ stream \in Seq(Unit)
      <4>1. mark # 0
        BY <1>1, <2>2, Zenon
      <4> QED
        BY <4>1
    <3> HIDE DEF LengthInv
    <3>3. SubSeq(stream, 1, mark - 1) \o <<<<number, 0>>>> \o SubSeq(stream, mark, Len(stream))
            \in Seq(Unit)
      BY <3>1, <3>2, Inserted
    <3> QED
      BY <1>1, <2>2, <3>3, Zenon
  <2> QED
    BY <2>1, <2>2
<1>3. mark' \in 0 .. Len(stream') + 1
  BY <1>1, <1>2
<1> QED
  BY <1>1, <1>2, <1>3 DEF Unit, Protocol!WholeFrames

LEMMA LengthSend ==
  ASSUME LengthInv, Protocol!NewScreen \/ Protocol!SendPiece
  PROVE  LengthInv'
<1> USE PiecesType DEF LengthInv
<1>1. PICK e \in Unit : stream' = Append(stream, e)
  <2>1. CASE Protocol!NewScreen
    <3>1. <<0, type>> \in Unit
      BY DEF Unit
    <3> QED
      BY <2>1, <3>1 DEF Protocol!NewScreen
  <2>2. CASE Protocol!SendPiece
    <3>1. <<IF piece = 0 THEN frame + 1 ELSE frame, piece + 1>> \in Unit
      BY DEF Unit
    <3> QED
      BY <2>2, <3>1 DEF Protocol!SendPiece
  <2> QED
    BY <2>1, <2>2
<1>2. /\ UNCHANGED <<type, spc, buf, shown, mark>>
      /\ cpc \in {"connected", "ready"} /\ spc # "helo"
      /\ frame' \in Nat /\ piece' \in Nat
  BY DEF Protocol!NewScreen, Protocol!SendPiece, Protocol!server, Protocol!Using
<1>3. stream' \in Seq(Unit) /\ Len(stream') = Len(stream) + 1
  BY <1>1, Inserted
<1> QED
  BY <1>2, <1>3 DEF Unit, Protocol!WholeFrames

(* What is read goes from the stream to the buffer, a piece at a time.     *)
LEMMA LengthRecv ==
  ASSUME LengthInv, Protocol!RecvType \/ Protocol!RecvPiece
  PROVE  LengthInv'
<1> USE PiecesType DEF LengthInv
<1>1. /\ stream # <<>> /\ stream' = Tail(stream)
      /\ mark' = IF mark = 0 THEN 0 ELSE mark - 1
      /\ UNCHANGED <<cpc, type, frame, piece, shown>>
  BY DEF Protocol!RecvType, Protocol!RecvPiece, Protocol!PassMark, Protocol!ByServer, Protocol!client
<1>2. /\ stream' \in Seq(Unit) /\ Len(stream') = Len(stream) - 1 /\ Head(stream) \in Unit
      /\ Len(stream) \in Nat \ {0}
  <2>1. Len(stream) \in Nat \ {0} /\ Tail(stream) \in Seq(Unit) /\ Len(Tail(stream)) = Len(stream) - 1
        /\ Head(stream) = stream[1]
    BY <1>1, TailOf
  <2> QED
    BY <1>1, <2>1
<1>3. mark' \in 0 .. Len(stream') + 1
  <2>1. CASE mark = 0
    BY <1>1, <1>2, <2>1
  <2>2. CASE mark # 0
    <3>1. mark \in 1 .. Len(stream) + 1
      BY <2>2
    <3>2. mark - 1 \in 0 .. Len(stream) - 1 + 1
      BY <1>2, <3>1
    <3> QED
      BY <1>1, <1>2, <2>2, <3>2
  <2> QED
    BY <2>1, <2>2
<1>4. CASE Protocol!RecvType
  <2>1. spc = "type" /\ spc' \in {"exit", "frame"} /\ buf' = buf
    BY <1>4 DEF Protocol!RecvType
  <2>2. Len(buf) = 0
    BY <2>1
  <2> QED
    BY <1>1, <1>2, <1>3, <2>1, <2>2 DEF Unit, Protocol!WholeFrames
<1>5. CASE Protocol!RecvPiece
  <2>1. /\ spc = "frame" /\ buf' = Append(buf, Head(stream))
        /\ spc' = IF Len(buf') = Pieces THEN "copy" ELSE "frame"
    BY <1>5 DEF Protocol!RecvPiece
  <2>2. buf' \in Seq(Unit) /\ Len(buf') = Len(buf) + 1 /\ Len(buf) \in 0 .. Pieces - 1
    BY <1>2, <2>1, Inserted
  <2> QED
    BY <1>1, <1>2, <1>3, <2>1, <2>2 DEF Unit, Protocol!WholeFrames
<1> QED
  BY <1>4, <1>5

(* Everything else leaves the stream alone, or loses all of it.            *)
LEMMA LengthStep ==
  CommandInv /\ LengthInv /\ [Protocol!Next]_Protocol!pvars => LengthInv'
<1> SUFFICES ASSUME CommandInv, LengthInv, [Protocol!Next]_Protocol!pvars PROVE LengthInv'
  OBVIOUS
<1> USE PiecesType DEF Protocol!client, Protocol!wire, Protocol!server, Protocol!ByServer
<1>1. CASE Protocol!RecvOobAnswer \/ Protocol!NoAnswer \/ Protocol!GetKeystate \/ Protocol!SendKeys
  BY <1>1 DEF Protocol!RecvOobAnswer, Protocol!NoAnswer, Protocol!GetKeystate, Protocol!SendKeys,
              LengthInv, Unit, Protocol!WholeFrames
<1>2. CASE Protocol!RecvOob \/ Protocol!RecvNothing \/ UNCHANGED Protocol!pvars
  BY <1>2 DEF Protocol!RecvOob, Protocol!RecvNothing, Protocol!pvars, LengthInv, Unit,
              Protocol!WholeFrames
<1>3. CASE Protocol!CloseScreen \/ Protocol!NoHelo
  <2>1. /\ UNCHANGED <<type, frame, piece, spc, buf, shown>> /\ cpc \notin {"closed"}
        /\ cpc' \in {"closed", "failed"} /\ (spc = "helo" => cpc' = "closed")
        /\ <<stream', mark'>> \in {<<stream, mark>>, <<<<>>, 0>>}
    BY <1>3 DEF Protocol!CloseScreen, Protocol!NoHelo
  <2>2. stream' \in Seq(Unit) /\ mark' \in 0 .. Len(stream') + 1
    <3>1. CASE stream' = stream /\ mark' = mark
      BY <3>1 DEF LengthInv
    <3>2. CASE stream' = <<>> /\ mark' = 0
      BY <3>2
    <3> QED
      BY <2>1, <3>1, <3>2
  <2> QED
    BY <2>1, <2>2 DEF LengthInv, Unit, Protocol!WholeFrames
<1>4. CASE Protocol!SendHelo \/ Protocol!HeloFails \/ Protocol!NoThread
  BY <1>4 DEF Protocol!SendHelo, Protocol!HeloFails, Protocol!NoThread, LengthInv, Unit,
              Protocol!WholeFrames
<1>5. CASE Protocol!RecvEof \/ Protocol!PollError \/ Protocol!ExitThread
  BY <1>5 DEF Protocol!RecvEof, Protocol!PollError, Protocol!ExitThread, Protocol!Receiving,
              LengthInv, Unit, Protocol!WholeFrames
<1>6. CASE Protocol!CopyFrame
  BY <1>6 DEF Protocol!CopyFrame, LengthInv, Unit, Protocol!WholeFrames
<1>7. ASSUME NEW cmd \in Command, NEW v \in Value, Protocol!SendCmd(cmd, v) PROVE LengthInv'
  BY <1>7, LengthSendCmd
<1> HIDE DEF Protocol!client, Protocol!wire, Protocol!server, Protocol!ByServer
<1> QED
  BY <1>1, <1>2, <1>3, <1>4, <1>5, <1>6, <1>7, LengthSend, LengthRecv
     DEF Protocol!Next, Protocol!ServerThread

(* Once an urgent byte is in the stream as data, one will have been.       *)
LEMMA StrayStays == [Protocol!Next]_Protocol!pvars /\ stray => stray'
BY DEF Protocol!Next, Protocol!ServerThread, Protocol!NewScreen, Protocol!NoHelo,
       Protocol!SendPiece, Protocol!RecvOobAnswer, Protocol!NoAnswer, Protocol!GetKeystate,
       Protocol!CloseScreen, Protocol!SendCmd, Protocol!Supersede, Protocol!SendHelo,
       Protocol!HeloFails, Protocol!RecvType, Protocol!RecvPiece, Protocol!RecvEof,
       Protocol!PollError, Protocol!CopyFrame, Protocol!ExitThread, Protocol!NoThread,
       Protocol!RecvNothing, Protocol!RecvOob, Protocol!SendKeys, Protocol!ByServer, Protocol!pvars

(* For frames of any number of pieces: whatever the client does and        *)
(* whenever it goes, the screen shows whole frames; and what it shows is a *)
(* frame the client sent, until a command follows one whose place in the   *)
(* stream the daemon has not read past.                                    *)
THEOREM ScreenShowsFrames == Protocol!Spec => []ShowsFrames
<1> DEFINE Inv == CommandInv /\ LengthInv /\ (~stray => StreamInv)
<1>1. Protocol!Init => Inv
  BY CommandInit, LengthInit, StreamInit
<1>2. Inv /\ [Protocol!Next]_Protocol!pvars => Inv'
  <2> SUFFICES ASSUME CommandInv, LengthInv, ~stray => StreamInv, [Protocol!Next]_Protocol!pvars
               PROVE  CommandInv' /\ LengthInv' /\ (~stray' => StreamInv')
    OBVIOUS
  <2>1. CommandInv' /\ LengthInv'
    BY CommandStep, LengthStep
  <2>2. ASSUME ~stray' PROVE StreamInv'
    BY <2>2, StrayStays, StreamStep
  <2> QED
    BY <2>1, <2>2
<1>3. Inv => ShowsFrames
  BY DEF StreamInv, Framed, LengthInv, ShowsFrames, Protocol!ShowsFrames
<1> HIDE DEF Inv
<1> QED
  BY <1>1, <1>2, <1>3, PTL DEF Protocol!Spec

-----------------------------------------------------------------------------
(* The drawing pass *)

(* The brightness of the last pass is that of the screen drawn, and the    *)
(* keyboard's, where a pass has set it and nobody else has since.          *)
Brightness ==
  ~disturbed =>
    /\ ~aside /\ dpc # "brightness" => lcdBrightness = prev_state
    /\ dpc = "brightness" => prev_state = backlight_state[displaying]
    /\ dpc \in {"settings", "leds", "clear"} /\ set_backlight =>
         prev_state = backlight_state[displaying]

(* The screen that set the contrast has it, or asks for another.           *)
ContrastSet ==
  ~disturbed =>
    /\ dpc \in {"leds", "clear"} /\ displaying \in owner =>
         lcdContrast = contrast_state[displaying]
    /\ \A s \in owner \cap list : ~state_changed[s] => lcdContrast = contrast_state[s]

DevInv == TypeOK /\ Brightness /\ ContrastSet

LEMMA DevInit == Init => DevInv
<1> SUFFICES ASSUME Init PROVE DevInv
  OBVIOUS
<1> USE SettingsAssumption DEF Init
<1>1. TypeOK
  <2>1. list \subseteq Screen /\ Splash \in list /\ current \in list /\ remote_keyhandler \in list
    BY DEF Screen
  <2>2. /\ backlight_state \in [Screen -> Level]
        /\ contrast_state \in [Screen -> Contrast \cup {Medium}]
        /\ mkey_state \in [Screen -> Leds \cup {0}]
    BY DEF Level, Medium
  <2>3. state_changed \in [Screen -> BOOLEAN]
    BY Zenon
  <2>4. lcdBrightness \in Level /\ lcdContrast \in Level /\ leds \in Leds \cup {0} /\ prev_state \in Level
    BY DEF Level
  <2>5. displaying \in Screen /\ dpc = "wait" /\ owner \subseteq Screen
    BY DEF Screen
  <2>6. disturbed \in BOOLEAN /\ aside \in BOOLEAN
    BY Zenon
  <2> QED
    BY <2>1, <2>2, <2>3, <2>4, <2>5, <2>6 DEF TypeOK
<1>2. Brightness /\ ContrastSet
  BY DEF Brightness, ContrastSet
<1> QED
  BY <1>1, <1>2 DEF DevInv

(* Screens come, go and switch between two passes only; a screen that      *)
(* comes, or that inherits the display, asks for its settings.             *)
LEMMA ScreensKeep ==
  ASSUME DevInv, \/ \E c \in Client : Connect(c)
                 \/ \E c \in Client, s \in Screen : Disconnect(c, s)
                 \/ \E s \in Screen : Switch(s)
  PROVE  DevInv'
<1> USE SettingsAssumption DEF DevInv, keyboard, pass, history, settings
<1>1. ASSUME NEW c \in Client, Connect(c) PROVE DevInv'
  <2>1. TypeOK'
    BY <1>1 DEF Connect, NewScreen, TypeOK, Screen, Level, Medium
  <2>2. Brightness' /\ ContrastSet'
    BY <1>1 DEF Connect, NewScreen, Brightness, ContrastSet, TypeOK, Screen
  <2> QED
    BY <2>1, <2>2
<1>2. ASSUME NEW c \in Client, NEW s \in Screen, Disconnect(c, s) PROVE DevInv'
  <2>1. TypeOK'
    BY <1>2 DEF Disconnect, TypeOK, Screen
  <2>2. Brightness' /\ ContrastSet'
    BY <1>2 DEF Disconnect, Brightness, ContrastSet, TypeOK, Screen
  <2> QED
    BY <2>1, <2>2
<1>3. ASSUME NEW s \in Screen, Switch(s) PROVE DevInv'
  <2>1. TypeOK'
    BY <1>3 DEF Switch, TypeOK
  <2>2. Brightness' /\ ContrastSet'
    BY <1>3 DEF Switch, Brightness, ContrastSet
  <2> QED
    BY <2>1, <2>2
<1> QED
  BY <1>1, <1>2, <1>3

(* A setting that moves under a pass disturbs it.                          *)
LEMMA SettingsKeep ==
  ASSUME DevInv, (\E c \in Client : Ask(c)) \/ LightKey
  PROVE  DevInv'
<1> USE SettingsAssumption DEF DevInv, keyboard, pass, history, Disturbs, InPass
<1>1. ASSUME NEW c \in Client, NEW l \in Leds, MkeyLights(c, l) PROVE DevInv'
  <2>1. TypeOK'
    BY <1>1 DEF MkeyLights, TypeOK, Screen
  <2>2. Brightness' /\ ContrastSet'
    BY <1>1 DEF MkeyLights, Brightness, ContrastSet, TypeOK, Screen
  <2> QED
    BY <2>1, <2>2
<1>2. ASSUME NEW c \in Client, NEW l \in Backlight, BacklightCommand(c, l) PROVE DevInv'
  <2>1. TypeOK'
    BY <1>2 DEF BacklightCommand, TypeOK, Screen
  <2>2. Brightness'
    BY <1>2 DEF BacklightCommand, Brightness, TypeOK, Screen
  <2>3. ContrastSet'
    BY <1>2 DEF BacklightCommand, ContrastSet, TypeOK, Screen
  <2> QED
    BY <2>1, <2>2, <2>3
<1>3. ASSUME NEW c \in Client, NEW l \in Contrast, ContrastCommand(c, l) PROVE DevInv'
  <2>1. TypeOK'
    BY <1>3 DEF ContrastCommand, TypeOK, Screen
  <2>2. Brightness'
    BY <1>3 DEF ContrastCommand, Brightness, TypeOK, Screen
  <2>3. ContrastSet'
    BY <1>3 DEF ContrastCommand, ContrastSet, TypeOK, Screen
  <2> QED
    BY <2>1, <2>2, <2>3
<1>4. ASSUME NEW c \in Client, TakeOver(c) PROVE DevInv'
  <2>1. TypeOK'
    BY <1>4 DEF TakeOver, TypeOK, settings
  <2>2. Brightness' /\ ContrastSet'
    BY <1>4 DEF TakeOver, Brightness, ContrastSet, settings
  <2> QED
    BY <2>1, <2>2
<1>5. CASE LightKey
  <2>1. (backlight_state[current] + 1) % 3 \in Level
    BY DEF TypeOK, Level, Screen
  <2>2. TypeOK'
    BY <1>5, <2>1 DEF LightKey, TypeOK, Screen
  <2>3. Brightness' /\ ContrastSet'
    BY <1>5 DEF LightKey, Brightness, ContrastSet, TypeOK, Screen
  <2> QED
    BY <2>2, <2>3
<1> QED
  BY <1>1, <1>2, <1>3, <1>4, <1>5 DEF Ask

(* The keyboard comes back with a brightness and a contrast of its own.    *)
LEMMA ReplugKeeps ==
  ASSUME DevInv, NEW light \in Level, Replug(light)
  PROVE  DevInv'
<1> USE SettingsAssumption DEF DevInv, Replug, Disturbs, InPass
<1>1. TypeOK'
  BY DEF TypeOK, Level, Medium, Screen
<1>2. Brightness' /\ ContrastSet'
  BY DEF Brightness, ContrastSet, TypeOK, Screen
<1> QED
  BY <1>1, <1>2

(* The pass itself, access by access                                       *)
LEMMA DrawThreadKeeps ==
  ASSUME DevInv, DrawThread
  PROVE  DevInv'
<1> USE SettingsAssumption
    DEF DevInv, Moves, Untouched, settings, history, keyboard
<1>1. TypeOK'
  <2>1. CASE Begin
    BY <2>1 DEF Begin, TypeOK, Screen
  <2>2. CASE SameBacklight \/ NothingToSet
    BY <2>2 DEF SameBacklight, NothingToSet, TypeOK
  <2>6. CASE ClearChanged
    BY <2>6 DEF ClearChanged, TypeOK
  <2>7. CASE RememberBacklight
    BY <2>7 DEF RememberBacklight, TypeOK
  <2>8. CASE SetBrightness
    BY <2>8 DEF SetBrightness, TypeOK
  <2>3. contrast_state[displaying] \in Level /\ mkey_state[displaying] \in Leds \cup {0}
    <3>1. /\ displaying \in Screen /\ contrast_state \in [Screen -> Contrast \cup {Medium}]
          /\ mkey_state \in [Screen -> Leds \cup {0}]
      BY DEF TypeOK
    <3>2. Contrast \cup {Medium} \subseteq Level
      BY DEF Level, Medium
    <3> QED
      BY <3>1, <3>2
  <2>4. CASE SetContrast
    BY <2>4, <2>3 DEF SetContrast, TypeOK
  <2>5. CASE SetLEDs
    BY <2>5, <2>3 DEF SetLEDs, TypeOK
  <2> QED
    BY <2>1, <2>2, <2>4, <2>5, <2>6, <2>7, <2>8 DEF DrawThread
<1>2. Brightness'
  <2>1. CASE Begin \/ NothingToSet \/ SetContrast \/ SetLEDs \/ ClearChanged
    BY <2>1 DEF Begin, NothingToSet, SetContrast, SetLEDs, ClearChanged, Brightness
  <2>2. CASE SameBacklight \/ RememberBacklight
    BY <2>2 DEF SameBacklight, RememberBacklight, NewBacklight, Brightness
  <2>3. CASE SetBrightness
    BY <2>3 DEF SetBrightness, Brightness
  <2> QED
    BY <2>1, <2>2, <2>3 DEF DrawThread
<1>3. ContrastSet'
  <2>1. CASE Begin \/ SameBacklight \/ RememberBacklight \/ SetBrightness \/ NothingToSet \/ SetLEDs
    BY <2>1 DEF Begin, SameBacklight, RememberBacklight, SetBrightness, NothingToSet, SetLEDs,
                ContrastSet
  <2>2. CASE SetContrast
    BY <2>2 DEF SetContrast, ContrastSet
  <2>3. CASE ClearChanged
    BY <2>3 DEF ClearChanged, ContrastSet, TypeOK, Screen
  <2> QED
    BY <2>1, <2>2, <2>3 DEF DrawThread
<1> QED
  BY <1>1, <1>2, <1>3

LEMMA DevStep == DevInv /\ [Next]_vars => DevInv'
<1> SUFFICES ASSUME DevInv, [Next]_vars PROVE DevInv'
  OBVIOUS
<1>1. CASE UNCHANGED vars
  <2>1. TypeOK'
    BY <1>1 DEF vars, settings, keyboard, history, pass, DevInv, TypeOK
  <2>2. Brightness' /\ ContrastSet'
    BY <1>1 DEF vars, settings, keyboard, history, pass, DevInv, Brightness, ContrastSet
  <2> QED
    BY <2>1, <2>2 DEF DevInv
<1> QED
  BY <1>1, ScreensKeep, SettingsKeep, ReplugKeeps, DrawThreadKeeps DEF Next

LEMMA DevInvariance == Spec => []DevInv
BY DevInit, DevStep, PTL DEF Spec

(* Which step is the end of a pass                                         *)
LEMMA PassEndsWith ==
  ASSUME Next, PassEnds
  PROVE  NothingToSet \/ ClearChanged
BY DEF Next, PassEnds, Ask, Connect, Disconnect, Switch, MkeyLights, BacklightCommand,
       ContrastCommand, TakeOver, LightKey, Replug, DrawThread, Begin, SameBacklight,
       RememberBacklight, SetBrightness, SetContrast, SetLEDs, Moves, pass

(* For any number of screens and every --lcdlevel: an undisturbed pass     *)
(* ends with the brightness of the screen it has drawn.                    *)
THEOREM BacklightIsOfDrawn == Spec => BacklightOfDrawn
<1>1. DevInv /\ [Next]_vars =>
        [PassEnds /\ set_backlight /\ ~disturbed /\ ~aside
           => lcdBrightness' = backlight_state[displaying]]_vars
  <2> SUFFICES ASSUME DevInv, Next, PassEnds, set_backlight, ~disturbed, ~aside
               PROVE  lcdBrightness' = backlight_state[displaying]
    OBVIOUS
  <2>1. dpc \in {"settings", "clear"} /\ lcdBrightness' = lcdBrightness
    BY PassEndsWith DEF NothingToSet, ClearChanged, Moves, keyboard
  <2> QED
    BY <2>1 DEF DevInv, Brightness
<1> QED
  BY DevInvariance, <1>1, PTL DEF Spec, BacklightOfDrawn

(* For any number of screens: the screen that set the contrast last has    *)
(* the one it asks for whenever a pass over it ends.                       *)
THEOREM ContrastIsUpToDate == Spec => OwnerIsUpToDate
<1>1. DevInv /\ [Next]_vars =>
        [PassEnds /\ ~disturbed /\ displaying \in owner'
           => lcdContrast' = contrast_state[displaying]]_vars
  <2> SUFFICES ASSUME DevInv, Next, PassEnds, ~disturbed, displaying \in owner'
               PROVE  lcdContrast' = contrast_state[displaying]
    OBVIOUS
  <2>1. UNCHANGED <<lcdContrast, owner>> /\ (dpc = "clear" \/ ~state_changed[displaying])
    BY PassEndsWith DEF NothingToSet, ClearChanged, Moves, keyboard
  <2>2. displaying \in list
    BY DEF PassEnds, DevInv, TypeOK
  <2> QED
    BY <2>1, <2>2 DEF DevInv, ContrastSet
<1> QED
  BY DevInvariance, <1>1, PTL DEF Spec, OwnerIsUpToDate
===============================================================================
