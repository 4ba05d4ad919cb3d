-------------------------------- MODULE MCServer -------------------------------
(***************************************************************************)
(* For TLC, the two halves of the daemon's service to one client, one at a *)
(* time (part) while the other stands still: what its screen asks of the   *)
(* keyboard (DeviceState), and its connection (ClientProtocol).            *)
(***************************************************************************)
EXTENDS DeviceState, Sequences

CONSTANTS Command, Value, Buffer, Pieces, MaxFrames, MaxCommands, MaxQueued

ASSUME ProtocolAssumption ==
  /\ Command \subseteq {8, 16, 32, 64, 110, 112, 117, 118, 128}
  /\ Value \subseteq 0 .. 15
  /\ Buffer \subseteq {"G", "R", "W", "T"}
  /\ {Pieces, MaxFrames, MaxCommands, MaxQueued} \subseteq Nat \ {0}

VARIABLES part, cpc, type, frame, piece, number, waiting, answered, stream,
          urgent, mark, answer, keys, spc, buf, shown, reset, eagain, handled,
          late, overrun, stray

Protocol == INSTANCE ClientProtocol
protocolvars == <<cpc, type, frame, piece, number, waiting, answered, stream,
                  urgent, mark, answer, keys, spc, buf, shown, eagain, handled,
                  reset, late, overrun, stray>>

MCInit ==
  /\ part \in {"device", "protocol"}
  /\ Init /\ Protocol!Init
  /\ part = "device" => type = CHOOSE t \in Buffer : TRUE

MCNext ==
  \/ part = "device" /\ Next /\ UNCHANGED <<part, protocolvars>>
  \/ part = "protocol" /\ Protocol!Next /\ UNCHANGED <<part, vars>>

MCSpec ==
  /\ MCInit /\ [][MCNext]_<<part, vars, protocolvars>>
  /\ WF_protocolvars(part = "protocol" /\ Protocol!ServerThread)

(* A screen shows whole frames, in order as far as commands let them:      *)
(* ClientProtocol.                                                         *)
ShowsFrames == Protocol!ShowsFrames

(* Commands are carried out as they were sent: ClientProtocol. *)
CarriedOutAsSent == Protocol!CarriedOutAsSent

(* The answer of a command is its own unless a wait timed out: ClientProtocol. *)
AnswersMatch == Protocol!AnswersMatch

(* The thread of a client that is gone ends: ClientProtocol. *)
GoneIsRemoved == part = "protocol" => Protocol!GoneIsRemoved

(* A screen update is what the client sent as one: ClientProtocol. *)
UpdatesArePackets == Protocol!UpdatesArePackets
================================================================================
