------------------------------ MODULE SyncCodec ------------------------------
(***************************************************************************)
(* One message between two pieces of software: our encoder, or somebody    *)
(* else's, puts bytes on the wire, and the parser reads them.              *)
(***************************************************************************)
EXTENDS SyncMessages

CONSTANTS
  Messages,  \* the messages an application may try to send
  Foreign    \* bytes that reach the parser from other software

VARIABLES
  message,   \* the message our encoder was given, or NoMessage
  bytes,     \* what is on the wire, or NoMessage
  answer     \* the parser's answer, or "pending"

codecVars == <<message, bytes, answer>>

NoMessage == [type |-> "none", size |-> 0]

\* What the constants must be.  A message is one of these; and what serde
\* accepts as the body of an envelope has the type its kind names, but for
\* signaling, whose type is in the body.
MessagesAreMessages ==
  \A m \in Messages :
    /\ m.type \in {"pose", "chat", "join", "leave"} \cup SignalingTypes
    /\ m.size \in Nat

ForeignIsTyped ==
  \A b \in Foreign :
    /\ b.kind = "pose" /\ b.typed => b.content.type = "pose"
    /\ b.kind = "chat" /\ b.typed => b.content.type = "chat"
    /\ b.kind \in {"control.join", "control.leave"} /\ b.typed =>
         b.content.type \in {"join", "leave"}

ASSUME CodecAssumption == MessagesAreMessages /\ ForeignIsTyped

CodecInit == message = NoMessage /\ bytes = NoMessage /\ answer = "pending"

\* SyncMessage::into_envelope and serde_json::to_vec: a refused message
\* leaves no bytes.
SendOurs ==
  /\ bytes = NoMessage /\ message = NoMessage
  /\ \E m \in Messages :
       /\ message' = m
       /\ bytes' = IF EncodeError(m) = "ok" THEN Encode(m) ELSE NoMessage
  /\ UNCHANGED answer

SendForeign ==
  /\ bytes = NoMessage /\ message = NoMessage
  /\ bytes' \in Foreign
  /\ UNCHANGED <<message, answer>>

Parse ==
  /\ bytes # NoMessage /\ answer = "pending"
  /\ answer' = ParseError(bytes)
  /\ UNCHANGED <<message, bytes>>

CodecNext == SendOurs \/ SendForeign \/ Parse

CodecSpec == CodecInit /\ [][CodecNext]_codecVars

(* Whatever our encoder lets out, the parser of a peer reads, but for the   *)
(* two things the sender does not look at: the size of the envelope, and   *)
(* whether the coordinates of a pose are numbers.  (envelope.rs,           *)
(* from_pose .. from_signaling against from_slice and from_json_body)      *)
EncodedIsAccepted ==
  message # NoMessage /\ answer # "pending" =>
    answer = IF message.size > MaxBytes THEN "body_too_large"
             ELSE IF message.type = "pose" /\ ~message.finite THEN "invalid_pose"
             ELSE "ok"

(* Whatever the parser lets in, the application could have sent itself:    *)
(* sender and receiver enforce the same contract.                          *)
AcceptedIsSendable ==
  answer = "ok" => EncodeError(bytes.content) = "ok"
=============================================================================
