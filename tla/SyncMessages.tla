------------------------------ MODULE SyncMessages ------------------------------
(***************************************************************************)
(* The messages two syncers exchange (src/syncer/src/messages): what the   *)
(* encoder refuses, what the parser refuses, and the error each refusal    *)
(* gives.  A string is its length; a JSON document is a record that says   *)
(* how far the parser can follow it.  Errors are the constants of error.rs *)
(* and each chain of early returns is a sequence of <<holds, error>> whose *)
(* first failing member is the result.                                     *)
(***************************************************************************)
EXTENDS Integers, Sequences, FiniteSetsExt

CONSTANTS
  MaxBytes,        \* MAX_ENVELOPE_BYTES, 64 KiB in the code
  MaxMessageLen,   \* ChatMessage::MAX_MESSAGE_LEN, 2048 in the code
  MaxCandidateLen  \* SignalingIce::MAX_CANDIDATE_LEN, 1024 in the code

ASSUME MessageBounds ==
  {MaxBytes, MaxMessageLen, MaxCandidateLen} \subseteq Nat \ {0}

FirstError(checks) ==
  LET failing == {k \in DOMAIN checks : ~checks[k][1]}
  IN  IF failing = {} THEN "ok" ELSE checks[Min(failing)][2]

SignalingTypes == {"offer", "answer", "ice"}

\* The StreamKind of a message: the "kind" of its envelope.
KindOf(m) ==
  CASE m.type \in {"pose", "chat"}   -> m.type
    [] m.type = "join"               -> "control.join"
    [] m.type = "leave"              -> "control.leave"
    [] m.type = "offer"              -> "signaling.offer"
    [] m.type = "answer"             -> "signaling.answer"
    [] m.type = "ice"                -> "signaling.ice"

StreamKinds ==
  {"pose", "chat", "voice", "control.join", "control.leave",
   "signaling.offer", "signaling.answer", "signaling.ice"}

(* The messages.  Every JSON field that has a bound is a length.           *)
\* finite: no coordinate is NaN or infinite
PoseMessage(version, finite) ==
  [type |-> "pose", version |-> version, finite |-> finite, size |-> 1]

ChatMessage(version, sender, message, id) ==
  [type |-> "chat", version |-> version, sender |-> sender,
   message |-> message, id |-> id, size |-> sender + message]

ControlMessage(type, participant) ==
  [type |-> type, participant |-> participant, size |-> 1]

SignalingMessage(type, version, roomId, authToken, icePolicy, sdp, candidate) ==
  [type |-> type, version |-> version, roomId |-> roomId,
   authToken |-> authToken, icePolicy |-> icePolicy, sdp |-> sdp,
   candidate |-> candidate,
   size |-> roomId + authToken + icePolicy + sdp + candidate]

ValidateChat(m) ==
  FirstError(<< <<m.version = 1, "unsupported_version">>,
                <<m.sender > 0, "missing_sender">>,
                <<m.message \in 1..MaxMessageLen, "message_length">> >>)

ValidateSignaling(m) ==
  FirstError(
    << <<m.version = 1, "unsupported_version">>,
       <<m.roomId > 0, "missing_room_id">>,
       <<m.authToken > 0, "missing_auth_token">>,
       <<m.type \in {"offer", "answer"} => m.sdp > 0, "missing_sdp">>,
       <<m.type = "offer" => m.icePolicy > 0, "missing_ice_policy">>,
       <<m.type = "ice" => m.candidate \in 1..MaxCandidateLen,
         "invalid_candidate">> >>)

\* from_chat without validate (for mutation).
EncodeErrorUnvalidated(m) ==
  CASE m.type = "pose" /\ m.version # 1 -> "unsupported_version"
    [] m.type \in SignalingTypes         -> ValidateSignaling(m)
    [] OTHER                             -> "ok"

\* SyncMessage::into_envelope: what the sender checks.  A control message is
\* not checked, and no message is checked against MaxBytes.
EncodeError(m) ==
  CASE m.type = "pose"           -> FirstError(<< <<m.version = 1,
                                                    "unsupported_version">> >>)
    [] m.type = "chat"           -> ValidateChat(m)
    [] m.type \in SignalingTypes -> ValidateSignaling(m)
    [] OTHER                     -> "ok"

BodyFields(m) ==
  CASE m.type = "pose"   -> {"head"}
    [] m.type = "offer"  -> {"type", "roomId", "authToken", "icePolicy", "sdp"}
    [] m.type = "answer" -> {"type", "roomId", "authToken", "sdp"}
    [] m.type = "ice"    -> {"type", "roomId", "authToken", "candidate"}
    [] OTHER             -> {}

\* The bytes of the envelope of m.  form, v, kind and body say what the
\* parser meets on its way in; fields are the members of the body whose
\* absence it looks for; typed says that serde accepts the body.  serde_json
\* writes a coordinate that is not finite as null, which is not a number.
Encode(m) ==
  [size |-> m.size, form |-> "object", v |-> "1", kind |-> KindOf(m),
   body |-> "object", fields |-> BodyFields(m),
   typed |-> (m.type = "pose" => m.finite), content |-> m]

\* SyncMessageEnvelope::from_slice
FromSlice(bytes) ==
  FirstError(
    << <<bytes.size <= MaxBytes, "body_too_large">>,
       <<bytes.form # "not_json", "body_json_malformed">>,
       <<bytes.form = "object", "body_not_object">>,
       <<bytes.v # "missing", "missing_version">>,
       <<bytes.v # "not_u32", "version_not_u32">>,
       <<bytes.v = "1", "unsupported_version">>,
       <<bytes.kind # "missing", "missing_kind">>,
       <<bytes.kind # "not_string", "kind_not_string">>,
       <<bytes.kind \in StreamKinds, "unknown_kind">>,
       <<bytes.body # "missing", "missing_body">>,
       <<bytes.body = "object", "body_not_object">> >>)

Required(bytes, field, error) == <<field \in bytes.fields, error>>

\* PoseMessage, ChatMessage, ControlMessage and SignalingMessage
\* ::from_json_body, on the envelopes from_slice let through.
PoseBodyError(bytes) ==
  FirstError(<< Required(bytes, "head", "missing_head"),
                <<bytes.typed, "invalid_pose">>,
                <<bytes.content.version = 1, "unsupported_version">> >>)

\* ChatMessage::from_json_body without validate (for mutation).
ChatBodyErrorUnvalidated(bytes) == IF bytes.typed THEN "ok" ELSE "invalid_chat"

ChatBodyError(bytes) ==
  IF bytes.typed THEN ValidateChat(bytes.content) ELSE "invalid_chat"

ControlBodyError(bytes) == IF bytes.typed THEN "ok" ELSE "unsupported_kind"

\* The type in the body decides, not the kind of the envelope.
SignalingBodyError(bytes) ==
  LET type == bytes.content.type
  IN  FirstError(
    << Required(bytes, "type", "missing_type"),
       <<type \in SignalingTypes, "unsupported_kind">>,
       Required(bytes, "roomId", "missing_room_id"),
       Required(bytes, "authToken", "missing_auth_token"),
       <<type = "offer" => "icePolicy" \in bytes.fields, "missing_ice_policy">>,
       <<type \in {"offer", "answer"} => "sdp" \in bytes.fields, "missing_sdp">>,
       <<type = "ice" => "candidate" \in bytes.fields, "missing_candidate">>,
       <<bytes.typed, "invalid_signaling">>,
       <<ValidateSignaling(bytes.content) = "ok",
         ValidateSignaling(bytes.content)>> >>)

\* SyncMessage::from_envelope: a voice frame never travels in an envelope.
BodyError(bytes) ==
  CASE bytes.kind = "pose"  -> PoseBodyError(bytes)
    [] bytes.kind = "chat"  -> ChatBodyError(bytes)
    [] bytes.kind \in {"control.join", "control.leave"} ->
         ControlBodyError(bytes)
    [] bytes.kind \in {"signaling.offer", "signaling.answer", "signaling.ice"} ->
         SignalingBodyError(bytes)
    [] OTHER -> "unknown_kind"

\* TransportPayload::parse_sync_message: "ok", and then the message is
\* bytes.content, or the error.
ParseError(bytes) ==
  LET slice == FromSlice(bytes)
  IN  IF slice = "ok" THEN BodyError(bytes) ELSE slice
=============================================================================
