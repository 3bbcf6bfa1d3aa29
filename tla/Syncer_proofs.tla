---------------------------- MODULE Syncer_proofs ----------------------------
(***************************************************************************)
(* The syncer: its messages and their encoding (SyncCodec), for every      *)
(* message and every limit; the signaling adapter it is reached through;   *)
(* and two syncers over their transports (SyncerPair), for every set of    *)
(* users and chats, and every bound.                                       *)
(*                                                                         *)
(* In this order: CodecInv, what encoder and parser make of one message;   *)
(* AdapterInv, the adapter's connections; PairInv, the table and what the  *)
(* application was told of it; TalkInv, what travels between two sides;    *)
(* OnceInv, where each chat is.  PairInv, TalkInv and OnceInv are each     *)
(* kept under those before them.                                           *)
(***************************************************************************)
EXTENDS SequenceTheorems, SyncerPair, SyncCodec, SignalingAdapter,
        Subsequences_proofs, TLAPS

Polled == INSTANCE FoldLemmas WITH Op <- ShapeIncoming
Told == INSTANCE FoldLemmas WITH Op <- Follow
Drained == INSTANCE FoldLemmas WITH Op <- Observe

(***************************************************************************)
(* SyncMessages.  The result of a chain of checks is the error of the      *)
(* first that fails.                                                       *)
(***************************************************************************)
LEMMA MinIsLeast ==
  ASSUME NEW S, S \subseteq Nat, NEW x \in S, \A y \in S : x <= y
  PROVE  Min(S) = x
<1>1. Min(S) \in S /\ \A y \in S : Min(S) <= y
  BY DEF Min
<1>2. Min(S) <= x /\ x <= Min(S) /\ x \in Nat /\ Min(S) \in Nat
  BY <1>1
<1> QED
  BY <1>2

LEMMA NoneFails ==
  ASSUME NEW checks, \A k \in DOMAIN checks : checks[k][1]
  PROVE  FirstError(checks) = "ok"
BY DEF FirstError

LEMMA FirstFails ==
  ASSUME NEW checks, DOMAIN checks \subseteq Nat,
         NEW k \in DOMAIN checks, ~checks[k][1],
         \A j \in DOMAIN checks : j < k => checks[j][1]
  PROVE  FirstError(checks) = checks[k][2]
<1> DEFINE failing == {j \in DOMAIN checks : ~checks[j][1]}
<1>1. failing \subseteq Nat /\ k \in failing
  OBVIOUS
<1>2. \A j \in failing : k <= j
  OBVIOUS
<1>3. Min(failing) = k
  <2> HIDE DEF failing
  <2> QED
    BY <1>1, <1>2, MinIsLeast
<1> QED
  BY <1>1, <1>3 DEF FirstError

LEMMA OkMeansAllHold ==
  ASSUME NEW checks, DOMAIN checks \subseteq Nat,
         \A k \in DOMAIN checks : ~checks[k][1] => checks[k][2] # "ok",
         FirstError(checks) = "ok"
  PROVE  \A k \in DOMAIN checks : checks[k][1]
<1> SUFFICES ASSUME NEW i \in DOMAIN checks, ~checks[i][1] PROVE FALSE
  OBVIOUS
<1> DEFINE failing == {j \in DOMAIN checks : ~checks[j][1]}
<1>1. failing \subseteq Nat /\ failing # {}
  OBVIOUS
<1>2. PICK k \in failing : \A j \in failing : k <= j
  <2> HIDE DEF failing
  <2> QED
    BY <1>1, Polled!LeastExists
<1>3. Min(failing) = k
  <2> HIDE DEF failing
  <2> QED
    BY <1>1, <1>2, MinIsLeast
<1>4. FirstError(checks) = checks[k][2]
  BY <1>1, <1>3 DEF FirstError
<1> QED
  BY <1>2, <1>4

(***************************************************************************)
(* SyncCodec.  What is on the wire is the encoding of our message, which   *)
(* the encoder let out, or somebody else's; the answer is the parser's.    *)
(***************************************************************************)
CodecInv ==
  /\ message \in Messages \cup {NoMessage}
  /\ message \in Messages /\ bytes # NoMessage =>
       EncodeError(message) = "ok" /\ bytes = Encode(message)
  /\ message \notin Messages /\ bytes # NoMessage => bytes \in Foreign
  /\ answer # "pending" => bytes # NoMessage /\ answer = ParseError(bytes)

LEMMA NoMessageIsNone ==
  ASSUME MessagesAreMessages
  PROVE  NoMessage \notin Messages
<1>1. NoMessage.type = "none"
  BY DEF NoMessage
<1> QED
  BY <1>1 DEF MessagesAreMessages, SignalingTypes

LEMMA CodecAlways ==
  ASSUME MessagesAreMessages
  PROVE  CodecSpec => []CodecInv
<1>1. CodecInit => CodecInv
  BY NoMessageIsNone DEF CodecInit, CodecInv
<1>2. CodecInv /\ [CodecNext]_codecVars => CodecInv'
  <2> SUFFICES ASSUME CodecInv, [CodecNext]_codecVars PROVE CodecInv'
    OBVIOUS
  <2>1. CASE SendOurs
    BY <2>1 DEF SendOurs, CodecInv
  <2>2. CASE SendForeign
    BY <2>2, NoMessageIsNone DEF SendForeign, CodecInv
  <2>3. CASE Parse
    BY <2>3 DEF Parse, CodecInv
  <2>4. CASE UNCHANGED codecVars
    BY <2>4 DEF codecVars, CodecInv
  <2> QED
    BY <2>1, <2>2, <2>3, <2>4 DEF CodecNext
<1> QED
  BY <1>1, <1>2, PTL DEF CodecSpec

LEMMA Encoded ==
  ASSUME NEW m
  PROVE  /\ Encode(m).size = m.size /\ Encode(m).form = "object"
         /\ Encode(m).v = "1" /\ Encode(m).kind = KindOf(m)
         /\ Encode(m).body = "object" /\ Encode(m).fields = BodyFields(m)
         /\ Encode(m).typed = (m.type = "pose" => m.finite)
         /\ Encode(m).content = m
BY DEF Encode

LEMMA KindOfType ==
  ASSUME NEW m,
         m.type \in {"pose", "chat", "join", "leave"} \cup SignalingTypes
  PROVE  /\ KindOf(m) \in StreamKinds
         /\ m.type = "pose" => KindOf(m) = "pose"
         /\ m.type = "chat" => KindOf(m) = "chat"
         /\ m.type \in {"join", "leave"} =>
              KindOf(m) \in {"control.join", "control.leave"}
         /\ m.type \in SignalingTypes =>
              KindOf(m) \in {"signaling.offer", "signaling.answer", "signaling.ice"}
BY DEF KindOf, StreamKinds, SignalingTypes

LEMMA OursPassFromSlice ==
  ASSUME NEW m,
         m.type \in {"pose", "chat", "join", "leave"} \cup SignalingTypes,
         m.size \in Nat, MaxBytes \in Nat
  PROVE  FromSlice(Encode(m)) = IF m.size > MaxBytes THEN "body_too_large" ELSE "ok"
<1> DEFINE b == Encode(m)
           checks ==
             << <<b.size <= MaxBytes, "body_too_large">>,
                <<b.form # "not_json", "body_json_malformed">>,
                <<b.form = "object", "body_not_object">>,
                <<b.v # "missing", "missing_version">>,
                <<b.v # "not_u32", "version_not_u32">>,
                <<b.v = "1", "unsupported_version">>,
                <<b.kind # "missing", "missing_kind">>,
                <<b.kind # "not_string", "kind_not_string">>,
                <<b.kind \in StreamKinds, "unknown_kind">>,
                <<b.body # "missing", "missing_body">>,
                <<b.body = "object", "body_not_object">> >>
<1>1. FromSlice(b) = FirstError(checks)
  BY DEF FromSlice
<1>2. /\ b.size = m.size /\ b.form = "object" /\ b.v = "1" /\ b.body = "object"
      /\ b.kind \in StreamKinds
  BY Encoded, KindOfType
<1>3. b.kind # "missing" /\ b.kind # "not_string"
  BY <1>2 DEF StreamKinds
<1> HIDE DEF b
<1>4. DOMAIN checks = 1 .. 11
  OBVIOUS
<1>5. /\ checks[1][1] <=> b.size <= MaxBytes
      /\ checks[1][2] = "body_too_large"
  OBVIOUS
<1>6. /\ checks[2][1] /\ checks[3][1] /\ checks[4][1] /\ checks[5][1]
      /\ checks[6][1] /\ checks[7][1] /\ checks[8][1] /\ checks[9][1]
      /\ checks[10][1] /\ checks[11][1]
  BY <1>2, <1>3
<1> HIDE DEF checks
<1>7. \A k \in DOMAIN checks : k # 1 => checks[k][1]
  BY <1>4, <1>6
<1>8. CASE m.size > MaxBytes
  <2>1. ~checks[1][1]
    BY <1>2, <1>5, <1>8
  <2>2. DOMAIN checks \subseteq Nat /\ 1 \in DOMAIN checks
        /\ \A j \in DOMAIN checks : ~(j < 1)
    BY <1>4
  <2> QED
    BY <1>1, <1>5, <1>8, <2>1, <2>2, FirstFails DEF b
<1>9. CASE ~(m.size > MaxBytes)
  <2>1. checks[1][1]
    BY <1>2, <1>5, <1>9
  <2>2. \A k \in DOMAIN checks : checks[k][1]
    BY <1>7, <2>1
  <2> QED
    BY <1>1, <1>9, <2>2, NoneFails DEF b
<1> QED
  BY <1>8, <1>9

LEMMA OurPoseIsRead ==
  ASSUME NEW m, m.type = "pose", EncodeError(m) = "ok"
  PROVE  PoseBodyError(Encode(m)) = IF m.finite THEN "ok" ELSE "invalid_pose"
<1> DEFINE b == Encode(m)
           sent == << <<m.version = 1, "unsupported_version">> >>
           read == << Required(b, "head", "missing_head"),
                      <<b.typed, "invalid_pose">>,
                      <<b.content.version = 1, "unsupported_version">> >>
<1>1. FirstError(sent) = "ok"
  BY DEF EncodeError, SignalingTypes
<1>2. /\ DOMAIN sent = 1 .. 1
      /\ sent[1][1] = (m.version = 1)
      /\ sent[1][2] = "unsupported_version"
  OBVIOUS
<1>3. m.version = 1
  <2> HIDE DEF sent
  <2>0. sent[1][1] <=> m.version = 1
    BY <1>2, Zenon
  <2>1. /\ DOMAIN sent \subseteq Nat
        /\ \A k \in DOMAIN sent : ~sent[k][1] => sent[k][2] # "ok"
    BY <1>2
  <2> QED
    BY <1>1, <1>2, <2>0, <2>1, OkMeansAllHold
<1>4. PoseBodyError(b) = FirstError(read)
  BY DEF PoseBodyError
<1>5. "head" \in b.fields /\ b.content = m
  BY Encoded DEF BodyFields
<1>6. b.typed <=> m.finite
  <2>1. b.typed = (m.type = "pose" => m.finite)
    BY Encoded
  <2> HIDE DEF b
  <2> QED
    BY <2>1, Zenon
<1> HIDE DEF b
<1>7. /\ DOMAIN read = 1 .. 3
      /\ read[1][1] = ("head" \in b.fields)
      /\ read[2][1] = b.typed
      /\ read[2][2] = "invalid_pose"
      /\ read[3][1] = (b.content.version = 1)
  BY DEF Required
<1> HIDE DEF read
<1>8. /\ read[1][1] <=> "head" \in b.fields
      /\ read[2][1] <=> b.typed
      /\ read[3][1] <=> b.content.version = 1
  BY <1>7, Zenon
<1>9. read[1][1] /\ read[3][1] /\ (read[2][1] <=> m.finite)
  <2>1. b.content.version = 1
    BY <1>3, <1>5
  <2> QED
    BY <1>5, <1>6, <1>8, <2>1, Zenon
<1>10. CASE m.finite
  <2>0. read[2][1]
    BY <1>9, <1>10, Zenon
  <2>1. \A k \in DOMAIN read : read[k][1]
    BY <1>7, <1>9, <2>0
  <2> QED
    BY <1>4, <1>10, <2>1, NoneFails DEF b
<1>11. CASE ~m.finite
  <2>0. ~read[2][1]
    BY <1>9, <1>11, Zenon
  <2>1. DOMAIN read \subseteq Nat /\ 2 \in DOMAIN read
    BY <1>7
  <2>2. \A j \in DOMAIN read : j < 2 => read[j][1]
    BY <1>7, <1>9
  <2> QED
    BY <1>4, <1>7, <1>11, <2>0, <2>1, <2>2, FirstFails DEF b
<1> QED
  BY <1>10, <1>11

LEMMA OurSignalingIsRead ==
  ASSUME NEW m, m.type \in SignalingTypes, EncodeError(m) = "ok"
  PROVE  SignalingBodyError(Encode(m)) = "ok"
<1> DEFINE b == Encode(m)
           type == b.content.type
           checks ==
             << Required(b, "type", "missing_type"),
                <<type \in SignalingTypes, "unsupported_kind">>,
                Required(b, "roomId", "missing_room_id"),
                Required(b, "authToken", "missing_auth_token"),
                <<type = "offer" => "icePolicy" \in b.fields, "missing_ice_policy">>,
                <<type \in {"offer", "answer"} => "sdp" \in b.fields, "missing_sdp">>,
                <<type = "ice" => "candidate" \in b.fields, "missing_candidate">>,
                <<b.typed, "invalid_signaling">>,
                <<ValidateSignaling(b.content) = "ok", ValidateSignaling(b.content)>> >>
<1>1. SignalingBodyError(b) = FirstError(checks)
  BY DEF SignalingBodyError
<1>2. m.type \in {"offer", "answer", "ice"}
  BY DEF SignalingTypes
<1>3. ValidateSignaling(m) = "ok"
  BY <1>2 DEF EncodeError, SignalingTypes
<1>4. b.content = m /\ b.typed /\ b.fields = BodyFields(m)
  BY <1>2, Encoded
<1>5. /\ {"type", "roomId", "authToken"} \subseteq b.fields
      /\ m.type = "offer" => "icePolicy" \in b.fields
      /\ m.type \in {"offer", "answer"} => "sdp" \in b.fields
      /\ m.type = "ice" => "candidate" \in b.fields
  BY <1>2, <1>4 DEF BodyFields
<1> HIDE DEF b
<1>6. DOMAIN checks = 1 .. 9
  OBVIOUS
<1>7. checks[1][1] /\ checks[2][1] /\ checks[3][1] /\ checks[4][1]
  BY <1>4, <1>5 DEF Required
<1>8. checks[5][1] /\ checks[6][1] /\ checks[7][1] /\ checks[8][1] /\ checks[9][1]
  BY <1>3, <1>4, <1>5
<1> HIDE DEF checks
<1>9. \A k \in DOMAIN checks : checks[k][1]
  BY <1>6, <1>7, <1>8
<1> QED
  BY <1>1, <1>9, NoneFails DEF b

LEMMA OursIsRead ==
  ASSUME NEW m,
         m.type \in {"pose", "chat", "join", "leave"} \cup SignalingTypes,
         EncodeError(m) = "ok"
  PROVE  BodyError(Encode(m)) = IF m.type = "pose" /\ ~m.finite THEN "invalid_pose" ELSE "ok"
<1>1. CASE m.type = "pose"
  <2>1. Encode(m).kind = "pose"
    BY <1>1, Encoded, KindOfType
  <2> QED
    BY <1>1, <2>1, OurPoseIsRead DEF BodyError
<1>2. CASE m.type = "chat"
  <2>1. Encode(m).kind = "chat" /\ Encode(m).typed /\ Encode(m).content = m
    <3>1. Encode(m).typed /\ Encode(m).content = m /\ Encode(m).kind = KindOf(m)
      BY <1>2 DEF Encode
    <3>2. KindOf(m) = "chat"
      BY <1>2 DEF KindOf
    <3> QED
      BY <3>1, <3>2
  <2>2. ValidateChat(m) = "ok"
    BY <1>2 DEF EncodeError, SignalingTypes
  <2> DEFINE b == Encode(m)
  <2>3. b.kind = "chat" /\ b.typed /\ ValidateChat(b.content) = "ok"
    BY <2>1, <2>2
  <2> HIDE DEF b
  <2>4. ChatBodyError(b) = "ok"
    BY <2>3 DEF ChatBodyError
  <2>5. BodyError(b) = "ok"
    BY <2>3, <2>4 DEF BodyError
  <2> QED
    BY <1>2, <2>5 DEF b
<1>3. CASE m.type \in {"join", "leave"}
  <2>1. Encode(m).kind \in {"control.join", "control.leave"} /\ Encode(m).typed
    BY <1>3, Encoded, KindOfType
  <2> QED
    BY <1>3, <2>1 DEF BodyError, ControlBodyError
<1>4. CASE m.type \in SignalingTypes
  <2>1. Encode(m).kind \in {"signaling.offer", "signaling.answer", "signaling.ice"}
    BY <1>4, Encoded, KindOfType
  <2>2. SignalingBodyError(Encode(m)) = "ok" /\ m.type # "pose"
    BY <1>4, OurSignalingIsRead DEF SignalingTypes
  <2>3. BodyError(Encode(m)) = SignalingBodyError(Encode(m))
    BY <2>1 DEF BodyError
  <2> QED
    BY <2>2, <2>3
<1> QED
  BY <1>1, <1>2, <1>3, <1>4

(***************************************************************************)
(* The parser of a peer reads whatever our encoder lets out, but for an    *)
(* envelope that is too large and a pose whose coordinates are not         *)
(* numbers: for every length and every limit.  (envelope.rs lines 28 to    *)
(* 158 and from_json_body of the message types)                            *)
(***************************************************************************)
THEOREM EncoderMeetsParser == CodecSpec => []EncodedIsAccepted
<1> USE CodecAssumption
<1>1. CodecInv => EncodedIsAccepted
  <2> SUFFICES ASSUME CodecInv, message # NoMessage, answer # "pending"
               PROVE  answer =
                        IF message.size > MaxBytes THEN "body_too_large"
                        ELSE IF message.type = "pose" /\ ~message.finite THEN "invalid_pose"
                        ELSE "ok"
    BY DEF EncodedIsAccepted
  <2>1. /\ message \in Messages /\ EncodeError(message) = "ok"
        /\ answer = ParseError(Encode(message))
    BY DEF CodecInv
  <2>2. /\ message.size \in Nat /\ MaxBytes \in Nat
        /\ message.type \in {"pose", "chat", "join", "leave"} \cup SignalingTypes
    BY <2>1, MessageBounds DEF MessagesAreMessages
  <2>3. FromSlice(Encode(message)) =
          IF message.size > MaxBytes THEN "body_too_large" ELSE "ok"
    BY <2>2, OursPassFromSlice
  <2>4. BodyError(Encode(message)) =
          IF message.type = "pose" /\ ~message.finite THEN "invalid_pose" ELSE "ok"
    BY <2>1, <2>2, OursIsRead
  <2> QED
    BY <2>1, <2>2, <2>3, <2>4 DEF ParseError
<1> QED
  BY <1>1, CodecAlways, PTL

LEMMA AcceptedPose ==
  ASSUME NEW b, PoseBodyError(b) = "ok"
  PROVE  b.typed /\ b.content.version = 1
<1> DEFINE checks == << Required(b, "head", "missing_head"),
                        <<b.typed, "invalid_pose">>,
                        <<b.content.version = 1, "unsupported_version">> >>
<1>1. FirstError(checks) = "ok"
  BY DEF PoseBodyError
<1>2. /\ DOMAIN checks = 1 .. 3
      /\ checks[1][2] = "missing_head" /\ checks[2][2] = "invalid_pose"
      /\ checks[3][2] = "unsupported_version"
      /\ checks[2][1] = b.typed
      /\ checks[3][1] = (b.content.version = 1)
  BY DEF Required
<1> HIDE DEF checks
<1>3. \A k \in DOMAIN checks : checks[k][2] # "ok"
  BY <1>2
<1>4. DOMAIN checks \subseteq Nat
  BY <1>2
<1>5. \A k \in DOMAIN checks : checks[k][1]
  BY <1>1, <1>3, <1>4, OkMeansAllHold
<1>6. checks[2][1] /\ checks[3][1]
  BY <1>2, <1>5
<1> QED
  BY <1>2, <1>6, Zenon

LEMMA AcceptedSignaling ==
  ASSUME NEW b, SignalingBodyError(b) = "ok"
  PROVE  b.content.type \in SignalingTypes /\ ValidateSignaling(b.content) = "ok"
<1> DEFINE type == b.content.type
           checks ==
             << Required(b, "type", "missing_type"),
                <<type \in SignalingTypes, "unsupported_kind">>,
                Required(b, "roomId", "missing_room_id"),
                Required(b, "authToken", "missing_auth_token"),
                <<type = "offer" => "icePolicy" \in b.fields, "missing_ice_policy">>,
                <<type \in {"offer", "answer"} => "sdp" \in b.fields, "missing_sdp">>,
                <<type = "ice" => "candidate" \in b.fields, "missing_candidate">>,
                <<b.typed, "invalid_signaling">>,
                <<ValidateSignaling(b.content) = "ok", ValidateSignaling(b.content)>> >>
<1>1. FirstError(checks) = "ok"
  BY DEF SignalingBodyError
<1>2. /\ DOMAIN checks = 1 .. 9
      /\ checks[1][2] = "missing_type" /\ checks[2][2] = "unsupported_kind"
      /\ checks[3][2] = "missing_room_id" /\ checks[4][2] = "missing_auth_token"
      /\ checks[5][2] = "missing_ice_policy" /\ checks[6][2] = "missing_sdp"
      /\ checks[7][2] = "missing_candidate" /\ checks[8][2] = "invalid_signaling"
      /\ checks[9][2] = ValidateSignaling(b.content)
  BY DEF Required
<1>3. /\ checks[2][1] <=> b.content.type \in SignalingTypes
      /\ checks[9][1] <=> ValidateSignaling(b.content) = "ok"
  OBVIOUS
<1> HIDE DEF checks
<1>4. \A k \in DOMAIN checks : ~checks[k][1] => checks[k][2] # "ok"
  BY <1>2, <1>3
<1>5. DOMAIN checks \subseteq Nat
  BY <1>2
<1>6. \A k \in DOMAIN checks : checks[k][1]
  BY <1>1, <1>4, <1>5, OkMeansAllHold
<1> QED
  BY <1>2, <1>3, <1>6

LEMMA AcceptedBody ==
  ASSUME NEW b, BodyError(b) = "ok",
         b.kind = "pose" /\ b.typed => b.content.type = "pose",
         b.kind = "chat" /\ b.typed => b.content.type = "chat",
         b.kind \in {"control.join", "control.leave"} /\ b.typed =>
           b.content.type \in {"join", "leave"}
  PROVE  EncodeError(b.content) = "ok"
<1>1. CASE b.kind = "pose"
  <2>1. b.content.version = 1 /\ b.content.type = "pose"
    BY <1>1, AcceptedPose DEF BodyError
  <2> DEFINE checks == << <<b.content.version = 1, "unsupported_version">> >>
  <2>2. EncodeError(b.content) = FirstError(checks)
    BY <2>1 DEF EncodeError, SignalingTypes
  <2>3. DOMAIN checks = 1 .. 1 /\ checks[1][1] = (b.content.version = 1)
    OBVIOUS
  <2> HIDE DEF checks
  <2>4. checks[1][1]
    BY <2>1, <2>3, Zenon
  <2>5. \A k \in DOMAIN checks : checks[k][1]
    BY <2>3, <2>4
  <2> QED
    BY <2>2, <2>5, NoneFails
<1>2. CASE b.kind = "chat"
  <2>1. ChatBodyError(b) = "ok"
    BY <1>2 DEF BodyError
  <2>2. b.typed /\ ValidateChat(b.content) = "ok"
    BY <2>1 DEF ChatBodyError
  <2> QED
    BY <1>2, <2>2 DEF EncodeError, SignalingTypes
<1>3. CASE b.kind \in {"control.join", "control.leave"}
  <2>1. ControlBodyError(b) = "ok"
    BY <1>3 DEF BodyError
  <2>2. b.content.type \in {"join", "leave"}
    BY <1>3, <2>1 DEF ControlBodyError
  <2> QED
    BY <2>2 DEF EncodeError, SignalingTypes
<1>4. CASE b.kind \in {"signaling.offer", "signaling.answer", "signaling.ice"}
  <2>1. SignalingBodyError(b) = "ok"
    BY <1>4 DEF BodyError
  <2>2. b.content.type \in SignalingTypes /\ ValidateSignaling(b.content) = "ok"
    BY <2>1, AcceptedSignaling
  <2> QED
    BY <2>2 DEF EncodeError, SignalingTypes
<1> QED
  BY <1>1, <1>2, <1>3, <1>4 DEF BodyError

(***************************************************************************)
(* What the parser lets in, from whatever software it came, the            *)
(* application could have sent itself.  (envelope.rs lines 28 to 158 and   *)
(* from_json_body of the message types)                                    *)
(***************************************************************************)
THEOREM ParserMeetsEncoder == CodecSpec => []AcceptedIsSendable
<1> USE CodecAssumption
<1>1. CodecInv => AcceptedIsSendable
  <2> SUFFICES ASSUME CodecInv, answer = "ok" PROVE EncodeError(bytes.content) = "ok"
    BY DEF AcceptedIsSendable
  <2>1. bytes # NoMessage /\ ParseError(bytes) = "ok"
    BY DEF CodecInv
  <2>2. CASE message \in Messages
    BY <2>1, <2>2, Encoded DEF CodecInv
  <2>3. CASE message \notin Messages
    <3>1. bytes \in Foreign
      BY <2>1, <2>3 DEF CodecInv
    <3>2. BodyError(bytes) = "ok"
      BY <2>1 DEF ParseError
    <3> QED
      BY <3>1, <3>2, AcceptedBody DEF ForeignIsTyped
  <2> QED
    BY <2>2, <2>3
<1> QED
  BY <1>1, CodecAlways, PTL
-----------------------------------------------------------------------------
(***************************************************************************)
(* SignalingAdapter.  The messages of the inbox are handled one after the  *)
(* other; what holds of the participants and their connections before a    *)
(* message holds after it.                                                 *)
(***************************************************************************)
LEMMA PollIsSeries ==
  ASSUME NEW q, NEW n \in Nat, DOMAIN q = 1 .. n, NEW base
  PROVE  \E h : /\ Polled!IsSeries(h, n, base, q)
                /\ h[n] = FoldLeft(ShapeIncoming, base, q)
<1>1. PICK f : f = CHOOSE g : g = [s \in SUBSET DOMAIN q |->
                 IF s = {} THEN base
                 ELSE ShapeIncoming(g[s \ {Polled!Top(s)}], q[Polled!Top(s)])]
  OBVIOUS
<1>2. FoldLeft(ShapeIncoming, base, q) = f[DOMAIN q]
  BY <1>1 DEF FoldLeft, MapThenFoldSet, Max, Polled!Top
<1>3. \E g : Polled!IsFold(g, n, base, q)
  BY Polled!FoldExists
<1>4. Polled!IsFold(f, n, base, q)
  BY <1>1, <1>3 DEF Polled!IsFold
<1>5. \E h : Polled!IsSeries(h, n, base, q) /\ h[n] = f[1 .. n]
  BY <1>4, Polled!FoldSteps
<1> QED
  BY <1>2, <1>5

Accounted(a) ==
  /\ DOMAIN a = {"active", "sessions", "events"}
  /\ a.active \subseteq Peers
  /\ a.sessions \in [Peers -> {0, 1}]
  /\ \A p \in Peers : a.sessions[p] = 1 => p \in a.active

LEMMA ShapedIsAccounted ==
  ASSUME NEW a, Accounted(a), NEW msg
  PROVE  Accounted(ShapeIncoming(a, msg))
<1> DEFINE p == msg.from
           tracked == Track(a, msg)
           existing == Known(a, msg)
           error == ValidateSignaling(Shaped(msg))
<1>1. /\ Accounted(tracked) /\ tracked.sessions = a.sessions
      /\ msg.type = "offer" /\ p \in Peers => p \in tracked.active
  <2>1. CASE msg.type = "offer" /\ p \in Peers
    <3>1. tracked = [a EXCEPT !.active = @ \cup {p}]
      BY <2>1 DEF Track
    <3>2. /\ DOMAIN tracked = DOMAIN a /\ tracked.sessions = a.sessions
          /\ tracked.active = a.active \cup {p}
      BY <3>1 DEF Accounted
    <3> QED
      BY <2>1, <3>2 DEF Accounted
  <2>2. CASE ~(msg.type = "offer" /\ p \in Peers)
    BY <2>2 DEF Track
  <2> QED
    BY <2>1, <2>2
<1>2. existing => p \in Peers /\ msg.type = "offer"
  BY DEF Known, Accounted
<1>3. ~existing /\ msg.type = "offer" /\ p \in Peers => a.sessions[p] = 0
  BY DEF Known, Accounted
<1> HIDE DEF tracked, existing
<1>4. ASSUME NEW b, Accounted(b), p \in Peers, NEW events
      PROVE  /\ DOMAIN Closed(b, p, events) = {"active", "sessions", "events"}
             /\ Closed(b, p, events).active = b.active
             /\ Closed(b, p, events).sessions = [b.sessions EXCEPT ![p] = 0]
  BY <1>4 DEF Closed, Accounted
<1>5. Accounted(EmitInvalid(tracked, msg, error, existing))
  <2> DEFINE b == [tracked EXCEPT !.events = Append(@, <<"InvalidPayload", error>>)]
             c == [b EXCEPT !.active = @ \ {p}]
  <2>1. /\ DOMAIN b = {"active", "sessions", "events"}
        /\ b.active = tracked.active /\ b.sessions = tracked.sessions
    BY <1>1 DEF Accounted
  <2>2. Accounted(b)
    BY <1>1, <2>1 DEF Accounted
  <2>3. CASE existing
    <3>1. EmitInvalid(tracked, msg, error, existing) = Closed(c, p, <<>>)
      BY <2>3 DEF EmitInvalid
    <3> HIDE DEF b
    <3>2. /\ DOMAIN c = {"active", "sessions", "events"}
          /\ c.active = b.active \ {p} /\ c.sessions = b.sessions
      BY <2>1
    <3> DEFINE d == Closed(c, p, <<>>)
    <3>3. /\ DOMAIN d = {"active", "sessions", "events"}
          /\ d.active = c.active /\ d.sessions = [c.sessions EXCEPT ![p] = 0]
      <4> HIDE DEF c
      <4> QED
        BY <3>2 DEF Closed
    <3> HIDE DEF c, d
    <3>4. /\ b.sessions \in [Peers -> {0, 1}] /\ b.active \subseteq Peers
          /\ \A o \in Peers : b.sessions[o] = 1 => o \in b.active
      BY <2>2 DEF Accounted
    <3>5. d.sessions = [b.sessions EXCEPT ![p] = 0] /\ d.active = b.active \ {p}
      BY <3>2, <3>3
    <3>6. d.sessions \in [Peers -> {0, 1}]
      BY <3>4, <3>5
    <3>7. \A o \in Peers : d.sessions[o] = 1 => o \in d.active
      BY <3>4, <3>5
    <3>8. Accounted(d)
      BY <3>3, <3>4, <3>5, <3>6, <3>7 DEF Accounted
    <3> QED
      BY <3>1, <3>8 DEF d
  <2>4. CASE ~existing
    BY <2>2, <2>4 DEF EmitInvalid
  <2> QED
    BY <2>3, <2>4
<1> DEFINE before == IF existing
                     THEN Closed(tracked, p, << <<"PeerJoined", p>> >>) ELSE tracked
<1>6. /\ Accounted(before) /\ before.active = tracked.active
      /\ msg.type = "offer" /\ p \in Peers => before.sessions[p] = 0
  <2>1. CASE existing
    <3> DEFINE d == Closed(tracked, p, << <<"PeerJoined", p>> >>)
    <3>1. /\ DOMAIN d = {"active", "sessions", "events"}
          /\ d.active = tracked.active
          /\ d.sessions = [tracked.sessions EXCEPT ![p] = 0]
      BY <1>1, <1>2, <1>4, <2>1
    <3> HIDE DEF d
    <3>2. Accounted(d) /\ d.sessions[p] = 0
      BY <1>1, <1>2, <2>1, <3>1 DEF Accounted
    <3> QED
      BY <2>1, <3>1, <3>2 DEF d
  <2>2. CASE ~existing
    BY <1>1, <1>3, <2>2
  <2> QED
    BY <2>1, <2>2
<1> HIDE DEF before
<1>7. Accounted(LetThrough(before, msg))
  <2>1. CASE msg.type = "offer" /\ p \in Peers
    <3> DEFINE d == LetThrough(before, msg)
    <3>1. d = [before EXCEPT !.sessions[p] = @ + 1]
      BY <2>1 DEF LetThrough
    <3>2. /\ DOMAIN d = {"active", "sessions", "events"}
          /\ d.active = before.active
          /\ d.sessions = [before.sessions EXCEPT ![p] = @ + 1]
      BY <1>6, <3>1 DEF Accounted
    <3> HIDE DEF d
    <3>3. p \in before.active /\ before.sessions[p] = 0
      BY <1>1, <1>6, <2>1
    <3>4. d.sessions = [before.sessions EXCEPT ![p] = 1]
      BY <3>2, <3>3
    <3>5. before.sessions \in [Peers -> {0, 1}] /\ before.active \subseteq Peers
      BY <1>6 DEF Accounted
    <3>6. d.sessions \in [Peers -> {0, 1}]
      BY <2>1, <3>4, <3>5
    <3>7. \A o \in Peers : d.sessions[o] = 1 => o \in d.active
      <4>1. \A o \in Peers : before.sessions[o] = 1 => o \in before.active
        BY <1>6 DEF Accounted
      <4> QED
        BY <3>2, <3>3, <3>4, <3>5, <4>1
    <3>8. Accounted(d)
      BY <3>2, <3>5, <3>6, <3>7 DEF Accounted
    <3> QED
      BY <3>8 DEF d
  <2>2. CASE ~(msg.type = "offer" /\ p \in Peers)
    BY <1>6, <2>2 DEF LetThrough
  <2> QED
    BY <2>1, <2>2
<1>8. ShapeIncoming(a, msg) \in
        {a, EmitInvalid(tracked, msg, error, existing), LetThrough(before, msg)}
  BY DEF ShapeIncoming, before, tracked, existing
<1> QED
  BY <1>5, <1>7, <1>8

AdapterInv ==
  /\ \E M : inbox \in Seq(M)
  /\ active \subseteq Peers
  /\ sessions \in [Peers -> {0, 1}]
  /\ \A p \in Peers : sessions[p] = 1 => p \in active

LEMMA PollStep ==
  ASSUME AdapterInv, Poll
  PROVE  AdapterInv'
<1> DEFINE before == [active |-> active, sessions |-> sessions, events |-> <<>>]
           after == FoldLeft(ShapeIncoming, before, inbox)
<1>1. /\ active' = after.active /\ sessions' = after.sessions /\ inbox' = <<>>
  BY DEF Poll
<1>2. Accounted(before)
  BY DEF Accounted, AdapterInv
<1>3. PICK n \in Nat : DOMAIN inbox = 1 .. n
  BY DEF AdapterInv
<1> HIDE DEF before
<1>4. PICK h : Polled!IsSeries(h, n, before, inbox) /\ h[n] = after
  BY <1>3, PollIsSeries
<1> DEFINE S == {k \in 0 .. n : Accounted(h[k])}
<1>5. 0 \in S
  BY <1>2, <1>4 DEF Polled!IsSeries
<1>6. \A k \in 1 .. n : k - 1 \in S => k \in S
  BY <1>4, ShapedIsAccounted DEF Polled!IsSeries
<1>7. n \in S
  <2> HIDE DEF S
  <2> QED
    BY <1>5, <1>6, Polled!IndexInduction
<1>8. Accounted(after)
  BY <1>4, <1>7
<1> HIDE DEF after
<1>9. inbox' \in Seq({})
  BY <1>1
<1> QED
  BY <1>1, <1>8, <1>9 DEF Accounted, AdapterInv

LEMMA AdapterAlways == AdapterSpec => []AdapterInv
<1>1. AdapterInit => AdapterInv
  <2> SUFFICES ASSUME AdapterInit PROVE AdapterInv
    OBVIOUS
  <2>1. inbox \in Seq({})
    BY DEF AdapterInit
  <2> QED
    BY <2>1 DEF AdapterInit, AdapterInv
<1>2. AdapterInv /\ [AdapterNext]_adapterVars => AdapterInv'
  <2> SUFFICES ASSUME AdapterInv, [AdapterNext]_adapterVars PROVE AdapterInv'
    OBVIOUS
  <2>1. CASE PushIncoming
    <3>1. PICK msg : inbox' = Append(inbox, msg)
      BY <2>1 DEF PushIncoming
    <3>2. PICK M : inbox \in Seq(M)
      BY DEF AdapterInv
    <3>3. inbox \in Seq(M \cup {msg})
      BY <3>2
    <3>4. inbox' \in Seq(M \cup {msg})
      BY <3>1, <3>3
    <3> QED
      BY <2>1, <3>4 DEF PushIncoming, AdapterInv
  <2>2. CASE Poll
    BY <2>2, PollStep
  <2>3. CASE UNCHANGED adapterVars
    BY <2>3 DEF adapterVars, AdapterInv
  <2> QED
    BY <2>1, <2>2, <2>3 DEF AdapterNext
<1> QED
  BY <1>1, <1>2, PTL DEF AdapterSpec

(***************************************************************************)
(* A participant never has two peer connections, for any number of         *)
(* participants, contexts, payloads and messages between two polls.        *)
(* (signaling_adapter.rs lines 213 to 275)                                 *)
(***************************************************************************)
THEOREM OneSessionEach == AdapterSpec => []OneSessionPerPeer
<1>1. AdapterInv => OneSessionPerPeer
  BY DEF AdapterInv, OneSessionPerPeer
<1> QED
  BY <1>1, AdapterAlways, PTL

(***************************************************************************)
(* A participant the adapter has forgotten has no connection left open.    *)
(* (signaling_adapter.rs lines 213 to 249)                                 *)
(***************************************************************************)
THEOREM ForgottenMeansClosed == AdapterSpec => []ForgottenIsClosed
<1>1. AdapterInv => ForgottenIsClosed
  BY DEF AdapterInv, ForgottenIsClosed
<1> QED
  BY <1>1, AdapterAlways, PTL

(***************************************************************************)
(* Sequences.  The order of a table lists nobody twice, and taking the     *)
(* first occurrence of somebody out of it takes him out.                   *)
(***************************************************************************)
ASeq(q) == \E M : q \in Seq(M)

LEMMA ASeqFacts ==
  ASSUME NEW q, ASeq(q)
  PROVE  Len(q) \in Nat /\ DOMAIN q = 1 .. Len(q)
BY DEF ASeq

LEMMA JoinedSeq ==
  ASSUME NEW p, NEW q, ASeq(p), ASeq(q)
  PROVE  /\ ASeq(p \o q) /\ Len(p \o q) = Len(p) + Len(q)
         /\ \A k \in 1 .. Len(p) : (p \o q)[k] = p[k]
         /\ \A k \in 1 .. Len(q) : (p \o q)[Len(p) + k] = q[k]
<1>1. PICK M : p \in Seq(M)
  BY DEF ASeq
<1>2. PICK N : q \in Seq(N)
  BY DEF ASeq
<1>3. p \in Seq(M \cup N) /\ q \in Seq(M \cup N)
  BY <1>1, <1>2
<1>4. Len(p) \in Nat /\ Len(q) \in Nat
  BY <1>3
<1>5. /\ p \o q \in Seq(M \cup N) /\ Len(p \o q) = Len(p) + Len(q)
      /\ \A i \in 1 .. Len(p) + Len(q) :
           (p \o q)[i] = IF i <= Len(p) THEN p[i] ELSE q[i - Len(p)]
  BY <1>3, ConcatProperties
<1>6. ASSUME NEW k \in 1 .. Len(p) PROVE (p \o q)[k] = p[k]
  BY <1>4, <1>5
<1>7. ASSUME NEW k \in 1 .. Len(q) PROVE (p \o q)[Len(p) + k] = q[k]
  <2>1. /\ Len(p) + k \in 1 .. Len(p) + Len(q) /\ ~(Len(p) + k <= Len(p))
        /\ Len(p) + k - Len(p) = k
    BY <1>4
  <2> QED
    BY <1>5, <2>1
<1> QED
  BY <1>5, <1>6, <1>7 DEF ASeq

LEMMA Appended ==
  ASSUME NEW q, ASeq(q), NEW x
  PROVE  /\ ASeq(Append(q, x)) /\ Append(q, x) = q \o <<x>>
         /\ Len(Append(q, x)) = Len(q) + 1
         /\ \A k \in 1 .. Len(q) : Append(q, x)[k] = q[k]
         /\ Append(q, x)[Len(q) + 1] = x
<1>1. PICK M : q \in Seq(M)
  BY DEF ASeq
<1>2. q \in Seq(M \cup {x})
  BY <1>1
<1>3. /\ Append(q, x) \in Seq(M \cup {x}) /\ Append(q, x) = q \o <<x>>
      /\ Len(Append(q, x)) = Len(q) + 1
      /\ \A k \in 1 .. Len(q) : Append(q, x)[k] = q[k]
      /\ Append(q, x)[Len(q) + 1] = x
  BY <1>2, AppendProperties, AppendIsConcat
<1> QED
  BY <1>3 DEF ASeq

LEMMA RemovedAt ==
  ASSUME NEW q, ASeq(q), NEW i \in 1 .. Len(q)
  PROVE  /\ ASeq(RemoveAt(q, i)) /\ Len(RemoveAt(q, i)) = Len(q) - 1
         /\ \A k \in 1 .. Len(q) - 1 :
              RemoveAt(q, i)[k] = IF k < i THEN q[k] ELSE q[k + 1]
<1> DEFINE front == SubSeq(q, 1, i - 1)
           back == SubSeq(q, i + 1, Len(q))
<1>1. PICK M : q \in Seq(M)
  BY DEF ASeq
<1>2. Len(q) \in Nat /\ \A k \in 1 .. Len(q) : q[k] \in M
  BY <1>1
<1>3. /\ front \in Seq(M) /\ Len(front) = i - 1
      /\ \A k \in 1 .. i - 1 : front[k] = q[k]
  <2>1. \A k \in 1 .. i - 1 : q[k] \in M
    BY <1>2
  <2>2. /\ front \in Seq(M)
        /\ Len(front) = IF 1 <= i - 1 THEN i - 1 - 1 + 1 ELSE 0
        /\ \A k \in 1 .. i - 1 - 1 + 1 : front[k] = q[1 + k - 1]
    BY <1>2, <2>1, SubSeqProperties
  <2> HIDE DEF front
  <2> QED
    BY <1>2, <2>2
<1>4. /\ back \in Seq(M) /\ Len(back) = Len(q) - i
      /\ \A k \in 1 .. Len(q) - i : back[k] = q[k + i]
  <2>1. \A k \in i + 1 .. Len(q) : q[k] \in M
    BY <1>2
  <2>2. /\ back \in Seq(M)
        /\ Len(back) = IF i + 1 <= Len(q) THEN Len(q) - (i + 1) + 1 ELSE 0
        /\ \A k \in 1 .. Len(q) - (i + 1) + 1 : back[k] = q[i + 1 + k - 1]
    BY <1>2, <2>1, SubSeqProperties
  <2> HIDE DEF back
  <2>3. Len(back) = Len(q) - i
    BY <1>2, <2>2
  <2>4. ASSUME NEW k \in 1 .. Len(q) - i PROVE back[k] = q[k + i]
    <3>1. k \in 1 .. Len(q) - (i + 1) + 1 /\ i + 1 + k - 1 = k + i
      BY <1>2
    <3> QED
      BY <2>2, <3>1
  <2> QED
    BY <2>2, <2>3, <2>4
<1>5. RemoveAt(q, i) = front \o back
  BY DEF RemoveAt
<1> HIDE DEF front, back
<1>6. /\ ASeq(front \o back) /\ Len(front \o back) = Len(front) + Len(back)
      /\ \A k \in 1 .. Len(front) : (front \o back)[k] = front[k]
      /\ \A k \in 1 .. Len(back) : (front \o back)[Len(front) + k] = back[k]
  <2>1. ASeq(front) /\ ASeq(back)
    BY <1>3, <1>4 DEF ASeq
  <2> QED
    BY <2>1, JoinedSeq
<1>7. ASSUME NEW k \in 1 .. Len(q) - 1
      PROVE  (front \o back)[k] = IF k < i THEN q[k] ELSE q[k + 1]
  <2>1. CASE k < i
    BY <1>2, <1>3, <1>6, <2>1
  <2>2. CASE ~(k < i)
    <3>1. PICK j \in 1 .. Len(q) - i : k = (i - 1) + j
      <4>1. k - (i - 1) \in 1 .. Len(q) - i /\ k = (i - 1) + (k - (i - 1))
        BY <1>2, <2>2
      <4> QED
        BY <4>1
    <3>2. (front \o back)[k] = back[j]
      BY <1>3, <1>4, <1>6, <3>1
    <3>3. back[j] = q[j + i] /\ j + i = k + 1
      BY <1>2, <1>4, <3>1
    <3> QED
      BY <2>2, <3>2, <3>3
  <2> QED
    BY <2>1, <2>2
<1> QED
  BY <1>2, <1>3, <1>4, <1>5, <1>6, <1>7

LEMMA RemovedFirst ==
  ASSUME NEW q, ASeq(q), IsInjective(q), NEW x
  PROVE  /\ ASeq(RemoveFirst(q, x)) /\ IsInjective(RemoveFirst(q, x))
         /\ ToSet(RemoveFirst(q, x)) = ToSet(q) \ {x}
         /\ x \notin ToSet(q) => RemoveFirst(q, x) = q
<1>1. Len(q) \in Nat /\ DOMAIN q = 1 .. Len(q)
  BY ASeqFacts
<1>2. CASE x \notin ToSet(q)
  <2>1. ~\E i \in 1 .. Len(q) : q[i] = x
    BY <1>1, <1>2 DEF ToSet
  <2>2. RemoveFirst(q, x) = q
    BY <2>1 DEF RemoveFirst
  <2> QED
    BY <1>2, <2>2
<1>3. CASE x \in ToSet(q)
  <2>1. PICK i \in 1 .. Len(q) : q[i] = x
    BY <1>1, <1>3 DEF ToSet
  <2> DEFINE I == {j \in 1 .. Len(q) : q[j] = x}
             t == RemoveAt(q, i)
  <2>2. I = {i}
    BY <1>1, <2>1 DEF IsInjective
  <2>3. Min(I) = i
    <3>1. I \subseteq Nat /\ i \in I /\ \A y \in I : i <= y
      BY <1>1, <2>2
    <3> HIDE DEF I
    <3> QED
      BY <3>1, MinIsLeast
  <2>4. RemoveFirst(q, x) = t
    <3>1. RemoveFirst(q, x) = RemoveAt(q, SelectInSeq(q, LAMBDA v : v = x))
      BY <2>1 DEF RemoveFirst
    <3>2. SelectInSeq(q, LAMBDA v : v = x) = i
      BY <2>2, <2>3 DEF SelectInSeq
    <3> QED
      BY <3>1, <3>2
  <2>5. /\ ASeq(t) /\ Len(t) = Len(q) - 1
        /\ \A k \in 1 .. Len(q) - 1 : t[k] = IF k < i THEN q[k] ELSE q[k + 1]
    BY RemovedAt
  <2> HIDE DEF t
  <2>6. DOMAIN t = 1 .. Len(q) - 1
    BY <2>5, ASeqFacts
  <2>7. IsInjective(t)
    <3> SUFFICES ASSUME NEW j \in 1 .. Len(q) - 1, NEW k \in 1 .. Len(q) - 1, t[j] = t[k]
                 PROVE  j = k
      BY <2>6 DEF IsInjective
    <3>1. /\ t[j] = q[IF j < i THEN j ELSE j + 1]
          /\ t[k] = q[IF k < i THEN k ELSE k + 1]
      BY <2>5
    <3>2. /\ (IF j < i THEN j ELSE j + 1) \in DOMAIN q
          /\ (IF k < i THEN k ELSE k + 1) \in DOMAIN q
      BY <1>1
    <3>3. (IF j < i THEN j ELSE j + 1) = (IF k < i THEN k ELSE k + 1)
      BY <3>1, <3>2 DEF IsInjective
    <3> QED
      BY <1>1, <3>3
  <2>8. ASSUME NEW y \in ToSet(t) PROVE y \in ToSet(q) \ {x}
    <3>1. PICK k \in 1 .. Len(q) - 1 : y = t[k]
      BY <2>6 DEF ToSet
    <3>2. PICK j \in 1 .. Len(q) : t[k] = q[j] /\ j # i
      <4>1. CASE k < i
        BY <1>1, <2>5, <4>1
      <4>2. CASE ~(k < i)
        <5>1. k + 1 \in 1 .. Len(q) /\ k + 1 # i /\ t[k] = q[k + 1]
          BY <1>1, <2>5, <4>2
        <5> QED
          BY <5>1
      <4> QED
        BY <4>1, <4>2
    <3> QED
      BY <1>1, <2>1, <3>1, <3>2 DEF IsInjective, ToSet
  <2>9. ASSUME NEW y \in ToSet(q) \ {x} PROVE y \in ToSet(t)
    <3>1. PICK j \in 1 .. Len(q) : y = q[j] /\ j # i
      BY <1>1, <2>1 DEF ToSet
    <3>2. PICK k \in 1 .. Len(q) - 1 : t[k] = q[j]
      <4>1. CASE j < i
        BY <1>1, <2>5, <4>1
      <4>2. CASE ~(j < i)
        <5>1. j - 1 \in 1 .. Len(q) - 1 /\ ~(j - 1 < i) /\ j - 1 + 1 = j
          BY <1>1, <3>1, <4>2
        <5>2. t[j - 1] = q[j]
          BY <2>5, <5>1
        <5> QED
          BY <5>1, <5>2
      <4> QED
        BY <4>1, <4>2
    <3> QED
      BY <2>6, <3>1, <3>2 DEF ToSet
  <2>10. ToSet(t) = ToSet(q) \ {x}
    BY <2>8, <2>9
  <2> QED
    BY <1>3, <2>4, <2>5, <2>7, <2>10
<1> QED
  BY <1>2, <1>3

(***************************************************************************)
(* What an application knows that follows the events: one after the other. *)
(***************************************************************************)
Followed(peers, events) == FoldLeft(Follow, peers, events)

LEMMA FollowIsSeries ==
  ASSUME NEW q, NEW n \in Nat, DOMAIN q = 1 .. n, NEW base
  PROVE  \E h : Told!IsSeries(h, n, base, q) /\ h[n] = Followed(base, q)
<1>1. PICK f : f = CHOOSE g : g = [s \in SUBSET DOMAIN q |->
                 IF s = {} THEN base
                 ELSE Follow(g[s \ {Told!Top(s)}], q[Told!Top(s)])]
  OBVIOUS
<1>2. Followed(base, q) = f[DOMAIN q]
  BY <1>1 DEF Followed, FoldLeft, MapThenFoldSet, Max, Told!Top
<1>3. \E g : Told!IsFold(g, n, base, q)
  BY Told!FoldExists
<1>4. Told!IsFold(f, n, base, q)
  BY <1>1, <1>3 DEF Told!IsFold
<1>5. \E h : Told!IsSeries(h, n, base, q) /\ h[n] = f[1 .. n]
  BY <1>4, Told!FoldSteps
<1> QED
  BY <1>2, <1>5

LEMMA FollowMore ==
  ASSUME NEW p, NEW q, ASeq(p), ASeq(q), NEW base
  PROVE  Followed(base, p \o q) = Followed(Followed(base, p), q)
<1> DEFINE n == Len(p)
           m == Len(q)
<1>1. n \in Nat /\ DOMAIN p = 1 .. n /\ m \in Nat /\ DOMAIN q = 1 .. m
  BY ASeqFacts
<1>2. /\ ASeq(p \o q) /\ Len(p \o q) = n + m
      /\ \A k \in 1 .. n : (p \o q)[k] = p[k]
      /\ \A k \in 1 .. m : (p \o q)[n + k] = q[k]
  BY JoinedSeq
<1>3. DOMAIN (p \o q) = 1 .. n + m
  BY <1>2, ASeqFacts
<1> HIDE DEF n, m
<1>0. n + m \in Nat
  BY <1>1
<1>4. PICK g : Told!IsSeries(g, n, base, p) /\ g[n] = Followed(base, p)
  BY <1>1, FollowIsSeries
<1>5. PICK h : Told!IsSeries(h, m, g[n], q) /\ h[m] = Followed(g[n], q)
  BY <1>1, FollowIsSeries
<1>6. PICK f : Told!IsSeries(f, n + m, base, p \o q) /\ f[n + m] = Followed(base, p \o q)
  <2> DEFINE r == p \o q
  <2> HIDE DEF r
  <2>1. DOMAIN r = 1 .. n + m
    BY <1>3 DEF r
  <2>2. \E f : Told!IsSeries(f, n + m, base, r) /\ f[n + m] = Followed(base, r)
    BY <1>0, <2>1, FollowIsSeries
  <2> QED
    BY <2>2 DEF r
<1>7. PICK e : Told!IsSeries(e, n + m, base, p \o q) /\ e[n + m] = h[m]
  <2> DEFINE r == p \o q
  <2> HIDE DEF r
  <2>1. Told!IsConcat(r, p, n, q, m)
    BY <1>2 DEF r, Told!IsConcat
  <2>2. \E e : Told!IsSeries(e, n + m, base, r) /\ e[n + m] = h[m]
    BY <1>1, <1>4, <1>5, <2>1, Told!SeriesJoin
  <2> QED
    BY <2>2 DEF r
<1>8. f[n + m] = e[n + m]
  BY <1>0, <1>6, <1>7, Told!SeriesAgree
<1> QED
  BY <1>4, <1>5, <1>6, <1>7, <1>8

LEMMA FollowOne ==
  ASSUME NEW base, NEW ev
  PROVE  /\ Followed(base, <<>>) = base
         /\ Followed(base, <<ev>>) = Follow(base, ev)
<1>1. Followed(base, <<>>) = base
  <2>1. DOMAIN <<>> = 1 .. 0
    OBVIOUS
  <2>2. PICK h : Told!IsSeries(h, 0, base, <<>>) /\ h[0] = Followed(base, <<>>)
    BY <2>1, FollowIsSeries
  <2> QED
    BY <2>2 DEF Told!IsSeries
<1>2. Followed(base, <<ev>>) = Follow(base, ev)
  <2>1. DOMAIN <<ev>> = 1 .. 1 /\ <<ev>>[1] = ev
    OBVIOUS
  <2>2. PICK h : Told!IsSeries(h, 1, base, <<ev>>) /\ h[1] = Followed(base, <<ev>>)
    BY <2>1, FollowIsSeries
  <2>3. 1 \in 1 .. 1 /\ 1 - 1 = 0
    OBVIOUS
  <2>4. h[0] = base /\ h[1] = Follow(h[0], <<ev>>[1])
    BY <2>2, <2>3 DEF Told!IsSeries
  <2> QED
    BY <2>1, <2>2, <2>4
<1> QED
  BY <1>1, <1>2

\* What holds of the table and the events of a drain or a request that began
\* when the application knew base.
TableOK(table) ==
  /\ ASeq(table.order) /\ IsInjective(table.order)
  /\ ToSet(table.order) = table.sessions

Accord(base, table, events) ==
  /\ TableOK(table) /\ ASeq(events)
  /\ Followed(base, events) = table.order

LEMMA JoinAccords ==
  ASSUME NEW table, TableOK(table), NEW p
  PROVE  Accord(table.order, ApplyJoin(table, p).table, ApplyJoin(table, p).events)
<1> DEFINE order == table.order
           rest == RemoveFirst(order, p)
           left == Event("PeerLeft", p)
           joined == Event("PeerJoined", p)
           after == ApplyJoin(table, p)
<1>1. /\ after.table.sessions = table.sessions \cup {p}
      /\ after.table.order = Append(rest, p)
      /\ after.events = IF p \in table.sessions THEN <<left>> \o <<joined>>
                        ELSE <<>> \o <<joined>>
  BY DEF ApplyJoin
<1>2. /\ ASeq(rest) /\ IsInjective(rest) /\ ToSet(rest) = ToSet(order) \ {p}
      /\ p \notin ToSet(order) => rest = order
  BY RemovedFirst DEF TableOK
<1>3. ToSet(order) = table.sessions
  BY DEF TableOK
<1> HIDE DEF rest, after
<1>4. /\ ASeq(Append(rest, p)) /\ Len(Append(rest, p)) = Len(rest) + 1
      /\ \A k \in 1 .. Len(rest) : Append(rest, p)[k] = rest[k]
      /\ Append(rest, p)[Len(rest) + 1] = p
  <2>1. ASeq(rest)
    BY <1>2
  <2> QED
    BY <2>1, Appended, ZenonT(40)
<1>5. Len(rest) \in Nat /\ DOMAIN rest = 1 .. Len(rest)
  <2>1. ASeq(rest)
    BY <1>2
  <2> QED
    BY <2>1, ASeqFacts
<1>6. DOMAIN Append(rest, p) = 1 .. Len(rest) + 1
  <2> DEFINE q == Append(rest, p)
  <2>1. ASeq(q) /\ Len(q) = Len(rest) + 1
    BY <1>4
  <2> HIDE DEF q
  <2>2. DOMAIN q = 1 .. Len(rest) + 1
    BY <2>1, ASeqFacts
  <2> QED
    BY <2>2 DEF q
<1>7. ToSet(Append(rest, p)) = ToSet(rest) \cup {p}
  <2>1. ToSet(Append(rest, p)) \subseteq ToSet(rest) \cup {p}
    BY <1>4, <1>5, <1>6 DEF ToSet
  <2>2. ToSet(rest) \cup {p} \subseteq ToSet(Append(rest, p))
    BY <1>4, <1>5, <1>6 DEF ToSet
  <2> QED
    BY <2>1, <2>2
<1>8. IsInjective(Append(rest, p))
  <2>1. \A k \in 1 .. Len(rest) : rest[k] # p
    BY <1>2, <1>5 DEF ToSet
  <2> QED
    BY <1>2, <1>4, <1>5, <1>6, <2>1 DEF IsInjective
<1>9. TableOK(after.table)
  BY <1>1, <1>2, <1>3, <1>4, <1>7, <1>8 DEF TableOK
<1>10. /\ \A b : Follow(b, left) = RemoveFirst(b, p)
       /\ \A b : Follow(b, joined) = Append(b, p)
  BY DEF Follow, Event
<1> DEFINE none == <<>>
           one == <<left>>
           other == <<joined>>
<1>11. ASeq(one) /\ ASeq(other) /\ ASeq(none)
  <2>1. <<left>> \in Seq({left}) /\ <<joined>> \in Seq({joined}) /\ <<>> \in Seq({})
    OBVIOUS
  <2> QED
    BY <2>1 DEF ASeq
<1>14. /\ Followed(order, none) = order
       /\ Followed(order, one) = rest
       /\ \A b : Followed(b, other) = Append(b, p)
  BY <1>10, FollowOne DEF rest
<1>15. after.events = IF p \in table.sessions THEN one \o other ELSE none \o other
  BY <1>1
<1> HIDE DEF none, one, other
<1>12. Followed(order, after.events) = Append(rest, p)
  <2>1. CASE p \in table.sessions
    <3>1. Followed(order, after.events) = Followed(Followed(order, one), other)
      BY <1>11, <1>15, <2>1, FollowMore
    <3> QED
      BY <1>14, <3>1
  <2>2. CASE p \notin table.sessions
    <3>1. Followed(order, after.events) = Followed(Followed(order, none), other)
      BY <1>11, <1>15, <2>2, FollowMore
    <3> QED
      BY <1>2, <1>3, <1>14, <2>2, <3>1
  <2> QED
    BY <2>1, <2>2
<1>13. ASeq(after.events)
  BY <1>11, <1>15, JoinedSeq
<1> QED
  BY <1>1, <1>9, <1>12, <1>13 DEF Accord, after

LEMMA LeaveAccords ==
  ASSUME NEW table, TableOK(table), NEW p
  PROVE  /\ Accord(table.order, ApplyLeave(table, p).table, ApplyLeave(table, p).events)
         /\ Accord(table.order, ApplyLeave(table, p).table, <<Event("PeerLeft", p)>>)
<1> DEFINE order == table.order
           rest == RemoveFirst(order, p)
           left == Event("PeerLeft", p)
           after == ApplyLeave(table, p)
<1>1. /\ after.table.sessions = table.sessions \ {p}
      /\ after.table.order = rest
      /\ after.events = IF p \in table.sessions THEN <<left>> ELSE <<>>
  BY DEF ApplyLeave
<1>2. /\ ASeq(rest) /\ IsInjective(rest) /\ ToSet(rest) = ToSet(order) \ {p}
      /\ p \notin ToSet(order) => rest = order
  BY RemovedFirst DEF TableOK
<1>3. ToSet(order) = table.sessions
  BY DEF TableOK
<1>4. \A b : Follow(b, left) = RemoveFirst(b, p)
  BY DEF Follow, Event
<1>5. ASeq(<<left>>) /\ ASeq(<<>>)
  <2>1. <<left>> \in Seq({left}) /\ <<>> \in Seq({})
    OBVIOUS
  <2> QED
    BY <2>1 DEF ASeq
<1> HIDE DEF left, after
<1>6. TableOK(after.table)
  <2> HIDE DEF rest
  <2> QED
    BY <1>1, <1>2, <1>3 DEF TableOK
<1>7. Followed(order, <<left>>) = rest
  BY <1>4, FollowOne
<1>8. Followed(order, after.events) = rest
  BY <1>1, <1>2, <1>3, <1>7, FollowOne
<1> HIDE DEF rest
<1> QED
  BY <1>1, <1>5, <1>6, <1>7, <1>8 DEF Accord, after, left

\* Events that are about something else change nothing for who follows.
Quiet(ev) == ev.type \notin {"PeerJoined", "PeerLeft"}

LEMMA QuietFollow ==
  ASSUME NEW ev, Quiet(ev), NEW base
  PROVE  Follow(base, ev) = base
BY DEF Follow, Quiet

LEMMA AccordMore ==
  ASSUME NEW base, NEW table, NEW events, Accord(base, table, events),
         NEW after, NEW more, Accord(table.order, after, more)
  PROVE  Accord(base, after, events \o more)
<1>1. ASeq(events) /\ ASeq(more)
  BY DEF Accord
<1>2. ASeq(events \o more)
  BY <1>1, JoinedSeq
<1>3. Followed(base, events \o more) = Followed(Followed(base, events), more)
  BY <1>1, FollowMore
<1> QED
  BY <1>2, <1>3 DEF Accord

LEMMA AccordQuiet ==
  ASSUME NEW base, NEW table, NEW events, Accord(base, table, events),
         NEW ev, Quiet(ev)
  PROVE  Accord(base, table, Append(events, ev))
<1>1. ASeq(<<ev>>)
  <2>1. <<ev>> \in Seq({ev})
    OBVIOUS
  <2> QED
    BY <2>1 DEF ASeq
<1>2. Accord(table.order, table, <<ev>>)
  BY <1>1, FollowOne, QuietFollow DEF Accord
<1>3. Append(events, ev) = events \o <<ev>>
  BY Appended DEF Accord
<1> QED
  BY <1>2, <1>3, AccordMore

(***************************************************************************)
(* BasicSyncer.  One event of the transport, then all of a drain.          *)
(***************************************************************************)
SyncerFields == {"joined", "registered", "table", "failed", "used"}

PolledTypes == {"audio", "bytes", "failure"}

Draining(acc) ==
  /\ DOMAIN acc = {"syncer", "events"} /\ DOMAIN acc.syncer = SyncerFields
  /\ TableOK(acc.syncer.table) /\ ASeq(acc.events)

\* What one or more events of a transport may change.
Advanced(acc, after) ==
  /\ Draining(after)
  /\ after.syncer.joined = acc.syncer.joined
  /\ after.syncer.registered = acc.syncer.registered
  /\ after.syncer.used = acc.syncer.used
  /\ \E more : /\ after.events = acc.events \o more
               /\ Accord(acc.syncer.table.order, after.syncer.table, more)

LEMMA ByOneEvent ==
  ASSUME NEW acc, Draining(acc), NEW after, NEW ev, Quiet(ev),
         after = [acc EXCEPT !.events = Append(@, ev)]
  PROVE  Advanced(acc, after) /\ after.syncer = acc.syncer
<1>1. /\ DOMAIN after = {"syncer", "events"} /\ after.syncer = acc.syncer
      /\ after.events = Append(acc.events, ev)
  BY DEF Draining
<1>2. after.events = acc.events \o <<ev>> /\ ASeq(after.events)
  BY <1>1, Appended DEF Draining
<1>3. ASeq(<<ev>>)
  <2>1. <<ev>> \in Seq({ev})
    OBVIOUS
  <2> QED
    BY <2>1 DEF ASeq
<1>4. Accord(acc.syncer.table.order, acc.syncer.table, <<ev>>)
  BY <1>3, FollowOne, QuietFollow DEF Accord, Draining
<1>5. Draining(after)
  BY <1>1, <1>2 DEF Draining
<1> QED
  BY <1>1, <1>2, <1>4, <1>5 DEF Advanced

LEMMA MessageObserved ==
  ASSUME NEW acc, Draining(acc), NEW m
  PROVE  /\ Advanced(acc, ObserveMessage(acc, m))
         /\ ObserveMessage(acc, m).syncer.failed = acc.syncer.failed
<1> DEFINE after == ObserveMessage(acc, m)
           peers == ApplyPeerEvent(acc.syncer.table, m)
<1>1. CASE m.type \in {"join", "leave"}
  <2>1. after = [syncer |-> [acc.syncer EXCEPT !.table = peers.table],
                 events |-> acc.events \o peers.events]
    BY <1>1 DEF ObserveMessage
  <2>2. Accord(acc.syncer.table.order, peers.table, peers.events)
    <3>1. CASE m.participant = Unparsable
      <4> DEFINE ev == Event("Error", "invalid_participant_id")
      <4>1. peers.table = acc.syncer.table /\ peers.events = <<ev>>
        BY <3>1 DEF ApplyPeerEvent
      <4>2. Quiet(ev)
        BY DEF Quiet, Event
      <4> HIDE DEF ev, peers
      <4>3. ASeq(<<ev>>)
        <5>1. <<ev>> \in Seq({ev})
          OBVIOUS
        <5> QED
          BY <5>1 DEF ASeq
      <4> QED
        BY <4>1, <4>2, <4>3, FollowOne, QuietFollow DEF Accord, Draining
    <3>2. CASE m.participant # Unparsable /\ m.type = "join"
      <4>1. peers = ApplyJoin(acc.syncer.table, m.participant)
        BY <3>2 DEF ApplyPeerEvent
      <4> QED
        BY <4>1, JoinAccords DEF Draining
    <3>3. CASE m.participant # Unparsable /\ m.type # "join"
      <4>1. peers = ApplyLeave(acc.syncer.table, m.participant)
        BY <3>3 DEF ApplyPeerEvent
      <4> QED
        BY <4>1, LeaveAccords DEF Draining
    <3> QED
      BY <3>1, <3>2, <3>3
  <2> HIDE DEF peers, after
  <2>3. /\ DOMAIN after = {"syncer", "events"} /\ DOMAIN after.syncer = SyncerFields
        /\ after.syncer.table = peers.table
        /\ after.syncer.joined = acc.syncer.joined
        /\ after.syncer.registered = acc.syncer.registered
        /\ after.syncer.used = acc.syncer.used
        /\ after.syncer.failed = acc.syncer.failed
        /\ after.events = acc.events \o peers.events
    BY <2>1 DEF Draining, SyncerFields
  <2>4. ASeq(after.events) /\ TableOK(after.syncer.table)
    BY <2>2, <2>3, JoinedSeq DEF Accord, Draining
  <2>5. Advanced(acc, after)
    BY <2>2, <2>3, <2>4 DEF Advanced, Draining
  <2> QED
    BY <2>3, <2>5 DEF after
<1>2. CASE m.type \notin {"join", "leave"}
  <2>1. PICK ev : Quiet(ev) /\ after = [acc EXCEPT !.events = Append(@, ev)]
    <3>1. CASE m.type = "pose"
      BY <3>1 DEF ObserveMessage, Quiet, Event
    <3>2. CASE m.type = "chat"
      BY <3>2 DEF ObserveMessage, Quiet, Event
    <3>3. CASE m.type \notin {"pose", "chat"}
      BY <1>2, <3>3 DEF ObserveMessage, Quiet, Event
    <3> QED
      BY <3>1, <3>2, <3>3
  <2> QED
    BY <2>1, ByOneEvent
<1> QED
  BY <1>1, <1>2

LEMMA EventObserved ==
  ASSUME NEW acc, Draining(acc), NEW ev, ev.type \in PolledTypes
  PROVE  /\ Advanced(acc, Observe(acc, ev))
         /\ Observe(acc, ev).syncer.failed =
              IF ev.type = "failure" THEN acc.syncer.failed \cup {ev.from}
                                     ELSE acc.syncer.failed
         /\ ev.type = "failure" =>
              \/ ev.from \in acc.syncer.failed
              \/ \E k \in DOMAIN Observe(acc, ev).events :
                   Observe(acc, ev).events[k] = Event("PeerLeft", ev.from)
<1> DEFINE after == Observe(acc, ev)
<1>1. CASE ev.type = "failure"
  <2> DEFINE p == ev.from
             left == ApplyLeave(acc.syncer.table, p)
             gone == Event("PeerLeft", p)
  <2>1. after = ObserveFailure(acc, p)
    BY <1>1 DEF Observe
  <2>2. CASE p \in acc.syncer.failed
    <3>1. after = acc
      BY <2>1, <2>2 DEF ObserveFailure
    <3>2. ASeq(<<>>)
      <4>1. <<>> \in Seq({})
        OBVIOUS
      <4> QED
        BY <4>1 DEF ASeq
    <3>3. Accord(acc.syncer.table.order, acc.syncer.table, <<>>)
      BY <3>2, FollowOne DEF Accord, Draining
    <3>4. acc.events = acc.events \o <<>>
      <4>1. PICK M : acc.events \in Seq(M)
        BY DEF Draining, ASeq
      <4> QED
        BY <4>1, ConcatEmptySeq
    <3>5. Advanced(acc, acc)
      BY <3>3, <3>4 DEF Advanced
    <3> QED
      BY <1>1, <2>2, <3>1, <3>5
  <2>3. CASE p \notin acc.syncer.failed
    <3>1. after = [syncer |-> [acc.syncer EXCEPT !.failed = @ \cup {p},
                                                 !.table = left.table],
                   events |-> Append(acc.events, gone)]
      BY <2>1, <2>3 DEF ObserveFailure
    <3>2. Accord(acc.syncer.table.order, left.table, <<gone>>)
      BY LeaveAccords DEF Draining
    <3> HIDE DEF left, gone, after
    <3>3. /\ DOMAIN after = {"syncer", "events"} /\ DOMAIN after.syncer = SyncerFields
          /\ after.syncer.table = left.table
          /\ after.syncer.joined = acc.syncer.joined
          /\ after.syncer.registered = acc.syncer.registered
          /\ after.syncer.used = acc.syncer.used
          /\ after.syncer.failed = acc.syncer.failed \cup {p}
          /\ after.events = Append(acc.events, gone)
      BY <3>1 DEF Draining, SyncerFields
    <3>4. /\ after.events = acc.events \o <<gone>> /\ ASeq(after.events)
          /\ Len(after.events) = Len(acc.events) + 1
          /\ after.events[Len(acc.events) + 1] = gone
      BY <3>3, Appended DEF Draining
    <3>5. TableOK(after.syncer.table)
      BY <3>2, <3>3 DEF Accord
    <3>6. Advanced(acc, after)
      BY <3>2, <3>3, <3>4, <3>5 DEF Advanced, Draining
    <3>7. Len(acc.events) + 1 \in DOMAIN after.events
      <4>1. Len(acc.events) \in Nat
        BY ASeqFacts DEF Draining
      <4>2. DOMAIN after.events = 1 .. Len(after.events)
        BY <3>4, ASeqFacts
      <4> QED
        BY <3>4, <4>1, <4>2
    <3> QED
      BY <1>1, <3>3, <3>4, <3>6, <3>7 DEF after, gone
  <2> QED
    BY <2>2, <2>3
<1>2. CASE ev.type = "audio"
  <2>1. after = [acc EXCEPT !.events = Append(@, Event("VoiceFrameReceived", ev.from))]
    BY <1>2 DEF Observe
  <2>2. Quiet(Event("VoiceFrameReceived", ev.from))
    BY DEF Quiet, Event
  <2> HIDE DEF after
  <2>3. Advanced(acc, after) /\ after.syncer = acc.syncer
    BY <2>1, <2>2, ByOneEvent
  <2> QED
    BY <1>2, <2>3 DEF after
<1>3. CASE ev.type = "bytes" /\ ParseError(ev.bytes) = "ok"
  <2>1. after = ObserveMessage(acc, ev.bytes.content)
    BY <1>3 DEF Observe
  <2>2. Advanced(acc, after) /\ after.syncer.failed = acc.syncer.failed
    BY <2>1, MessageObserved
  <2> QED
    BY <1>3, <2>2
<1>4. CASE ev.type = "bytes" /\ ParseError(ev.bytes) # "ok"
  <2> DEFINE error == Event("Error", ParseError(ev.bytes))
  <2>1. after = [acc EXCEPT !.events = Append(@, error)]
    BY <1>4 DEF Observe
  <2>2. Quiet(error)
    BY DEF Quiet, Event
  <2> HIDE DEF after, error
  <2>3. Advanced(acc, after) /\ after.syncer = acc.syncer
    BY <2>1, <2>2, ByOneEvent
  <2> QED
    BY <1>4, <2>3 DEF after
<1> QED
  BY <1>1, <1>2, <1>3, <1>4 DEF PolledTypes

LEMMA JoinedTwice ==
  ASSUME NEW p, NEW q, NEW r, ASeq(p), ASeq(q), ASeq(r)
  PROVE  (p \o q) \o r = p \o (q \o r)
<1>1. PICK L : p \in Seq(L)
  BY DEF ASeq
<1>2. PICK M : q \in Seq(M)
  BY DEF ASeq
<1>3. PICK N : r \in Seq(N)
  BY DEF ASeq
<1> DEFINE U == L \cup M \cup N
<1>4. p \in Seq(U) /\ q \in Seq(U) /\ r \in Seq(U)
  BY <1>1, <1>2, <1>3
<1> HIDE DEF U
<1> QED
  BY <1>4, ConcatAssociative

LEMMA AdvancedOn ==
  ASSUME NEW a, NEW b, NEW c, Draining(a), Advanced(a, b), Advanced(b, c)
  PROVE  Advanced(a, c)
<1>1. PICK more : /\ b.events = a.events \o more
                  /\ Accord(a.syncer.table.order, b.syncer.table, more)
  BY DEF Advanced
<1>2. PICK yet : /\ c.events = b.events \o yet
                 /\ Accord(b.syncer.table.order, c.syncer.table, yet)
  BY DEF Advanced
<1>3. Accord(a.syncer.table.order, c.syncer.table, more \o yet)
  BY <1>1, <1>2, AccordMore
<1>4. c.events = a.events \o (more \o yet)
  <2>1. ASeq(a.events) /\ ASeq(more) /\ ASeq(yet)
    BY <1>1, <1>2 DEF Draining, Accord
  <2>2. (a.events \o more) \o yet = a.events \o (more \o yet)
    <3> DEFINE e == a.events
    <3>1. ASeq(e)
      BY <2>1
    <3> HIDE DEF e
    <3>2. (e \o more) \o yet = e \o (more \o yet)
      BY <2>1, <3>1, JoinedTwice
    <3> QED
      BY <3>2 DEF e
  <2> QED
    BY <1>1, <1>2, <2>2
<1> QED
  BY <1>3, <1>4 DEF Advanced

Leaving(events, p) ==
  \E k \in DOMAIN events : events[k] = Event("PeerLeft", p)

LEMMA LeavingKept ==
  ASSUME NEW p, NEW q, ASeq(p), ASeq(q), NEW x, Leaving(p, x) \/ Leaving(q, x)
  PROVE  Leaving(p \o q, x)
<1>1. /\ ASeq(p \o q) /\ Len(p \o q) = Len(p) + Len(q)
      /\ \A k \in 1 .. Len(p) : (p \o q)[k] = p[k]
      /\ \A k \in 1 .. Len(q) : (p \o q)[Len(p) + k] = q[k]
  BY JoinedSeq
<1>2. /\ Len(p) \in Nat /\ DOMAIN p = 1 .. Len(p)
      /\ Len(q) \in Nat /\ DOMAIN q = 1 .. Len(q)
      /\ DOMAIN (p \o q) = 1 .. Len(p) + Len(q)
  BY <1>1, ASeqFacts
<1>3. CASE Leaving(p, x)
  <2>1. PICK k \in 1 .. Len(p) : p[k] = Event("PeerLeft", x)
    BY <1>2, <1>3 DEF Leaving
  <2>2. k \in DOMAIN (p \o q) /\ (p \o q)[k] = Event("PeerLeft", x)
    BY <1>1, <1>2, <2>1
  <2> QED
    BY <2>2 DEF Leaving
<1>4. CASE Leaving(q, x)
  <2>1. PICK k \in 1 .. Len(q) : q[k] = Event("PeerLeft", x)
    BY <1>2, <1>4 DEF Leaving
  <2>2. Len(p) + k \in DOMAIN (p \o q) /\ (p \o q)[Len(p) + k] = Event("PeerLeft", x)
    BY <1>1, <1>2, <2>1
  <2> QED
    BY <2>2 DEF Leaving
<1> QED
  BY <1>3, <1>4

LEMMA DrainIsSeries ==
  ASSUME NEW q, NEW n \in Nat, DOMAIN q = 1 .. n, NEW base
  PROVE  \E h : Drained!IsSeries(h, n, base, q) /\ h[n] = FoldLeft(Observe, base, q)
<1>1. PICK f : f = CHOOSE g : g = [s \in SUBSET DOMAIN q |->
                 IF s = {} THEN base
                 ELSE Observe(g[s \ {Drained!Top(s)}], q[Drained!Top(s)])]
  OBVIOUS
<1>2. FoldLeft(Observe, base, q) = f[DOMAIN q]
  BY <1>1 DEF FoldLeft, MapThenFoldSet, Max, Drained!Top
<1>3. \E g : Drained!IsFold(g, n, base, q)
  BY Drained!FoldExists
<1>4. Drained!IsFold(f, n, base, q)
  BY <1>1, <1>3 DEF Drained!IsFold
<1>5. \E h : Drained!IsSeries(h, n, base, q) /\ h[n] = f[1 .. n]
  BY <1>4, Drained!FoldSteps
<1> QED
  BY <1>2, <1>5

\* What a transport may have for its syncer.
Pollable(polled) ==
  ASeq(polled) /\ \A k \in DOMAIN polled : polled[k].type \in PolledTypes

LEMMA NothingAdvanced ==
  ASSUME NEW s, DOMAIN s = SyncerFields, TableOK(s.table)
  PROVE  LET acc == [syncer |-> s, events |-> <<>>]
         IN  Draining(acc) /\ Advanced(acc, acc)
<1> DEFINE acc == [syncer |-> s, events |-> <<>>]
           none == <<>>
<1>1. ASeq(none)
  <2>1. <<>> \in Seq({})
    OBVIOUS
  <2> QED
    BY <2>1 DEF ASeq
<1>2. acc.events = none \o none
  <2>1. none \in Seq({})
    OBVIOUS
  <2>2. none \o none = none
    BY <2>1, ConcatEmptySeq
  <2> QED
    BY <2>2
<1>3. /\ DOMAIN acc = {"syncer", "events"} /\ acc.syncer = s /\ acc.events = none
  OBVIOUS
<1>4. Followed(s.table.order, none) = s.table.order
  BY FollowOne
<1> HIDE DEF acc, none
<1>5. Draining(acc)
  BY <1>1, <1>3 DEF Draining
<1>6. Advanced(acc, acc)
  BY <1>1, <1>2, <1>3, <1>4, <1>5 DEF Advanced, Accord
<1> QED
  BY <1>5, <1>6 DEF acc

(***************************************************************************)
(* A drain.  Every failure among what is polled is told now or was told    *)
(* before, and nobody enters the set of the failed without being told.     *)
(***************************************************************************)
LEMMA DrainAdvances ==
  ASSUME NEW s, DOMAIN s = SyncerFields, TableOK(s.table), NEW polled, Pollable(polled)
  PROVE  LET r == Drain(s, polled) IN
         /\ Advanced([syncer |-> s, events |-> <<>>], r)
         /\ \A p \in r.syncer.failed : p \in s.failed \/ Leaving(r.events, p)
         /\ s.joined =>
              \A k \in DOMAIN polled : polled[k].type = "failure" =>
                \/ polled[k].from \in s.failed
                \/ Leaving(r.events, polled[k].from)
<1> DEFINE r == Drain(s, polled)
           acc == [syncer |-> s, events |-> <<>>]
           n == Len(polled)
<1>1. Draining(acc) /\ Advanced(acc, acc)
  BY NothingAdvanced
<1>2. acc.syncer = s
  OBVIOUS
<1>3. CASE ~s.joined
  <2>1. r = acc
    BY <1>3 DEF Drain
  <2> QED
    BY <1>1, <1>2, <1>3, <2>1
<1>4. CASE s.joined
  <2>1. n \in Nat /\ DOMAIN polled = 1 .. n
    BY ASeqFacts DEF Pollable
  <2>2. r = FoldLeft(Observe, acc, polled)
    BY <1>4 DEF Drain
  <2> HIDE DEF n, acc, r
  <2>3. PICK h : Drained!IsSeries(h, n, acc, polled) /\ h[n] = r
    BY <2>1, <2>2, DrainIsSeries
  <2> DEFINE Told1(a, p) == p \in s.failed \/ Leaving(a.events, p)
             S == {k \in 0 .. n :
                     /\ Advanced(acc, h[k])
                     /\ \A p \in h[k].syncer.failed : Told1(h[k], p)
                     /\ \A j \in 1 .. k : polled[j].type = "failure" =>
                          Told1(h[k], polled[j].from)}
  <2>4. 0 \in S
    <3>1. h[0] = acc
      BY <2>3 DEF Drained!IsSeries
    <3> QED
      BY <1>1, <1>2, <2>1, <3>1
  <2>5. ASSUME NEW k \in 1 .. n, k - 1 \in S PROVE k \in S
    <3> DEFINE a == h[k - 1]
               b == h[k]
               ev == polled[k]
    <3>1. b = Observe(a, ev)
      BY <2>3 DEF Drained!IsSeries
    <3>2. Advanced(acc, a)
      BY <2>5
    <3>3. ev.type \in PolledTypes
      BY <2>1 DEF Pollable
    <3>4. /\ Advanced(a, b)
          /\ b.syncer.failed = IF ev.type = "failure" THEN a.syncer.failed \cup {ev.from}
                                                     ELSE a.syncer.failed
          /\ ev.type = "failure" => ev.from \in a.syncer.failed \/ Leaving(b.events, ev.from)
      <4>1. Draining(a)
        BY <3>2 DEF Advanced
      <4> HIDE DEF a, b, ev
      <4> QED
        BY <3>1, <3>3, <4>1, EventObserved DEF Leaving
    <3>5. Advanced(acc, b)
      <4> HIDE DEF a, b
      <4> QED
        BY <1>1, <3>2, <3>4, AdvancedOn
    <3>6. ASSUME NEW p, Told1(a, p) PROVE Told1(b, p)
      <4>1. PICK more : b.events = a.events \o more /\ ASeq(more)
        BY <3>4 DEF Advanced, Accord
      <4>2. ASeq(a.events)
        BY <3>2 DEF Advanced, Draining
      <4> HIDE DEF a, b
      <4> QED
        BY <3>6, <4>1, <4>2, LeavingKept
    <3>7. \A p \in a.syncer.failed : Told1(a, p)
      BY <2>5
    <3>8. \A j \in 1 .. k - 1 : polled[j].type = "failure" => Told1(a, polled[j].from)
      BY <2>5
    <3> HIDE DEF a, b
    <3>9. ev.type = "failure" => Told1(b, ev.from)
      <4> HIDE DEF ev
      <4> QED
        BY <3>4, <3>6, <3>7
    <3>10. \A p \in b.syncer.failed : Told1(b, p)
      <4> HIDE DEF ev, Told1
      <4> QED
        BY <3>4, <3>6, <3>7, <3>9
    <3>11. \A j \in 1 .. k : polled[j].type = "failure" => Told1(b, polled[j].from)
      <4> HIDE DEF Told1
      <4>1. \A j \in 1 .. k : j \in 1 .. k - 1 \/ j = k
        BY <2>1
      <4> QED
        BY <3>6, <3>8, <3>9, <4>1
    <3> QED
      BY <2>1, <3>5, <3>10, <3>11 DEF b
  <2>6. n \in S
    <3>1. \A k \in 1 .. n : k - 1 \in S => k \in S
      BY <2>5
    <3> HIDE DEF S
    <3>2. \A k \in 0 .. n : k \in S
      BY <2>1, <2>4, <3>1, Drained!IndexInduction
    <3> QED
      BY <2>1, <3>2
  <2>7. /\ Advanced(acc, r)
        /\ \A p \in r.syncer.failed : Told1(r, p)
        /\ \A j \in 1 .. n : polled[j].type = "failure" => Told1(r, polled[j].from)
    BY <2>3, <2>6
  <2> QED
    BY <2>1, <2>7 DEF acc, r
<1> QED
  BY <1>3, <1>4

LEMMA DrainAccords ==
  ASSUME NEW s, DOMAIN s = SyncerFields, TableOK(s.table), NEW polled, Pollable(polled)
  PROVE  LET r == Drain(s, polled) IN
         /\ DOMAIN r.syncer = SyncerFields /\ TableOK(r.syncer.table)
         /\ r.syncer.joined = s.joined
         /\ Accord(s.table.order, r.syncer.table, r.events)
<1> DEFINE r == Drain(s, polled)
           acc == [syncer |-> s, events |-> <<>>]
<1>1. Advanced(acc, r)
  BY DrainAdvances
<1>2. acc.syncer = s /\ acc.events = <<>>
  OBVIOUS
<1> HIDE DEF acc, r
<1>3. PICK more : r.events = <<>> \o more /\ Accord(s.table.order, r.syncer.table, more)
  BY <1>1, <1>2 DEF Advanced
<1>4. r.events = more
  <2>1. PICK M : more \in Seq(M)
    BY <1>3 DEF Accord, ASeq
  <2> QED
    BY <1>3, <2>1, ConcatEmptySeq
<1>5. DOMAIN r.syncer = SyncerFields /\ TableOK(r.syncer.table) /\ r.syncer.joined = s.joined
  BY <1>1, <1>2 DEF Advanced, Draining
<1> QED
  BY <1>3, <1>4, <1>5 DEF r

LEMMA RequestAccords ==
  ASSUME NEW s, DOMAIN s = SyncerFields, TableOK(s.table), NEW me, NEW req
  PROVE  LET r == Request(me, s, req) IN
         /\ DOMAIN r.syncer = SyncerFields /\ TableOK(r.syncer.table)
         /\ r.syncer.failed = s.failed
         /\ Accord(s.table.order, r.syncer.table, r.events)
<1> DEFINE r == Request(me, s, req)
<1>1. CASE req.type = "Join"
  <2> DEFINE join == ApplyJoin(s.table, req.who)
             ev == Event("SelfJoined", req.who)
  <2>1. r = RequestJoin(me, s, req.who)
    BY <1>1 DEF Request
  <2>2. /\ r.syncer = [s EXCEPT !.joined = TRUE, !.registered = TRUE, !.table = join.table]
        /\ r.events = Append(join.events, ev)
    BY <2>1 DEF RequestJoin
  <2>3. Accord(s.table.order, join.table, join.events)
    BY JoinAccords
  <2>4. Quiet(ev)
    BY DEF Quiet, Event
  <2> HIDE DEF r, join, ev
  <2>5. Accord(s.table.order, join.table, r.events)
    BY <2>2, <2>3, <2>4, AccordQuiet
  <2>6. /\ DOMAIN r.syncer = SyncerFields
        /\ r.syncer.failed = s.failed /\ r.syncer.table = join.table
    BY <2>2 DEF SyncerFields
  <2> QED
    BY <2>5, <2>6 DEF Accord, r
<1>2. CASE req.type # "Join"
  <2> DEFINE used == IF req.elapsed THEN 0 ELSE s.used
             allowed == used < Limit
             ev == Event("RateLimited", req.kind)
  <2>1. r = RequestSend(s, req.from, req.kind, req.msg, req.elapsed)
    BY <1>2 DEF Request
  <2>2. /\ r.syncer = [s EXCEPT !.used = IF allowed THEN used + 1 ELSE used]
        /\ r.events \in {<<>>, <<ev>>}
    BY <2>1 DEF RequestSend
  <2>3. Quiet(ev)
    BY DEF Quiet, Event
  <2> HIDE DEF r, ev
  <2>4. /\ DOMAIN r.syncer = SyncerFields
        /\ r.syncer.failed = s.failed /\ r.syncer.table = s.table
    BY <2>2 DEF SyncerFields
  <2>5. ASeq(<<>>) /\ ASeq(<<ev>>)
    <3>1. <<>> \in Seq({}) /\ <<ev>> \in Seq({ev})
      OBVIOUS
    <3> QED
      BY <3>1 DEF ASeq
  <2>6. Followed(s.table.order, r.events) = s.table.order
    <3>1. Followed(s.table.order, <<ev>>) = s.table.order
      BY <2>3, FollowOne, QuietFollow
    <3>2. Followed(s.table.order, <<>>) = s.table.order
      BY FollowOne
    <3>3. CASE r.events = <<>>
      BY <3>2, <3>3
    <3>4. CASE r.events = <<ev>>
      BY <3>1, <3>4
    <3> QED
      BY <2>2, <3>3, <3>4
  <2> QED
    BY <2>2, <2>4, <2>5, <2>6 DEF Accord, r
<1> QED
  BY <1>1, <1>2

(***************************************************************************)
(* SyncerPair.                                                             *)
(***************************************************************************)
SeenFields ==
  {"told", "met", "left", "failure", "announced", "heard", "errors", "dropped"}

LEMMA Telling ==
  ASSUME NEW view, DOMAIN view = SeenFields, NEW i, NEW polled, NEW events
  PROVE  LET after == Tell(view, i, polled, events) IN
         /\ DOMAIN after = SeenFields
         /\ after.told = Followed(view.told, events)
         /\ view.left \/ Leaving(events, Peer(i)) => after.left
         /\ after.failure =>
              view.failure \/ \E k \in DOMAIN polled : polled[k].type = "failure"
<1> DEFINE after == Tell(view, i, polled, events)
           peers == FoldLeft(Follow, view.told, events)
           met == view.met \cup About(events, "PeerJoined")
           left == view.left \/ Peer(i) \in About(events, "PeerLeft")
           failure == view.failure \/ \E k \in DOMAIN polled : polled[k].type = "failure"
<1>1. PICK heard, errors :
        after = [view EXCEPT !.told = peers, !.met = met, !.left = left,
                             !.failure = failure, !.heard = heard, !.errors = errors]
  BY DEF Tell
<1> HIDE DEF after, peers, met, left, failure
<1>2. /\ DOMAIN after = SeenFields /\ after.told = peers
      /\ after.left = left /\ after.failure = failure
  BY <1>1 DEF SeenFields
<1>3. left => after.left
  BY <1>2
<1>4. after.failure => failure
  BY <1>2
<1>5. view.left \/ Leaving(events, Peer(i)) => left
  BY DEF Leaving, About, Event, left
<1> QED
  BY <1>2, <1>3, <1>4, <1>5 DEF after, peers, failure, Followed

\* What a transport end i may have for its syncer, and what may be on its way.
PolledBy(i, q) ==
  /\ Pollable(q)
  /\ \A k \in DOMAIN q : q[k].type = "failure" => q[k].from = Peer(i)

Queues(f) ==
  /\ DOMAIN f = Links
  /\ \A g \in Links : DOMAIN f[g] = Sides /\ \A i \in Sides : PolledBy(i, f[g][i])

\* The syncer of side i and what its application knows.
SideOK(i, s, view) ==
  /\ DOMAIN s = SyncerFields /\ TableOK(s.table)
  /\ DOMAIN view = SeenFields
  /\ view.told = s.table.order
  /\ Peer(i) \in s.failed => view.left
  /\ view.failure => view.left

PairInv ==
  /\ bound \in [Sides -> Links]
  /\ DOMAIN syncer = Sides /\ DOMAIN seen = Sides
  /\ Queues(pending) /\ Queues(wire)
  /\ \A i \in Sides : SideOK(i, syncer[i], seen[i])

LEMMA NothingPolled ==
  ASSUME NEW i
  PROVE  PolledBy(i, <<>>)
<1>1. <<>> \in Seq({}) /\ DOMAIN <<>> = {}
  OBVIOUS
<1> QED
  BY <1>1 DEF PolledBy, Pollable, ASeq

LEMMA OneMorePolled ==
  ASSUME NEW i, NEW q, PolledBy(i, q), NEW x, x.type \in PolledTypes,
         x.type = "failure" => x.from = Peer(i)
  PROVE  PolledBy(i, Append(q, x))
<1> DEFINE r == Append(q, x)
<1>1. /\ ASeq(r) /\ Len(r) = Len(q) + 1 /\ r[Len(q) + 1] = x
      /\ \A k \in 1 .. Len(q) : r[k] = q[k]
  BY Appended DEF PolledBy, Pollable
<1>2. /\ Len(q) \in Nat /\ DOMAIN q = 1 .. Len(q)
      /\ DOMAIN r = 1 .. Len(q) + 1
  BY <1>1, ASeqFacts DEF PolledBy, Pollable
<1> HIDE DEF r
<1>3. \A k \in DOMAIN r : (k \in DOMAIN q /\ r[k] = q[k]) \/ r[k] = x
  BY <1>1, <1>2
<1> QED
  BY <1>1, <1>3 DEF PolledBy, Pollable, r

LEMMA TheRestPolled ==
  ASSUME NEW i, NEW q, PolledBy(i, q), q # <<>>
  PROVE  /\ PolledBy(i, Tail(q))
         /\ Head(q).type \in PolledTypes
         /\ Head(q).type = "failure" => Head(q).from = Peer(i)
<1>1. PICK M : q \in Seq(M)
  BY DEF PolledBy, Pollable, ASeq
<1>2. /\ Len(q) \in Nat /\ Len(q) >= 1 /\ DOMAIN q = 1 .. Len(q)
      /\ Head(q) = q[1]
      /\ Tail(q) \in Seq(M) /\ DOMAIN Tail(q) = 1 .. Len(q) - 1
      /\ \A k \in 1 .. Len(q) - 1 : Tail(q)[k] = q[k + 1]
  BY <1>1, HeadTailProperties
<1>3. \A k \in 1 .. Len(q) - 1 : k + 1 \in DOMAIN q
  BY <1>2
<1>4. 1 \in DOMAIN q
  BY <1>2
<1> QED
  BY <1>2, <1>3, <1>4 DEF PolledBy, Pollable, ASeq

LEMMA QueueSet ==
  ASSUME NEW f, Queues(f), NEW g \in Links, NEW i \in Sides, NEW q, PolledBy(i, q)
  PROVE  Queues([f EXCEPT ![g][i] = q])
<1> DEFINE e == [f EXCEPT ![g][i] = q]
<1>1. DOMAIN e = Links /\ e[g] = [f[g] EXCEPT ![i] = q]
  BY DEF Queues
<1>2. \A h \in Links \ {g} : e[h] = f[h]
  BY DEF Queues
<1> HIDE DEF e
<1>3. DOMAIN e[g] = Sides /\ e[g][i] = q /\ \A j \in Sides \ {i} : e[g][j] = f[g][j]
  BY <1>1 DEF Queues
<1>4. \A j \in Sides : PolledBy(j, e[g][j])
  BY <1>3 DEF Queues
<1> QED
  BY <1>1, <1>2, <1>3, <1>4 DEF Queues, e

LEMMA PairStarts == Init => PairInv
<1> SUFFICES ASSUME Init PROVE PairInv
  OBVIOUS
<1>1. bound \in [Sides -> Links]
  BY LinksAssumption DEF Init, Links
<1>2. Queues(pending) /\ Queues(wire)
  BY NothingPolled DEF Init, Each, Queues
<1>3. ASeq(<<>>) /\ IsInjective(<<>>) /\ ToSet(<<>>) = {}
  <2>1. <<>> \in Seq({}) /\ DOMAIN <<>> = {}
    OBVIOUS
  <2> QED
    BY <2>1 DEF ASeq, IsInjective, ToSet
<1>4. TableOK(EmptyTable)
  BY <1>3 DEF TableOK, EmptyTable
<1>5. ASSUME NEW i \in Sides PROVE SideOK(i, NewSyncer, NothingSeen)
  BY <1>4 DEF SideOK, NewSyncer, NothingSeen, SyncerFields, SeenFields, EmptyTable
<1> QED
  BY <1>1, <1>2, <1>5 DEF Init, PairInv

\* One side's syncer and application change, and the queue of its transport
\* with them.
LEMMA SideMoves ==
  ASSUME PairInv, NEW i \in Sides, NEW s, NEW view, SideOK(i, s, view),
         bound' = bound, wire' = wire, Queues(pending'),
         syncer' = [syncer EXCEPT ![i] = s], seen' = [seen EXCEPT ![i] = view]
  PROVE  PairInv'
<1>1. DOMAIN syncer' = Sides /\ DOMAIN seen' = Sides
  BY DEF PairInv
<1>2. ASSUME NEW j \in Sides PROVE SideOK(j, syncer'[j], seen'[j])
  <2>1. CASE j = i
    <3>1. syncer'[j] = s /\ seen'[j] = view
      BY <2>1 DEF PairInv
    <3> QED
      BY <2>1, <3>1
  <2>2. CASE j # i
    <3>1. syncer'[j] = syncer[j] /\ seen'[j] = seen[j]
      BY <2>2 DEF PairInv
    <3> QED
      BY <3>1 DEF PairInv
  <2> QED
    BY <2>1, <2>2
<1>3. bound' \in [Sides -> Links] /\ Queues(wire')
  BY DEF PairInv
<1> QED
  BY <1>1, <1>2, <1>3 DEF PairInv

\* A drain, told to the application.
LEMMA DrainTold ==
  ASSUME NEW i, NEW s, NEW view, SideOK(i, s, view), NEW q, PolledBy(i, q), s.joined
  PROVE  LET r == Drain(s, q)
         IN  SideOK(i, r.syncer, Tell(view, i, q, r.events))
<1> DEFINE r == Drain(s, q)
           after == Tell(view, i, q, r.events)
<1>1. /\ DOMAIN r.syncer = SyncerFields /\ TableOK(r.syncer.table)
      /\ Accord(s.table.order, r.syncer.table, r.events)
  BY DrainAccords DEF SideOK, PolledBy
<1>2. /\ \A p \in r.syncer.failed : p \in s.failed \/ Leaving(r.events, p)
      /\ \A k \in DOMAIN q : q[k].type = "failure" =>
           q[k].from \in s.failed \/ Leaving(r.events, q[k].from)
  BY DrainAdvances DEF SideOK, PolledBy
<1>3. /\ DOMAIN after = SeenFields
      /\ after.told = Followed(view.told, r.events)
      /\ view.left \/ Leaving(r.events, Peer(i)) => after.left
      /\ after.failure => view.failure \/ \E k \in DOMAIN q : q[k].type = "failure"
  BY Telling DEF SideOK
<1> HIDE DEF r, after
<1>4. after.told = r.syncer.table.order
  BY <1>1, <1>3 DEF SideOK, Accord
<1>5. Peer(i) \in r.syncer.failed => after.left
  BY <1>2, <1>3 DEF SideOK
<1>6. ASSUME NEW k \in DOMAIN q, q[k].type = "failure" PROVE after.left
  <2>1. q[k].from = Peer(i)
    BY <1>6 DEF PolledBy
  <2> QED
    BY <1>2, <1>3, <1>6, <2>1 DEF SideOK
<1>7. after.failure => after.left
  BY <1>3, <1>6 DEF SideOK
<1> QED
  BY <1>1, <1>3, <1>4, <1>5, <1>7 DEF SideOK, r, after

LEMMA HandledSide ==
  ASSUME NEW i, NEW s, NEW view, SideOK(i, s, view), NEW q, PolledBy(i, q),
         NEW req, NEW flag
  PROVE  LET before  == Drain(s, q)
             request == Request(i, before.syncer, req)
             after   == Drain(request.syncer, IF s.joined THEN <<>> ELSE q)
             events  == before.events \o request.events \o after.events
             report    == Tell(view, i, IF after.syncer.joined THEN q ELSE <<>>, events)
         IN  SideOK(i, after.syncer, [report EXCEPT !.announced = flag])
<1> DEFINE before == Drain(s, q)
           request == Request(i, before.syncer, req)
           rest == IF s.joined THEN <<>> ELSE q
           after == Drain(request.syncer, rest)
           events == before.events \o request.events \o after.events
           polled == IF after.syncer.joined THEN q ELSE <<>>
           report == Tell(view, i, polled, events)
           final == [report EXCEPT !.announced = flag]
           p == Peer(i)
<1>1. /\ DOMAIN before.syncer = SyncerFields /\ TableOK(before.syncer.table)
      /\ Accord(s.table.order, before.syncer.table, before.events)
  BY DrainAccords DEF SideOK, PolledBy
<1>2. /\ \A x \in before.syncer.failed : x \in s.failed \/ Leaving(before.events, x)
      /\ s.joined => \A k \in DOMAIN q : q[k].type = "failure" =>
           q[k].from \in s.failed \/ Leaving(before.events, q[k].from)
  BY DrainAdvances DEF SideOK, PolledBy
<1> HIDE DEF before
<1>3. /\ DOMAIN request.syncer = SyncerFields /\ TableOK(request.syncer.table)
      /\ request.syncer.failed = before.syncer.failed
      /\ Accord(before.syncer.table.order, request.syncer.table, request.events)
  BY <1>1, RequestAccords
<1> HIDE DEF request
<1>4. PolledBy(i, rest) /\ (~s.joined => rest = q)
  BY NothingPolled
<1> HIDE DEF rest
<1>5. /\ DOMAIN after.syncer = SyncerFields /\ TableOK(after.syncer.table)
      /\ after.syncer.joined = request.syncer.joined
      /\ Accord(request.syncer.table.order, after.syncer.table, after.events)
  BY <1>3, <1>4, DrainAccords DEF PolledBy
<1>6. /\ \A x \in after.syncer.failed :
           x \in request.syncer.failed \/ Leaving(after.events, x)
      /\ request.syncer.joined => \A k \in DOMAIN rest : rest[k].type = "failure" =>
           rest[k].from \in request.syncer.failed \/ Leaving(after.events, rest[k].from)
  BY <1>3, <1>4, DrainAdvances DEF PolledBy
<1> HIDE DEF after
<1>7. Accord(s.table.order, after.syncer.table, events)
  <2> DEFINE b == before.events
             r == request.events
             a == after.events
  <2>1. Accord(s.table.order, request.syncer.table, b \o r)
    BY <1>1, <1>3, AccordMore
  <2> DEFINE br == b \o r
  <2>2. Accord(s.table.order, after.syncer.table, br \o a)
    <3>1. Accord(s.table.order, request.syncer.table, br)
      BY <2>1
    <3>2. Accord(request.syncer.table.order, after.syncer.table, a)
      BY <1>5
    <3> HIDE DEF br, a
    <3> QED
      BY <3>1, <3>2, AccordMore
  <2> QED
    BY <2>2
<1>8. ASSUME NEW x,
             Leaving(before.events, x) \/ Leaving(after.events, x)
      PROVE  Leaving(events, x)
  <2> DEFINE b == before.events
             r == request.events
             a == after.events
             br == b \o r
  <2>1. ASeq(b) /\ ASeq(r) /\ ASeq(a)
    BY <1>1, <1>3, <1>5 DEF Accord
  <2>2. Leaving(b, x) \/ Leaving(a, x)
    BY <1>8
  <2>3. events = br \o a
    OBVIOUS
  <2> HIDE DEF b, r, a, events
  <2>4. ASeq(br) /\ (Leaving(b, x) => Leaving(br, x))
    BY <2>1, JoinedSeq, LeavingKept
  <2> HIDE DEF br
  <2> QED
    BY <2>1, <2>2, <2>3, <2>4, LeavingKept
<1> HIDE DEF events
<1>9. /\ DOMAIN report = SeenFields
      /\ report.told = Followed(view.told, events)
      /\ view.left \/ Leaving(events, p) => report.left
      /\ report.failure => view.failure \/ \E k \in DOMAIN polled : polled[k].type = "failure"
  BY Telling DEF SideOK
<1>10. polled # <<>> => polled = q /\ after.syncer.joined
  OBVIOUS
<1> HIDE DEF report, polled, p
<1>11. report.told = after.syncer.table.order
  BY <1>7, <1>9 DEF SideOK, Accord
<1>12. p \in s.failed => report.left
  BY <1>9 DEF SideOK, p
<1>13. p \in after.syncer.failed => report.left
  BY <1>2, <1>3, <1>6, <1>8, <1>9, <1>12
<1>14. ASSUME NEW k \in DOMAIN polled, polled[k].type = "failure" PROVE report.left
  <2>1. polled # <<>>
    BY <1>14
  <2>2. polled = q /\ request.syncer.joined
    BY <1>5, <1>10, <2>1
  <2>3. q[k].from = p
    BY <1>14, <2>2 DEF PolledBy, p
  <2>4. CASE s.joined
    BY <1>2, <1>8, <1>9, <1>12, <1>14, <2>2, <2>3, <2>4
  <2>5. CASE ~s.joined
    <3>1. p \in request.syncer.failed \/ Leaving(after.events, p)
      BY <1>4, <1>6, <1>14, <2>2, <2>3, <2>5
    <3> QED
      BY <1>2, <1>3, <1>8, <1>9, <1>12, <3>1
  <2> QED
    BY <2>4, <2>5
<1>15. report.failure => report.left
  BY <1>9, <1>14 DEF SideOK
<1>16. /\ DOMAIN final = SeenFields /\ final.told = report.told
       /\ final.left = report.left /\ final.failure = report.failure
  BY <1>9 DEF SeenFields
<1> HIDE DEF final
<1> QED
  BY <1>5, <1>11, <1>13, <1>15, <1>16
  DEF SideOK, before, request, rest, after, events, polled, report, final, p

LEMMA HandleMoves ==
  ASSUME PairInv, NEW i \in Sides, NEW req, Handle(i, req)
  PROVE  PairInv'
<1> DEFINE g == bound[i]
           polled == pending[g][i]
           before == Drain(syncer[i], polled)
           request == Request(i, before.syncer, req)
           after == Drain(request.syncer, IF syncer[i].joined THEN <<>> ELSE polled)
           events == before.events \o request.events \o after.events
           drained == after.syncer.joined
           report == Tell(seen[i], i, IF drained THEN polled ELSE <<>>, events)
<1>1. PICK flag : seen' = [seen EXCEPT ![i] = [report EXCEPT !.announced = flag]]
  <2> HIDE DEF report
  <2> QED
    BY DEF Handle, report
<1> DEFINE view == [report EXCEPT !.announced = flag]
<1>2. g \in Links /\ PolledBy(i, polled)
  BY DEF PairInv, Queues
<1>3. SideOK(i, after.syncer, view)
  <2>1. SideOK(i, syncer[i], seen[i])
    BY DEF PairInv
  <2> DEFINE s == syncer[i]
             v == seen[i]
  <2> HIDE DEF polled, s, v
  <2> QED
    BY <1>2, <2>1, HandledSide DEF s, v
<1>4. /\ syncer' = [syncer EXCEPT ![i] = after.syncer]
      /\ bound' = bound /\ wire' = wire
      /\ pending' = IF drained THEN [pending EXCEPT ![g][i] = <<>>] ELSE pending
  BY DEF Handle
<1>5. seen' = [seen EXCEPT ![i] = view]
  BY <1>1
<1> HIDE DEF polled, after, view
<1>6. Queues(pending')
  <2>1. Queues([pending EXCEPT ![g][i] = <<>>])
    BY <1>2, NothingPolled, QueueSet DEF PairInv
  <2> QED
    BY <1>4, <2>1 DEF PairInv
<1> QED
  BY <1>3, <1>4, <1>5, <1>6, SideMoves

LEMMA PollMoves ==
  ASSUME PairInv, NEW i \in Sides, PollOnly(i)
  PROVE  PairInv'
<1> DEFINE g == bound[i]
           polled == pending[g][i]
           r == Drain(syncer[i], polled)
           view == Tell(seen[i], i, polled, r.events)
<1>1. g \in Links /\ PolledBy(i, polled)
  BY DEF PairInv, Queues
<1>2. SideOK(i, r.syncer, view)
  BY <1>1, DrainTold DEF PairInv, PollOnly
<1>3. /\ syncer' = [syncer EXCEPT ![i] = r.syncer]
      /\ seen' = [seen EXCEPT ![i] = view]
      /\ bound' = bound /\ wire' = wire
      /\ pending' = [pending EXCEPT ![g][i] = <<>>]
  BY DEF PollOnly
<1> HIDE DEF polled, r, view
<1>4. Queues(pending')
  BY <1>1, <1>3, NothingPolled, QueueSet DEF PairInv
<1> QED
  BY <1>2, <1>3, <1>4, SideMoves

LEMMA ClosingMoves ==
  ASSUME Queues(pending), Queues(wire), NEW g \in Links, NEW ends, Closing(g, ends)
  PROVE  Queues(pending') /\ Queues(wire')
<1>1. Queues(wire')
  <2>1. wire' = [wire EXCEPT ![g] = [i \in Sides |-> <<>>]]
    BY DEF Closing
  <2> QED
    BY <2>1, NothingPolled DEF Queues
<1>2. Queues(pending')
  <2> DEFINE new == [i \in Sides |->
                 IF i \notin ends THEN <<>>
                 ELSE IF g \in closed THEN pending[g][i]
                 ELSE Append(pending[g][i], FailureOf(Peer(i)))]
  <2>1. pending' = [pending EXCEPT ![g] = new]
    BY DEF Closing
  <2>2. ASSUME NEW i \in Sides PROVE PolledBy(i, new[i])
    <3>1. PolledBy(i, pending[g][i])
      BY DEF Queues
    <3>2. PolledBy(i, Append(pending[g][i], FailureOf(Peer(i))))
      <4> DEFINE q == pending[g][i]
                 x == FailureOf(Peer(i))
      <4>1. x.type = "failure" /\ x.from = Peer(i)
        BY DEF FailureOf
      <4> HIDE DEF q, x
      <4>2. PolledBy(i, Append(q, x))
        BY <3>1, <4>1, OneMorePolled DEF PolledTypes, q
      <4> QED
        BY <4>2 DEF q, x
    <3> QED
      BY <3>1, <3>2, NothingPolled
  <2>3. DOMAIN new = Sides
    OBVIOUS
  <2> HIDE DEF new
  <2> QED
    BY <2>1, <2>2, <2>3 DEF Queues
<1> QED
  BY <1>1, <1>2

LEMMA RebindMoves ==
  ASSUME PairInv, NEW i \in Sides, Rebind(i)
  PROVE  PairInv'
<1> DEFINE old == bound[i]
           s == Rebound(syncer[i])
           view == [seen[i] EXCEPT !.met = {}, !.left = FALSE, !.failure = FALSE,
                                   !.announced = FALSE]
<1>1. old \in Links /\ bound' = [bound EXCEPT ![i] = old + 1] /\ old + 1 \in Links
  <2>1. old \in Links /\ old < MaxLinks
    BY DEF PairInv, Rebind
  <2>2. old + 1 \in Links
    BY <2>1, LinksAssumption DEF Links
  <2> QED
    BY <2>1, <2>2 DEF Rebind
<1>2. bound' \in [Sides -> Links]
  BY <1>1 DEF PairInv
<1>3. SideOK(i, s, view)
  <2>1. SideOK(i, syncer[i], seen[i])
    BY DEF PairInv
  <2>2. /\ DOMAIN s = SyncerFields /\ s.table = syncer[i].table /\ s.failed = {}
    BY <2>1 DEF SideOK, Rebound, SyncerFields
  <2>3. /\ DOMAIN view = SeenFields /\ view.told = seen[i].told /\ view.failure = FALSE
    BY <2>1 DEF SideOK, SeenFields
  <2> QED
    BY <2>1, <2>2, <2>3 DEF SideOK
<1>4. syncer' = [syncer EXCEPT ![i] = s]
  BY DEF Rebind
<1>5. seen' = [seen EXCEPT ![i] = view]
  <2>1. seen' = [seen EXCEPT ![i].met = {}, ![i].left = FALSE, ![i].failure = FALSE,
                             ![i].announced = FALSE]
    BY DEF Rebind
  <2>2. DOMAIN seen = Sides
    BY DEF PairInv
  <2> QED
    BY <2>1, <2>2
<1>6. Queues(pending') /\ Queues(wire')
  <2>1. Closing(old, {j \in Sides \ {i} : bound[j] = old})
    BY DEF Rebind
  <2> QED
    BY <1>1, <2>1, ClosingMoves DEF PairInv
<1> HIDE DEF s, view
<1>7. ASSUME NEW j \in Sides PROVE SideOK(j, syncer'[j], seen'[j])
  <2>1. CASE j = i
    <3>1. syncer'[j] = s /\ seen'[j] = view
      BY <1>4, <1>5, <2>1 DEF PairInv
    <3> QED
      BY <1>3, <2>1, <3>1
  <2>2. CASE j # i
    <3>1. syncer'[j] = syncer[j] /\ seen'[j] = seen[j]
      BY <1>4, <1>5, <2>2 DEF PairInv
    <3> QED
      BY <3>1 DEF PairInv
  <2> QED
    BY <2>1, <2>2
<1>8. DOMAIN syncer' = Sides /\ DOMAIN seen' = Sides
  BY <1>4, <1>5 DEF PairInv
<1> QED
  BY <1>2, <1>6, <1>7, <1>8 DEF PairInv

\* Nothing but the queues moves.
LEMMA QueuesMove ==
  ASSUME PairInv, UNCHANGED <<syncer, bound, seen>>, Queues(pending'), Queues(wire')
  PROVE  PairInv'
BY DEF PairInv

LEMMA ShutdownMoves ==
  ASSUME PairInv, NEW g \in Links, Shutdown(g)
  PROVE  PairInv'
<1>1. Queues(pending) /\ Queues(wire) /\ Closing(g, Sides)
  BY DEF PairInv, Shutdown
<1>2. Queues(pending') /\ Queues(wire')
  BY <1>1, ClosingMoves
<1> QED
  BY <1>2, QueuesMove DEF Shutdown

LEMMA QueueMore ==
  ASSUME NEW f, Queues(f), NEW g \in Links, NEW i \in Sides, NEW x,
         x.type \in PolledTypes, x.type = "failure" => x.from = Peer(i)
  PROVE  Queues([f EXCEPT ![g][i] = Append(@, x)])
<1>1. PolledBy(i, Append(f[g][i], x))
  <2> DEFINE q == f[g][i]
  <2>1. PolledBy(i, q)
    BY DEF Queues
  <2> HIDE DEF q
  <2>2. PolledBy(i, Append(q, x))
    BY <2>1, OneMorePolled
  <2> QED
    BY <2>2 DEF q
<1> QED
  BY <1>1, QueueSet

LEMMA FailureMoves ==
  ASSUME PairInv, NEW g \in Links, NEW i \in Sides, ReportFailure(g, i)
  PROVE  PairInv'
<1> DEFINE x == FailureOf(Peer(i))
<1>1. pending' = [pending EXCEPT ![g][i] = Append(@, x)] /\ wire' = wire
  BY DEF ReportFailure
<1>2. x.type = "failure" /\ x.from = Peer(i)
  BY DEF FailureOf
<1> HIDE DEF x
<1>3. Queues(pending') /\ Queues(wire')
  <2>1. Queues(pending) /\ Queues(wire)
    BY DEF PairInv
  <2>2. Queues([pending EXCEPT ![g][i] = Append(@, x)])
    BY <1>2, <2>1, QueueMore DEF PolledTypes
  <2> QED
    BY <1>1, <2>1, <2>2
<1> QED
  BY <1>3, QueuesMove DEF ReportFailure

LEMMA ArriveMoves ==
  ASSUME PairInv, NEW g \in Links, NEW i \in Sides, Arrive(g, i)
  PROVE  PairInv'
<1> DEFINE q == wire[g][i]
           x == Head(q)
           rest == Tail(q)
<1>1. PolledBy(i, q) /\ q # <<>>
  BY DEF PairInv, Queues, Arrive
<1>2. /\ pending' = [pending EXCEPT ![g][i] = Append(@, x)]
      /\ wire' = [wire EXCEPT ![g][i] = rest]
  BY DEF Arrive
<1> HIDE DEF q
<1>3. /\ PolledBy(i, rest) /\ x.type \in PolledTypes
      /\ x.type = "failure" => x.from = Peer(i)
  BY <1>1, TheRestPolled
<1> HIDE DEF x, rest
<1>4. Queues(pending')
  BY <1>2, <1>3, QueueMore DEF PairInv
<1>5. Queues(wire')
  BY <1>2, <1>3, QueueSet DEF PairInv
<1> QED
  BY <1>4, <1>5, QueuesMove DEF Arrive

LEMMA RunSendMoves ==
  ASSUME PairInv, NEW g \in Links, NEW i \in Sides, NEW k, RunSend(g, i, k)
  PROVE  PairInv'
<1> DEFINE task == tasks[g][i][k]
           to == Peer(i)
           ev == IF task.params = "audio" THEN AudioFrom(i) ELSE BytesFrom(i, task.payload)
<1>1. to \in Sides
  BY DEF Peer, Sides
<1>2. ev.type \in {"audio", "bytes"}
  BY DEF AudioFrom, BytesFrom
<1>3. \/ UNCHANGED <<wire, pending, seen>>
      \/ /\ wire' = [wire EXCEPT ![g][to] = Append(@, ev)]
         /\ UNCHANGED <<pending, seen>>
      \/ /\ pending' = [pending EXCEPT ![g][to] = Append(@, ev)]
         /\ UNCHANGED <<wire, seen>>
      \/ /\ seen' = [seen EXCEPT ![to].dropped = TRUE]
         /\ UNCHANGED <<wire, pending>>
  BY DEF RunSend
<1>4. UNCHANGED <<syncer, bound>>
  BY DEF RunSend
<1> HIDE DEF ev, to
<1>5. CASE UNCHANGED <<wire, pending, seen>>
  BY <1>4, <1>5 DEF PairInv
<1>6. CASE /\ wire' = [wire EXCEPT ![g][to] = Append(@, ev)]
           /\ UNCHANGED <<pending, seen>>
  <2>1. Queues(pending') /\ Queues(wire')
    <3>1. Queues(wire) /\ Queues(pending)
      BY DEF PairInv
    <3>2. ev.type \in PolledTypes /\ ev.type # "failure"
      BY <1>2 DEF PolledTypes
    <3>3. Queues([wire EXCEPT ![g][to] = Append(@, ev)])
      BY <1>1, <3>1, <3>2, QueueMore
    <3> QED
      BY <1>6, <3>1, <3>3
  <2> QED
    BY <1>4, <1>6, <2>1, QueuesMove
<1>7. CASE /\ pending' = [pending EXCEPT ![g][to] = Append(@, ev)]
           /\ UNCHANGED <<wire, seen>>
  <2>1. Queues(pending') /\ Queues(wire')
    <3>1. Queues(pending) /\ Queues(wire)
      BY DEF PairInv
    <3>2. ev.type \in PolledTypes /\ ev.type # "failure"
      BY <1>2 DEF PolledTypes
    <3>3. Queues([pending EXCEPT ![g][to] = Append(@, ev)])
      BY <1>1, <3>1, <3>2, QueueMore
    <3> QED
      BY <1>7, <3>1, <3>3
  <2> QED
    BY <1>4, <1>7, <2>1, QueuesMove
<1>8. CASE /\ seen' = [seen EXCEPT ![to].dropped = TRUE]
           /\ UNCHANGED <<wire, pending>>
  <2>1. /\ DOMAIN seen' = Sides
        /\ \A j \in Sides : /\ DOMAIN seen'[j] = DOMAIN seen[j]
                           /\ seen'[j].told = seen[j].told
                           /\ seen'[j].left = seen[j].left
                           /\ seen'[j].failure = seen[j].failure
    BY <1>8 DEF PairInv, SideOK, SeenFields
  <2>2. \A j \in Sides : SideOK(j, syncer'[j], seen'[j])
    BY <1>4, <2>1 DEF PairInv, SideOK
  <2> QED
    BY <1>4, <1>8, <2>1, <2>2 DEF PairInv
<1> QED
  BY <1>3, <1>5, <1>6, <1>7, <1>8

LEMMA PairStep == PairInv /\ [Next]_vars => PairInv'
<1> SUFFICES ASSUME PairInv, [Next]_vars PROVE PairInv'
  OBVIOUS
<1>1. CASE UNCHANGED vars
  BY <1>1 DEF PairInv, vars
<1>2. CASE \E g \in Links, i \in Sides : Transport(g, i)
  <2>1. PICK g \in Links, i \in Sides : Transport(g, i)
    BY <1>2
  <2>2. CASE \E ch \in Channels : OpenChannel(g, i, ch)
    BY <2>2 DEF OpenChannel, PairInv
  <2>3. CASE ReportFailure(g, i)
    BY <2>3, FailureMoves
  <2>4. CASE \E k \in DOMAIN tasks[g][i] : RunSend(g, i, k)
    BY <2>4, RunSendMoves
  <2>5. CASE Arrive(g, i)
    BY <2>5, ArriveMoves
  <2> QED
    BY <2>1, <2>2, <2>3, <2>4, <2>5 DEF Transport
<1>3. CASE \E g \in Links : Shutdown(g)
  BY <1>3, ShutdownMoves
<1>4. CASE \E i \in Sides : \/ Rebind(i) \/ Join(i) \/ PollOnly(i)
                            \/ SendPose(i) \/ SendChat(i) \/ SendVoiceFrame(i)
  <2>1. PICK i \in Sides : \/ Rebind(i) \/ Join(i) \/ PollOnly(i)
                           \/ SendPose(i) \/ SendChat(i) \/ SendVoiceFrame(i)
    BY <1>4
  <2>2. CASE Rebind(i)
    BY <2>2, RebindMoves
  <2>3. CASE PollOnly(i)
    BY <2>3, PollMoves
  <2>4. CASE Join(i)
    <3>1. PICK req : Handle(i, req)
      BY <2>4 DEF Join
    <3> QED
      BY <3>1, HandleMoves
  <2>5. CASE SendPose(i) \/ SendVoiceFrame(i) \/ SendChat(i)
    <3>1. PICK kind, msg : Send(i, kind, msg)
      BY <2>5 DEF SendPose, SendVoiceFrame, SendChat
    <3>2. PICK req : Handle(i, req)
      BY <3>1 DEF Send
    <3> QED
      BY <3>2, HandleMoves
  <2> QED
    BY <2>1, <2>2, <2>3, <2>4, <2>5
<1> QED
  BY <1>1, <1>2, <1>3, <1>4 DEF Next

LEMMA PairAlways == Spec => []PairInv
BY PairStarts, PairStep, PTL DEF Spec

(***************************************************************************)
(* An application that follows PeerJoined and PeerLeft knows exactly whom  *)
(* its syncer sends to, in order, for any users, joins, chats, failures    *)
(* and new transports.  It rests on every operation of the table telling   *)
(* what it does (participant_table.rs lines 28 to 79) and on the drain     *)
(* doing so event by event (transport_inbox.rs, drain_into_events).        *)
(***************************************************************************)
THEOREM ApplicationsKnowTheTable == Spec => []ToldIsTable
<1>1. PairInv => ToldIsTable
  BY DEF PairInv, SideOK, ToldIsTable
<1> QED
  BY <1>1, PairAlways, PTL

(***************************************************************************)
(* Every failure polled from a transport is told as PeerLeft of the other  *)
(* side, on the first transport and on each one after a rebind, though the *)
(* inbox tells a peer's failure only once in its life.  (lib.rs,           *)
(* rebind_transport; transport_inbox.rs, drain_into_events)                *)
(***************************************************************************)
THEOREM FailuresAreTold == Spec => []FailureIsTold
<1>1. PairInv => FailureIsTold
  BY DEF PairInv, SideOK, FailureIsTold
<1> QED
  BY <1>1, PairAlways, PTL

(***************************************************************************)
(* What travels between two syncers.                                       *)
(***************************************************************************)
UserIds == UNION {Users[j] : j \in Sides}

\* If a message cannot be read, then for one of the reasons that the
\* applications give.
Excused(m) ==
  /\ m.size > MaxBytes => "body_too_large" \in Unreadable
  /\ m.type = "pose" /\ ~m.finite => "invalid_pose" \in Unreadable

\* The messages that syncers send to each other.
Ours(m) ==
  /\ m.type \in {"pose", "chat", "join"} /\ m.size \in Nat
  /\ EncodeError(m) = "ok"
  /\ Excused(m)
  /\ m.type = "join" => m.participant \in UserIds

Carried(b) == Ours(b.content) /\ b = Encode(b.content)

\* What may be in a queue of events, and among the spawned sends.
EventCarries(x) == x.type = "bytes" => Carried(x.bytes)

TaskCarries(t) ==
  \/ t.params = "audio"
  \/ t.params \in {"ordered", "unordered"} /\ Carried(t.payload)

\* The chat in an event, as the set of its id or as nothing.
ChatIn(x) ==
  IF x.type = "bytes" /\ x.bytes.content.type = "chat"
  THEN {x.bytes.content.id} ELSE {}

LEMMA OursEncoded ==
  ASSUME NEW m, Ours(m)
  PROVE  Carried(Encode(m)) /\ Encode(m).content = m
BY Encoded DEF Carried

LEMMA OursAreRead ==
  ASSUME NEW b, Carried(b)
  PROVE  ParseError(b) \in {"ok"} \cup Unreadable /\ Ours(b.content)
<1> DEFINE m == b.content
<1>1. Ours(m) /\ b = Encode(m)
  BY DEF Carried
<1> HIDE DEF m
<1>2. FromSlice(Encode(m)) = IF m.size > MaxBytes THEN "body_too_large" ELSE "ok"
  BY <1>1, OursPassFromSlice, MessageBounds DEF Ours
<1>3. BodyError(Encode(m)) = IF m.type = "pose" /\ ~m.finite THEN "invalid_pose" ELSE "ok"
  BY <1>1, OursIsRead DEF Ours
<1>4. ParseError(Encode(m)) \in {"ok"} \cup Unreadable
  BY <1>1, <1>2, <1>3 DEF ParseError, Ours, Excused
<1> QED
  BY <1>1, <1>4 DEF m

(***************************************************************************)
(* What one event makes a syncer tell: no error without its cause, and no  *)
(* chat but the one in the event, once.                                    *)
(***************************************************************************)
Yields(x, more) ==
  /\ ASeq(more)
  /\ \A k \in DOMAIN more : more[k].type = "Error" => more[k].about \in Unreadable
  /\ \A k \in DOMAIN more :
       more[k].type = "ChatReceived" => more[k].about \in ChatIn(x)
  /\ \A k, l \in DOMAIN more :
       more[k].type = "ChatReceived" /\ more[l].type = "ChatReceived" => k = l

LEMMA YieldsOne ==
  ASSUME NEW x, NEW e, e.type = "Error" => e.about \in Unreadable,
         e.type = "ChatReceived" => e.about \in ChatIn(x)
  PROVE  Yields(x, <<e>>)
<1>1. <<e>> \in Seq({e}) /\ DOMAIN <<e>> = {1} /\ <<e>>[1] = e
  OBVIOUS
<1> QED
  BY <1>1 DEF Yields, ASeq

\* The operations of the table tell of nobody but peers.
OfPeers(more) ==
  /\ ASeq(more)
  /\ \A k \in DOMAIN more : more[k].type \in {"PeerJoined", "PeerLeft"}

LEMMA YieldsPeers ==
  ASSUME NEW x, NEW more, OfPeers(more)
  PROVE  Yields(x, more)
BY DEF OfPeers, Yields

LEMMA JoinTells ==
  ASSUME NEW table, NEW p
  PROVE  LET r == ApplyJoin(table, p)
         IN  r.table.sessions = table.sessions \cup {p} /\ OfPeers(r.events)
<1> DEFINE r == ApplyJoin(table, p)
           e == Event("PeerJoined", p)
           d == Event("PeerLeft", p)
           first == IF p \in table.sessions THEN <<d>> ELSE <<>>
<1>1. r.table.sessions = table.sessions \cup {p} /\ r.events = first \o <<e>>
  BY DEF ApplyJoin
<1>2. e.type = "PeerJoined" /\ d.type = "PeerLeft"
  BY DEF Event
<1> HIDE DEF e, d
<1>3. first \in Seq({d}) /\ <<e>> \in Seq({e})
  <2>1. <<>> \in Seq({d}) /\ <<d>> \in Seq({d}) /\ <<e>> \in Seq({e})
    OBVIOUS
  <2> QED
    BY <2>1
<1> HIDE DEF first
<1>4. first \in Seq({d, e}) /\ <<e>> \in Seq({d, e})
  BY <1>3
<1> DEFINE s == first \o <<e>>
<1>5. s \in Seq({d, e})
  BY <1>4, ConcatProperties
<1> HIDE DEF s
<1>6. \A k \in DOMAIN s : s[k] \in {d, e}
  BY <1>5
<1>7. OfPeers(s)
  BY <1>2, <1>5, <1>6 DEF OfPeers, ASeq
<1> QED
  BY <1>1, <1>7 DEF s

LEMMA LeaveTells ==
  ASSUME NEW table, NEW p
  PROVE  LET r == ApplyLeave(table, p)
         IN  r.table.sessions = table.sessions \ {p} /\ OfPeers(r.events)
<1> DEFINE r == ApplyLeave(table, p)
           d == Event("PeerLeft", p)
<1>1. r.table.sessions = table.sessions \ {p} /\ r.events \in {<<>>, <<d>>}
  BY DEF ApplyLeave
<1>2. d.type = "PeerLeft"
  BY DEF Event
<1> HIDE DEF d
<1>3. /\ <<>> \in Seq({d}) /\ <<d>> \in Seq({d})
      /\ DOMAIN <<>> = {} /\ DOMAIN <<d>> = {1} /\ <<d>>[1] = d
  OBVIOUS
<1>4. OfPeers(<<>>) /\ OfPeers(<<d>>)
  BY <1>2, <1>3 DEF OfPeers, ASeq
<1> QED
  BY <1>1, <1>4

LEMMA NothingYields ==
  ASSUME NEW x
  PROVE  Yields(x, <<>>)
<1>1. <<>> \in Seq({}) /\ DOMAIN <<>> = {}
  OBVIOUS
<1> QED
  BY <1>1 DEF Yields, ASeq

LEMMA MessageYields ==
  ASSUME NEW acc, Draining(acc), acc.syncer.table.sessions \subseteq UserIds,
         NEW x, x.type = "bytes", Ours(x.bytes.content)
  PROVE  LET after == ObserveMessage(acc, x.bytes.content) IN
         /\ after.syncer.table.sessions \subseteq UserIds
         /\ \E more : after.events = acc.events \o more /\ Yields(x, more)
<1> DEFINE m == x.bytes.content
           after == ObserveMessage(acc, m)
           peers == ApplyPeerEvent(acc.syncer.table, m)
<1>1. CASE m.type = "join"
  <2>1. /\ after.syncer = [acc.syncer EXCEPT !.table = peers.table]
        /\ after.events = acc.events \o peers.events
    BY <1>1 DEF ObserveMessage
  <2>2. m.participant \in UserIds
    BY <1>1 DEF Ours
  <2>3. m.participant # Unparsable
    BY <2>2, ApplicationsAssumption DEF UserIds
  <2>4. peers = ApplyJoin(acc.syncer.table, m.participant)
    BY <1>1, <2>3 DEF ApplyPeerEvent
  <2>5. /\ peers.table.sessions = acc.syncer.table.sessions \cup {m.participant}
        /\ OfPeers(peers.events)
    BY <2>4, JoinTells
  <2> HIDE DEF peers, after, m
  <2>6. after.syncer.table = peers.table
    BY <2>1 DEF Draining, SyncerFields
  <2>7. after.syncer.table.sessions \subseteq UserIds
    BY <2>2, <2>5, <2>6
  <2>8. Yields(x, peers.events)
    BY <2>5, YieldsPeers
  <2> QED
    BY <2>1, <2>7, <2>8 DEF after, m
<1>2. CASE m.type \in {"pose", "chat"}
  <2>1. PICK e : /\ after = [acc EXCEPT !.events = Append(@, e)]
                 /\ e.type # "Error"
                 /\ e.type = "ChatReceived" => e.about \in ChatIn(x)
    <3>1. CASE m.type = "pose"
      <4> DEFINE e == Event("PoseReceived", m)
      <4>1. after = [acc EXCEPT !.events = Append(@, e)]
        BY <3>1 DEF ObserveMessage
      <4>2. e.type = "PoseReceived"
        BY DEF Event
      <4> HIDE DEF e, after
      <4> QED
        BY <4>1, <4>2
    <3>2. CASE m.type = "chat"
      <4> DEFINE e == Event("ChatReceived", m.id)
      <4>1. after = [acc EXCEPT !.events = Append(@, e)]
        BY <3>2 DEF ObserveMessage
      <4>2. m.id \in ChatIn(x)
        BY <3>2 DEF ChatIn
      <4>3. e.type = "ChatReceived" /\ e.about = m.id
        BY DEF Event
      <4> HIDE DEF e, after
      <4> QED
        BY <4>1, <4>2, <4>3
    <3> QED
      BY <1>2, <3>1, <3>2
  <2> HIDE DEF after, m
  <2>2. after.syncer = acc.syncer /\ after.events = Append(acc.events, e)
    BY <2>1 DEF Draining
  <2>3. after.events = acc.events \o <<e>>
    BY <2>2, Appended DEF Draining
  <2>4. Yields(x, <<e>>)
    BY <2>1, YieldsOne
  <2> QED
    BY <2>2, <2>3, <2>4 DEF after, m
<1> QED
  BY <1>1, <1>2 DEF Ours

LEMMA EventYields ==
  ASSUME NEW acc, Draining(acc), acc.syncer.table.sessions \subseteq UserIds,
         NEW x, x.type \in PolledTypes, EventCarries(x)
  PROVE  LET after == Observe(acc, x) IN
         /\ after.syncer.table.sessions \subseteq UserIds
         /\ \E more : after.events = acc.events \o more /\ Yields(x, more)
<1> DEFINE after == Observe(acc, x)
           old == acc.events
<1>1. ASeq(old)
  BY DEF Draining
<1>2. CASE x.type = "failure"
  <2> DEFINE left == ApplyLeave(acc.syncer.table, x.from)
             e == Event("PeerLeft", x.from)
  <2>1. after = ObserveFailure(acc, x.from)
    BY <1>2 DEF Observe
  <2>2. CASE x.from \in acc.syncer.failed
    <3>1. after = acc
      BY <2>1, <2>2 DEF ObserveFailure
    <3>2. old = old \o <<>>
      <4>1. PICK M : old \in Seq(M)
        BY <1>1 DEF ASeq
      <4> HIDE DEF old
      <4> QED
        BY <4>1, ConcatEmptySeq
    <3> QED
      BY <3>1, <3>2, NothingYields
  <2>3. CASE x.from \notin acc.syncer.failed
    <3>1. /\ after.events = Append(old, e)
          /\ after.syncer = [acc.syncer EXCEPT !.failed = @ \cup {x.from}, !.table = left.table]
      BY <2>1, <2>3 DEF ObserveFailure
    <3>2. left.table.sessions \subseteq UserIds
      BY LeaveTells
    <3>3. e.type = "PeerLeft"
      BY DEF Event
    <3> HIDE DEF left, e, after, old
    <3>4. after.syncer.table = left.table
      BY <3>1 DEF Draining, SyncerFields
    <3>5. Append(old, e) = old \o <<e>> /\ Yields(x, <<e>>)
      BY <1>1, <3>3, Appended, YieldsOne
    <3>6. after.events = old \o <<e>>
      BY <3>1, <3>5
    <3> QED
      BY <3>2, <3>4, <3>5, <3>6 DEF after, old
  <2> QED
    BY <2>2, <2>3
<1>3. CASE x.type = "audio"
  <2> DEFINE e == Event("VoiceFrameReceived", x.from)
  <2>1. after = [acc EXCEPT !.events = Append(@, e)]
    BY <1>3 DEF Observe
  <2>2. e.type = "VoiceFrameReceived"
    BY DEF Event
  <2> HIDE DEF e, after
  <2>3. after.syncer = acc.syncer /\ after.events = Append(old, e)
    BY <2>1 DEF Draining
  <2>4. Append(old, e) = old \o <<e>> /\ Yields(x, <<e>>)
    <3> HIDE DEF old
    <3> QED
      BY <1>1, <2>2, Appended, YieldsOne
  <2> QED
    BY <2>3, <2>4 DEF after
<1>4. CASE x.type = "bytes"
  <2>1. ParseError(x.bytes) \in {"ok"} \cup Unreadable /\ Ours(x.bytes.content)
    BY <1>4, OursAreRead DEF EventCarries
  <2>2. CASE ParseError(x.bytes) = "ok"
    <3>1. after = ObserveMessage(acc, x.bytes.content)
      BY <1>4, <2>2 DEF Observe
    <3> QED
      BY <1>4, <2>1, <3>1, MessageYields
  <2>3. CASE ParseError(x.bytes) # "ok"
    <3> DEFINE e == Event("Error", ParseError(x.bytes))
    <3>1. after = [acc EXCEPT !.events = Append(@, e)]
      BY <1>4, <2>3 DEF Observe
    <3>2. e.type = "Error" /\ e.about \in Unreadable
      BY <2>1, <2>3 DEF Event
    <3> HIDE DEF e, after
    <3>3. after.syncer = acc.syncer /\ after.events = Append(old, e)
      BY <3>1 DEF Draining
    <3>4. Append(old, e) = old \o <<e>> /\ Yields(x, <<e>>)
      <4> HIDE DEF old
      <4> QED
        BY <1>1, <3>2, Appended, YieldsOne
    <3> QED
      BY <3>3, <3>4 DEF after
  <2> QED
    BY <2>2, <2>3
<1> QED
  BY <1>2, <1>3, <1>4 DEF PolledTypes

(***************************************************************************)
(* All of a drain.                                                         *)
(***************************************************************************)
Cargo(q) == \A k \in DOMAIN q : EventCarries(q[k])

\* Each chat is in the queue once.
Apart(q) == \A j, k \in DOMAIN q : ChatIn(q[j]) \cap ChatIn(q[k]) # {} => j = k

Fine(events) ==
  /\ ASeq(events)
  /\ \A k \in DOMAIN events :
       events[k].type = "Error" => events[k].about \in Unreadable

ToldOnce(events) ==
  \A j, k \in DOMAIN events :
    /\ events[j].type = "ChatReceived" /\ events[k].type = "ChatReceived"
    /\ events[j].about = events[k].about
    => j = k

\* The chats told are among the first n in the queue.
ToldFrom(events, q, n) ==
  \A k \in DOMAIN events : events[k].type = "ChatReceived" =>
    \E j \in 1 .. n : events[k].about \in ChatIn(q[j])

LEMMA ByIndex ==
  ASSUME NEW p, NEW q, ASeq(p), ASeq(q), NEW k \in DOMAIN (p \o q)
  PROVE  \/ k \in DOMAIN p /\ (p \o q)[k] = p[k]
         \/ \E l \in DOMAIN q : k = Len(p) + l /\ (p \o q)[k] = q[l]
<1> DEFINE r == p \o q
<1>1. /\ ASeq(r) /\ Len(r) = Len(p) + Len(q)
      /\ \A i \in 1 .. Len(p) : r[i] = p[i]
      /\ \A i \in 1 .. Len(q) : r[Len(p) + i] = q[i]
  BY JoinedSeq
<1>2. /\ Len(p) \in Nat /\ Len(q) \in Nat /\ DOMAIN p = 1 .. Len(p)
      /\ DOMAIN q = 1 .. Len(q) /\ DOMAIN r = 1 .. Len(r)
  BY <1>1, ASeqFacts
<1> HIDE DEF r
<1>3. k \in 1 .. Len(p) + Len(q)
  BY <1>1, <1>2 DEF r
<1>4. CASE k <= Len(p)
  <2>1. k \in 1 .. Len(p)
    BY <1>2, <1>3, <1>4
  <2> QED
    BY <1>1, <1>2, <2>1 DEF r
<1>5. CASE ~(k <= Len(p))
  <2>1. k - Len(p) \in 1 .. Len(q) /\ k = Len(p) + (k - Len(p))
    BY <1>2, <1>3, <1>5
  <2> QED
    BY <1>1, <1>2, <2>1 DEF r
<1> QED
  BY <1>4, <1>5

LEMMA FineJoined ==
  ASSUME NEW p, NEW q, Fine(p), Fine(q)
  PROVE  Fine(p \o q)
<1>1. ASeq(p \o q)
  BY JoinedSeq DEF Fine
<1>2. ASSUME NEW k \in DOMAIN (p \o q), (p \o q)[k].type = "Error"
      PROVE  (p \o q)[k].about \in Unreadable
  BY <1>2, ByIndex DEF Fine
<1> QED
  BY <1>1, <1>2 DEF Fine

\* One event more.
LEMMA YieldsOn ==
  ASSUME NEW q, NEW n \in Nat, DOMAIN q = 1 .. n, NEW k \in 1 .. n,
         NEW events, Fine(events), ToldFrom(events, q, k - 1),
         NEW more, Yields(q[k], more)
  PROVE  /\ Fine(events \o more) /\ ToldFrom(events \o more, q, k)
         /\ Apart(q) /\ ToldOnce(events) => ToldOnce(events \o more)
<1> DEFINE r == events \o more
<1>1. ASeq(events) /\ ASeq(more)
  BY DEF Fine, Yields
<1>2. Fine(r)
  BY FineJoined DEF Fine, Yields
<1>3. ToldFrom(r, q, k)
  <2> SUFFICES ASSUME NEW l \in DOMAIN r, r[l].type = "ChatReceived"
               PROVE  \E j \in 1 .. k : r[l].about \in ChatIn(q[j])
    BY DEF ToldFrom
  <2>1. CASE l \in DOMAIN events /\ r[l] = events[l]
    <3>1. PICK j \in 1 .. k - 1 : r[l].about \in ChatIn(q[j])
      BY <2>1 DEF ToldFrom
    <3> QED
      BY <3>1
  <2>2. CASE \E i \in DOMAIN more : r[l] = more[i]
    <3>1. r[l].about \in ChatIn(q[k])
      BY <2>2 DEF Yields
    <3> QED
      BY <3>1
  <2> QED
    BY <1>1, <2>1, <2>2, ByIndex
<1>4. ASSUME Apart(q), ToldOnce(events) PROVE ToldOnce(r)
  <2>1. ASSUME NEW l \in DOMAIN events, events[l].type = "ChatReceived",
               NEW i \in DOMAIN more, more[i].type = "ChatReceived",
               events[l].about = more[i].about
        PROVE  FALSE
    <3>1. PICK j \in 1 .. k - 1 : events[l].about \in ChatIn(q[j])
      BY <2>1 DEF ToldFrom
    <3>2. more[i].about \in ChatIn(q[k])
      BY <2>1 DEF Yields
    <3>3. j \in DOMAIN q /\ k \in DOMAIN q /\ j # k
      OBVIOUS
    <3> QED
      BY <1>4, <2>1, <3>1, <3>2, <3>3 DEF Apart
  <2> SUFFICES ASSUME NEW x \in DOMAIN r, NEW y \in DOMAIN r,
                      r[x].type = "ChatReceived", r[y].type = "ChatReceived",
                      r[x].about = r[y].about
               PROVE  x = y
    BY DEF ToldOnce
  <2>2. /\ \/ x \in DOMAIN events /\ r[x] = events[x]
           \/ \E i \in DOMAIN more : x = Len(events) + i /\ r[x] = more[i]
        /\ \/ y \in DOMAIN events /\ r[y] = events[y]
           \/ \E i \in DOMAIN more : y = Len(events) + i /\ r[y] = more[i]
    BY <1>1, ByIndex, SMTT(20)
  <2> HIDE DEF r
  <2>3. CASE x \in DOMAIN events /\ r[x] = events[x]
    <3>1. y \in DOMAIN events /\ r[y] = events[y]
      BY <2>1, <2>2, <2>3
    <3> QED
      BY <1>4, <2>3, <3>1 DEF ToldOnce
  <2>4. CASE \E i \in DOMAIN more : x = Len(events) + i /\ r[x] = more[i]
    <3>1. \E i \in DOMAIN more : y = Len(events) + i /\ r[y] = more[i]
      BY <2>1, <2>2, <2>4
    <3> QED
      BY <2>4, <3>1 DEF Yields
  <2> QED
    BY <2>2, <2>3, <2>4
<1> QED
  BY <1>2, <1>3, <1>4

LEMMA DrainYields ==
  ASSUME NEW s, DOMAIN s = SyncerFields, TableOK(s.table),
         s.table.sessions \subseteq UserIds, NEW q, Pollable(q), Cargo(q)
  PROVE  LET r == Drain(s, q) IN
         /\ r.syncer.table.sessions \subseteq UserIds
         /\ r.syncer.registered = s.registered /\ r.syncer.used = s.used
         /\ Fine(r.events) /\ ToldFrom(r.events, q, Len(q))
         /\ Apart(q) => ToldOnce(r.events)
         /\ ~s.joined => r.events = <<>>
<1> DEFINE r == Drain(s, q)
           none == <<>>
           acc == [syncer |-> s, events |-> none]
           n == Len(q)
<1>1. Draining(acc) /\ Advanced(acc, acc)
  BY NothingAdvanced
<1>2. acc.syncer = s /\ acc.events = none
  OBVIOUS
<1>3. Fine(none) /\ ToldOnce(none) /\ \A k : ToldFrom(none, q, k)
  <2>1. none \in Seq({}) /\ DOMAIN none = {}
    OBVIOUS
  <2> QED
    BY <2>1 DEF Fine, ASeq, ToldOnce, ToldFrom
<1>4. CASE ~s.joined
  <2>1. r = acc
    BY <1>4 DEF Drain
  <2> HIDE DEF acc, none
  <2> QED
    BY <1>2, <1>3, <1>4, <2>1 DEF none
<1>5. CASE s.joined
  <2>1. n \in Nat /\ DOMAIN q = 1 .. n
    BY ASeqFacts DEF Pollable
  <2>2. r = FoldLeft(Observe, acc, q)
    BY <1>5 DEF Drain
  <2> HIDE DEF n, acc, r, none
  <2>3. PICK h : Drained!IsSeries(h, n, acc, q) /\ h[n] = r
    BY <2>1, <2>2, DrainIsSeries
  <2> DEFINE S == {k \in 0 .. n :
                     /\ Advanced(acc, h[k])
                     /\ h[k].syncer.table.sessions \subseteq UserIds
                     /\ Fine(h[k].events) /\ ToldFrom(h[k].events, q, k)
                     /\ Apart(q) => ToldOnce(h[k].events)}
  <2>4. 0 \in S
    <3>1. h[0] = acc
      BY <2>3 DEF Drained!IsSeries
    <3> QED
      BY <1>1, <1>2, <1>3, <2>1, <3>1
  <2>5. ASSUME NEW k \in 1 .. n, k - 1 \in S PROVE k \in S
    <3> DEFINE a == h[k - 1]
               b == h[k]
               x == q[k]
    <3>1. b = Observe(a, x)
      BY <2>3 DEF Drained!IsSeries
    <3>2. /\ Advanced(acc, a) /\ a.syncer.table.sessions \subseteq UserIds
          /\ Fine(a.events) /\ ToldFrom(a.events, q, k - 1)
          /\ Apart(q) => ToldOnce(a.events)
      BY <2>5
    <3>3. x.type \in PolledTypes /\ EventCarries(x)
      BY <2>1 DEF Pollable, Cargo
    <3>4. Draining(a)
      BY <3>2 DEF Advanced
    <3> DEFINE e == a.events
    <3>5. PICK more : /\ b.events = e \o more /\ Yields(x, more)
                      /\ b.syncer.table.sessions \subseteq UserIds
      <4> HIDE DEF a, b, x
      <4> QED
        BY <3>1, <3>2, <3>3, <3>4, EventYields
    <3>6. Advanced(acc, b)
      <4> HIDE DEF a, b, x
      <4>1. Advanced(a, b)
        BY <3>1, <3>3, <3>4, EventObserved
      <4> QED
        BY <1>1, <3>2, <4>1, AdvancedOn
    <3>7. /\ Fine(e \o more) /\ ToldFrom(e \o more, q, k)
          /\ Apart(q) => ToldOnce(e \o more)
      <4>1. Fine(e) /\ ToldFrom(e, q, k - 1) /\ (Apart(q) => ToldOnce(e))
        BY <3>2
      <4> HIDE DEF e
      <4> QED
        BY <2>1, <3>5, <4>1, YieldsOn
    <3> HIDE DEF a, b, e
    <3>8. /\ Fine(b.events) /\ ToldFrom(b.events, q, k)
          /\ Apart(q) => ToldOnce(b.events)
      BY <3>5, <3>7
    <3>9. b.syncer.table.sessions \subseteq UserIds
      BY <3>5
    <3> QED
      BY <2>1, <3>6, <3>8, <3>9 DEF b
  <2>6. n \in S
    <3>1. \A k \in 1 .. n : k - 1 \in S => k \in S
      BY <2>5
    <3> HIDE DEF S
    <3>2. \A k \in 0 .. n : k \in S
      BY <2>1, <2>4, <3>1, Drained!IndexInduction
    <3> QED
      BY <2>1, <3>2
  <2>7. /\ Advanced(acc, r) /\ r.syncer.table.sessions \subseteq UserIds
        /\ Fine(r.events) /\ ToldFrom(r.events, q, n)
        /\ Apart(q) => ToldOnce(r.events)
    BY <2>3, <2>6
  <2>8. r.syncer.registered = s.registered /\ r.syncer.used = s.used
    BY <1>2, <2>7 DEF Advanced
  <2> QED
    BY <1>5, <2>7, <2>8 DEF r, n
<1> QED
  BY <1>4, <1>5

(***************************************************************************)
(* A request, and what it gives to the transport.                          *)
(***************************************************************************)
Sound(s) ==
  /\ s.joined \in BOOLEAN /\ s.registered \in BOOLEAN
  /\ s.table.sessions \subseteq UserIds
  /\ s.used \in 0 .. Limit

\* The requests the applications make.
Requested(i, req) ==
  \/ req.type = "Join" /\ req.who \in UserIds
  \/ req.type = "Send" /\ req.from = i /\ req.kind = "voice"
  \/ /\ req.type = "Send" /\ req.from = i /\ req.kind \in {"pose", "chat"}
     /\ req.msg.type = req.kind /\ req.msg.size \in Nat
     /\ Excused(req.msg)

\* The id of the chat a request sends, and the chat in a spawned send.
Uttered(req) ==
  IF req.type = "Send" /\ req.kind = "chat" THEN {req.msg.id} ELSE {}

ChatOf(t) ==
  IF t.params # "audio" /\ t.payload.content.type = "chat"
  THEN {t.payload.content.id} ELSE {}

\* What the syncer of side i gives to its transport: a chat is for nobody
\* twice, and not for i.
Dispatch(i, req, sends) ==
  /\ ASeq(sends)
  /\ \A k \in DOMAIN sends : TaskCarries(sends[k])
  /\ \A k \in DOMAIN sends : ChatOf(sends[k]) \subseteq Uttered(req)
  /\ \A k \in DOMAIN sends : ChatOf(sends[k]) # {} => sends[k].to # i
  /\ \A j, k \in DOMAIN sends :
       ChatOf(sends[j]) # {} /\ ChatOf(sends[k]) # {} /\ sends[j].to = sends[k].to
       => j = k

NoChats(events) == \A k \in DOMAIN events : events[k].type # "ChatReceived"

LEMMA NoDispatch ==
  ASSUME NEW i, NEW req
  PROVE  Dispatch(i, req, <<>>)
<1>1. <<>> \in Seq({}) /\ DOMAIN <<>> = {}
  OBVIOUS
<1> QED
  BY <1>1 DEF Dispatch, ASeq

OneEach(d, n, kind, payload) == [k \in 1 .. n |-> Outbound(d[k], kind, payload)]

\* The others in the table's order, each once.
LEMMA Routed ==
  ASSUME NEW table, TableOK(table), NEW i, NEW kind, NEW payload
  PROVE  LET r == Route(table, i, kind, payload)
         IN  \E n \in Nat : \E d :
               /\ r = OneEach(d, n, kind, payload)
               /\ \A k \in 1 .. n : d[k] # i
               /\ \A j, k \in 1 .. n : d[j] = d[k] => j = k
<1> DEFINE order == table.order
           K == {k \in DOMAIN order : order[k] # i}
           others == Selected(order, K)
           m == Cardinality(K)
           n == Len(order)
<1>1. ASeq(order) /\ n \in Nat /\ DOMAIN order = 1 .. n /\ K \in SUBSET (1 .. n)
  BY ASeqFacts DEF TableOK
<1>2. \A j, k \in DOMAIN order : order[j] = order[k] => j = k
  BY DEF TableOK, IsInjective
<1> HIDE DEF n
<1>3. m \in Nat /\ \E f : Enumerates(f, m, K) /\ others = ReadAt(order, f, m)
  <2> HIDE DEF K, order
  <2> QED
    BY <1>1, SelectedIndices
<1>4. PICK f : Enumerates(f, m, K) /\ others = ReadAt(order, f, m)
  BY <1>3
<1>5. Route(table, i, kind, payload) =
        [k \in DOMAIN others |-> Outbound(others[k], kind, payload)]
  BY DEF Route
<1> HIDE DEF others, m
<1>6. DOMAIN others = 1 .. m /\ \A k \in 1 .. m : others[k] = order[f[k]]
  BY <1>4 DEF ReadAt
<1>7. \A k \in 1 .. m : f[k] \in K
  BY <1>4 DEF Enumerates
<1>8. ASSUME NEW j \in 1 .. m, NEW k \in 1 .. m, others[j] = others[k]
      PROVE  j = k
  <2>1. f[j] \in DOMAIN order /\ f[k] \in DOMAIN order /\ order[f[j]] = order[f[k]]
    BY <1>6, <1>7, <1>8
  <2>2. f[j] = f[k] /\ f[j] \in Int
    BY <1>1, <1>2, <2>1
  <2> HIDE DEF K, order
  <2>3. ~(j < k) /\ ~(k < j)
    <3>1. \A a, b \in 1 .. m : a < b => f[a] < f[b]
      BY <1>4 DEF Enumerates
    <3>2. ~(f[j] < f[k]) /\ ~(f[k] < f[j])
      BY <2>2
    <3> QED
      BY <3>1, <3>2
  <2> QED
    BY <1>3, <2>3
<1>9. \A k \in 1 .. m : others[k] # i
  BY <1>6, <1>7
<1> HIDE DEF K, order
<1>10. Route(table, i, kind, payload) = OneEach(others, m, kind, payload)
  BY <1>5, <1>6 DEF OneEach
<1>11. \A j, k \in 1 .. m : others[j] = others[k] => j = k
  BY <1>8
<1> QED
  BY <1>3, <1>9, <1>10, <1>11

LEMMA RoutedDispatch ==
  ASSUME NEW table, TableOK(table), NEW i, NEW req, NEW kind, NEW payload,
         req.type = "Send", req.kind = kind,
         \/ kind = "voice"
         \/ kind \in {"pose", "chat"} /\ payload = Encode(req.msg)
              /\ Ours(req.msg) /\ req.msg.type = kind
  PROVE  Dispatch(i, req, Route(table, i, kind, payload))
<1> DEFINE r == Route(table, i, kind, payload)
<1>0. PICK n \in Nat : \E d :
             /\ r = OneEach(d, n, kind, payload)
             /\ \A k \in 1 .. n : d[k] # i
             /\ \A j, k \in 1 .. n : d[j] = d[k] => j = k
  BY Routed
<1>1. PICK d :
             /\ r = OneEach(d, n, kind, payload)
             /\ \A k \in 1 .. n : d[k] # i
             /\ \A j, k \in 1 .. n : d[j] = d[k] => j = k
  BY <1>0
<1> HIDE DEF r
<1>2. DOMAIN r = 1 .. n /\ ASeq(r)
  <2> DEFINE M == {Outbound(d[k], kind, payload) : k \in 1 .. n}
  <2>1. r \in Seq(M) /\ DOMAIN r = 1 .. n
    BY <1>1 DEF OneEach
  <2> QED
    BY <2>1 DEF ASeq
<1>3. ASSUME NEW k \in 1 .. n
      PROVE  /\ r[k].to = d[k] /\ TaskCarries(r[k])
             /\ ChatOf(r[k]) \subseteq Uttered(req)
  <2>1. /\ r[k].to = d[k] /\ r[k].params = ForStream(kind)
        /\ r[k].payload = payload
    BY <1>1 DEF Outbound, OneEach
  <2>2. CASE kind = "voice"
    <3>1. r[k].params = "audio"
      BY <2>1, <2>2 DEF ForStream
    <3> QED
      BY <2>1, <3>1 DEF TaskCarries, ChatOf
  <2>3. CASE /\ kind \in {"pose", "chat"} /\ payload = Encode(req.msg)
             /\ Ours(req.msg) /\ req.msg.type = kind
    <3>1. r[k].params \in {"ordered", "unordered"}
      BY <2>1, <2>3 DEF ForStream
    <3>2. Carried(r[k].payload) /\ r[k].payload.content = req.msg
      BY <2>1, <2>3, OursEncoded
    <3> QED
      BY <2>1, <2>3, <3>1, <3>2 DEF TaskCarries, ChatOf, Uttered
  <2> QED
    BY <2>2, <2>3
<1>4. \A k \in 1 .. n : r[k].to # i
  BY <1>1, <1>3
<1>5. \A j, k \in 1 .. n : r[j].to = r[k].to => j = k
  BY <1>1, <1>3
<1> QED
  BY <1>2, <1>3, <1>4, <1>5 DEF Dispatch, r

LEMMA RequestYields ==
  ASSUME NEW s, DOMAIN s = SyncerFields, TableOK(s.table), Sound(s),
         NEW i, NEW req, Requested(i, req)
  PROVE  LET r == Request(i, s, req) IN
         /\ Sound(r.syncer) /\ Fine(r.events) /\ NoChats(r.events)
         /\ Dispatch(i, req, r.sends)
<1> DEFINE r == Request(i, s, req)
<1>1. CASE req.type = "Join"
  <2> DEFINE join == ApplyJoin(s.table, req.who)
             e == Event("SelfJoined", req.who)
             m == ControlMessage("join", req.who)
             t == Outbound(i, "control.join", Encode(m))
  <2>1. r = RequestJoin(i, s, req.who)
    BY <1>1 DEF Request
  <2>2. /\ r.syncer = [s EXCEPT !.joined = TRUE, !.registered = TRUE, !.table = join.table]
        /\ r.events = Append(join.events, e)
        /\ r.sends = <<t>>
    BY <2>1 DEF RequestJoin
  <2>3. /\ join.table.sessions = s.table.sessions \cup {req.who}
        /\ OfPeers(join.events)
    BY JoinTells
  <2>4. req.who \in UserIds
    BY <1>1 DEF Requested
  <2>5. e.type = "SelfJoined"
    BY DEF Event
  <2>6. Ours(m) /\ m.type = "join"
    <3>1. /\ m.type = "join" /\ m.size = 1 /\ m.participant = req.who
          /\ EncodeError(m) = "ok"
      BY DEF ControlMessage, EncodeError, SignalingTypes
    <3> HIDE DEF m
    <3>2. Excused(m)
      BY <3>1, MessageBounds DEF Excused
    <3> QED
      BY <2>4, <3>1, <3>2 DEF Ours
  <2>7. t.params = "ordered" /\ t.payload = Encode(m)
    BY DEF Outbound, ForStream
  <2>8. Carried(Encode(m)) /\ Encode(m).content = m
    <3> HIDE DEF m
    <3> QED
      BY <2>6, OursEncoded
  <2> HIDE DEF r, join, e, m, t
  <2>9. Sound(r.syncer)
    <3>1. /\ r.syncer.joined = TRUE /\ r.syncer.registered = TRUE
          /\ r.syncer.table = join.table /\ r.syncer.used = s.used
      BY <2>2 DEF SyncerFields
    <3> QED
      BY <2>3, <2>4, <3>1 DEF Sound
  <2>10. Fine(r.events) /\ NoChats(r.events)
    <3> DEFINE je == join.events
    <3>1. ASeq(je) /\ \A k \in DOMAIN je : je[k].type \in {"PeerJoined", "PeerLeft"}
      BY <2>3 DEF OfPeers
    <3>2. r.events = Append(je, e)
      BY <2>2
    <3> HIDE DEF je
    <3>3. ASeq(<<e>>) /\ DOMAIN <<e>> = {1} /\ <<e>>[1] = e
      <4>1. <<e>> \in Seq({e}) /\ DOMAIN <<e>> = {1} /\ <<e>>[1] = e
        OBVIOUS
      <4> QED
        BY <4>1 DEF ASeq
    <3>4. r.events = je \o <<e>> /\ ASeq(r.events)
      BY <3>1, <3>2, Appended
    <3>5. \A k \in DOMAIN r.events :
            r.events[k].type \in {"PeerJoined", "PeerLeft", "SelfJoined"}
      <4> DEFINE q == je \o <<e>>
      <4> SUFFICES ASSUME NEW k \in DOMAIN q
                   PROVE  q[k].type \in {"PeerJoined", "PeerLeft", "SelfJoined"}
        BY <3>4
      <4>1. \/ k \in DOMAIN je /\ q[k] = je[k]
            \/ \E l \in DOMAIN <<e>> : q[k] = <<e>>[l]
        BY <3>1, <3>3, ByIndex
      <4> HIDE DEF q
      <4> QED
        BY <2>5, <3>1, <3>3, <4>1
    <3> QED
      BY <3>4, <3>5 DEF Fine, NoChats
  <2>11. Dispatch(i, req, r.sends)
    <3>1. <<t>> \in Seq({t}) /\ DOMAIN <<t>> = {1} /\ <<t>>[1] = t
      OBVIOUS
    <3>2. TaskCarries(t) /\ ChatOf(t) = {}
      BY <2>6, <2>7, <2>8 DEF TaskCarries, ChatOf
    <3> QED
      BY <2>2, <3>1, <3>2 DEF Dispatch, ASeq
  <2> QED
    BY <2>9, <2>10, <2>11 DEF r
<1>2. CASE req.type = "Send"
  <2> DEFINE used == IF req.elapsed THEN 0 ELSE s.used
             allowed == used < Limit
             s2 == [s EXCEPT !.used = IF allowed THEN used + 1 ELSE used]
             e == Event("RateLimited", req.kind)
             out == Outgoing(s2, req.from, req.kind, req.msg)
  <2>1. r = RequestSend(s, req.from, req.kind, req.msg, req.elapsed)
    BY <1>2 DEF Request
  <2>2. r.syncer = s2 /\ r.events \in {<<>>, <<e>>} /\ r.sends \in {<<>>, out}
    BY <2>1 DEF RequestSend
  <2>3. used \in 0 .. Limit /\ Limit \in Nat
    BY SyncerAssumption DEF Sound
  <2>4. /\ s2.joined = s.joined /\ s2.registered = s.registered
        /\ s2.table = s.table /\ s2.used = IF allowed THEN used + 1 ELSE used
    BY DEF SyncerFields
  <2>5. Sound(s2)
    <3> HIDE DEF s2, used
    <3>1. s2.used \in 0 .. Limit
      BY <2>3, <2>4
    <3> QED
      BY <2>4, <3>1 DEF Sound
  <2>6. Fine(r.events) /\ NoChats(r.events)
    <3>1. e.type = "RateLimited"
      BY DEF Event
    <3> HIDE DEF e, r
    <3>2. /\ <<>> \in Seq({e}) /\ <<e>> \in Seq({e})
          /\ DOMAIN <<>> = {} /\ DOMAIN <<e>> = {1} /\ <<e>>[1] = e
      OBVIOUS
    <3>3. Fine(<<>>) /\ NoChats(<<>>)
      BY <3>2 DEF Fine, NoChats, ASeq
    <3>4. Fine(<<e>>) /\ NoChats(<<e>>)
      BY <3>1, <3>2 DEF Fine, NoChats, ASeq
    <3> QED
      BY <2>2, <3>3, <3>4
  <2>7. Dispatch(i, req, out)
    <3>1. req.from = i
      BY <1>2 DEF Requested
    <3>2. CASE req.kind = "voice"
      <4>1. out \in {<<>>, Route(s.table, i, req.kind, AudioFrame)}
        BY <2>4, <3>1, <3>2 DEF Outgoing
      <4>2. Dispatch(i, req, Route(s.table, i, req.kind, AudioFrame))
        BY <1>2, <3>2, RoutedDispatch
      <4> QED
        BY <4>1, <4>2, NoDispatch
    <3>3. CASE req.kind # "voice"
      <4>1. \/ out = <<>>
            \/ EncodeError(req.msg) = "ok" /\ out = Route(s.table, i, req.kind, Encode(req.msg))
        BY <2>4, <3>1, <3>3 DEF Outgoing
      <4>2. /\ req.kind \in {"pose", "chat"} /\ req.msg.type = req.kind
            /\ req.msg.size \in Nat
            /\ Excused(req.msg)
        BY <1>2, <3>3 DEF Requested
      <4> HIDE DEF out
      <4>3. CASE EncodeError(req.msg) = "ok" /\ out = Route(s.table, i, req.kind, Encode(req.msg))
        <5>1. Ours(req.msg)
          BY <4>2, <4>3 DEF Ours
        <5> QED
          BY <1>2, <4>2, <4>3, <5>1, RoutedDispatch
      <4> QED
        BY <4>1, <4>3, NoDispatch
    <3> QED
      BY <3>2, <3>3
  <2> QED
    BY <2>2, <2>5, <2>6, <2>7, NoDispatch
<1> QED
  BY <1>1, <1>2 DEF Requested

\* Nothing told is told from any queue.
LEMMA NoneTold ==
  ASSUME NEW events, NoChats(events), NEW q, NEW n
  PROVE  ToldOnce(events) /\ ToldFrom(events, q, n)
BY DEF NoChats, ToldOnce, ToldFrom

\* Events without a chat before or after those of a drain add none.
LEMMA NoneAdded ==
  ASSUME NEW p, NEW r, Fine(p), Fine(r), NEW q, NEW n,
         ToldFrom(p, q, n), ToldFrom(r, q, n), NoChats(p) \/ NoChats(r)
  PROVE  /\ Fine(p \o r) /\ ToldFrom(p \o r, q, n)
         /\ ToldOnce(p) /\ ToldOnce(r) => ToldOnce(p \o r)
         /\ NoChats(p) /\ NoChats(r) => NoChats(p \o r)
<1> DEFINE s == p \o r
<1>1. Fine(s)
  BY FineJoined
<1>2. ASSUME NEW k \in DOMAIN s
      PROVE  \/ k \in DOMAIN p /\ s[k] = p[k]
             \/ \E l \in DOMAIN r : k = Len(p) + l /\ s[k] = r[l]
  BY ByIndex DEF Fine
<1> HIDE DEF s
<1>3. ToldFrom(s, q, n)
  BY <1>2 DEF ToldFrom
<1>4. ASSUME ToldOnce(p), ToldOnce(r) PROVE ToldOnce(s)
  <2>1. CASE NoChats(p)
    BY <1>2, <1>4, <2>1 DEF ToldOnce, NoChats
  <2>2. CASE NoChats(r)
    BY <1>2, <1>4, <2>2 DEF ToldOnce, NoChats
  <2> QED
    BY <2>1, <2>2
<1>5. ASSUME NoChats(p), NoChats(r) PROVE NoChats(s)
  BY <1>2, <1>5 DEF NoChats
<1> QED
  BY <1>1, <1>3, <1>4, <1>5 DEF s

(***************************************************************************)
(* handle: a drain, a request, a drain.  What it tells it read from the    *)
(* queue, each chat once; without a room it reads nothing.                 *)
(***************************************************************************)
LEMMA HandledYields ==
  ASSUME NEW i, NEW s, DOMAIN s = SyncerFields, TableOK(s.table), Sound(s),
         NEW q, Pollable(q), Cargo(q), NEW req, Requested(i, req)
  PROVE  LET before  == Drain(s, q)
             request == Request(i, before.syncer, req)
             after   == Drain(request.syncer, IF s.joined THEN <<>> ELSE q)
             events  == before.events \o request.events \o after.events
         IN  /\ Sound(after.syncer) /\ Dispatch(i, req, request.sends)
             /\ Fine(events) /\ ToldFrom(events, q, Len(q))
             /\ Apart(q) => ToldOnce(events)
             /\ ~after.syncer.joined => NoChats(events)
<1> DEFINE before == Drain(s, q)
           request == Request(i, before.syncer, req)
           rest == IF s.joined THEN <<>> ELSE q
           after == Drain(request.syncer, rest)
           n == Len(q)
           b == before.events
           r == request.events
           a == after.events
<1>1. /\ DOMAIN before.syncer = SyncerFields /\ TableOK(before.syncer.table)
      /\ before.syncer.joined = s.joined
  BY DrainAccords
<1>2. /\ Sound(before.syncer) /\ Fine(b) /\ ToldFrom(b, q, n)
      /\ Apart(q) => ToldOnce(b)
      /\ ~s.joined => b = <<>>
  BY <1>1, DrainYields DEF Sound
<1> HIDE DEF before
<1>3. DOMAIN request.syncer = SyncerFields /\ TableOK(request.syncer.table)
  BY <1>1, RequestAccords
<1>4. /\ Sound(request.syncer) /\ Fine(r) /\ NoChats(r)
      /\ Dispatch(i, req, request.sends)
  BY <1>1, <1>2, RequestYields
<1>5. s.joined => request.syncer.joined
  <2>1. CASE req.type = "Join"
    BY <1>1, <2>1 DEF Request, RequestJoin, SyncerFields
  <2>2. CASE req.type # "Join"
    BY <1>1, <2>2 DEF Request, RequestSend, SyncerFields
  <2> QED
    BY <2>1, <2>2
<1> HIDE DEF request
<1>6. Pollable(rest) /\ Cargo(rest) /\ (~s.joined => rest = q)
  BY NothingPolled DEF PolledBy, Cargo
<1>7. s.joined => Len(rest) = 0 /\ Apart(rest)
  <2>1. Len(<<>>) = 0 /\ DOMAIN <<>> = {}
    OBVIOUS
  <2> QED
    BY <2>1 DEF Apart
<1> HIDE DEF rest
<1>8. after.syncer.joined = request.syncer.joined
  BY <1>3, <1>6, DrainAccords
<1>9. /\ after.syncer.registered = request.syncer.registered
      /\ after.syncer.used = request.syncer.used
      /\ after.syncer.table.sessions \subseteq UserIds
      /\ Fine(a) /\ ToldFrom(a, rest, Len(rest)) /\ (Apart(rest) => ToldOnce(a))
      /\ ~request.syncer.joined => a = <<>>
  BY <1>3, <1>4, <1>6, DrainYields DEF Sound
<1> HIDE DEF after
<1>10. Sound(after.syncer)
  BY <1>4, <1>8, <1>9 DEF Sound
<1>11. NoChats(<<>>)
  BY DEF NoChats
<1>12. s.joined => NoChats(a)
  <2>1. s.joined => ToldFrom(a, rest, 0)
    BY <1>7, <1>9
  <2> QED
    BY <2>1 DEF ToldFrom, NoChats
<1>13. ToldFrom(a, q, n) /\ (Apart(q) => ToldOnce(a))
  <2>1. CASE s.joined
    BY <1>12, <2>1, NoneTold
  <2>2. CASE ~s.joined
    BY <1>6, <1>9, <2>2
  <2> QED
    BY <2>1, <2>2
<1>14. ~request.syncer.joined => NoChats(b) /\ NoChats(a)
  BY <1>2, <1>5, <1>9, <1>11
<1>15. NoChats(b) \/ NoChats(a)
  BY <1>2, <1>11, <1>12
<1> DEFINE events == b \o r \o a
           br == b \o r
<1>16. events = br \o a
  OBVIOUS
<1> HIDE DEF b, r, a, n, events
<1>17. ToldFrom(r, q, n) /\ ToldOnce(r)
  BY <1>4, NoneTold
<1>18. /\ Fine(br) /\ ToldFrom(br, q, n) /\ (ToldOnce(b) => ToldOnce(br))
       /\ NoChats(b) => NoChats(br)
  BY <1>2, <1>4, <1>17, NoneAdded
<1> HIDE DEF br
<1>19. /\ Fine(events) /\ ToldFrom(events, q, n)
       /\ ToldOnce(br) /\ ToldOnce(a) => ToldOnce(events)
       /\ NoChats(br) /\ NoChats(a) => NoChats(events)
  BY <1>9, <1>13, <1>15, <1>16, <1>18, NoneAdded
<1>20. Apart(q) => ToldOnce(events)
  BY <1>2, <1>13, <1>18, <1>19
<1>21. ~after.syncer.joined => NoChats(events)
  BY <1>8, <1>14, <1>18, <1>19
<1> QED
  BY <1>4, <1>10, <1>19, <1>20, <1>21
  DEF before, request, rest, after, b, r, a, n, events

\* What the application hears of it.
Hears(more, events) ==
  /\ ASeq(more)
  /\ \A k \in DOMAIN more : \E l \in DOMAIN events :
       events[l].type = "ChatReceived" /\ more[k] = events[l].about
  /\ ToldOnce(events) => IsInjective(more)

LEMMA TellYields ==
  ASSUME NEW view, DOMAIN view = SeenFields, NEW i, NEW polled, NEW events, Fine(events)
  PROVE  LET after == Tell(view, i, polled, events) IN
         /\ view.errors \subseteq Unreadable =>
              after.errors \subseteq Unreadable
         /\ \E more : after.heard = view.heard \o more /\ Hears(more, events)
<1> DEFINE after == Tell(view, i, polled, events)
           peers == FoldLeft(Follow, view.told, events)
           left == view.left \/ Peer(i) \in About(events, "PeerLeft")
           failure == view.failure \/ \E k \in DOMAIN polled : polled[k].type = "failure"
           met == view.met \cup About(events, "PeerJoined")
           errors == view.errors \cup About(events, "Error")
           K == {k \in DOMAIN events : events[k].type = "ChatReceived"}
           chats == Selected(events, K)
           more == [k \in DOMAIN chats |-> chats[k].about]
           heard == view.heard \o more
           m == Cardinality(K)
<1>1. after = [view EXCEPT !.told = peers, !.met = met, !.left = left,
                           !.failure = failure, !.heard = heard, !.errors = errors]
  BY DEF Tell
<1>2. About(events, "Error") \subseteq Unreadable
  BY DEF About, Fine
<1> HIDE DEF after, peers, left, failure, met, errors, heard
<1>3. after.heard = heard /\ after.errors = errors
  BY <1>1 DEF SeenFields
<1>4. /\ Len(events) \in Nat /\ DOMAIN events = 1 .. Len(events)
      /\ K \in SUBSET (1 .. Len(events))
  BY ASeqFacts DEF Fine
<1>5. m \in Nat /\ \E f : Enumerates(f, m, K) /\ chats = ReadAt(events, f, m)
  <2> HIDE DEF K
  <2> QED
    BY <1>4, SelectedIndices
<1>6. PICK f : Enumerates(f, m, K) /\ chats = ReadAt(events, f, m)
  BY <1>5
<1> HIDE DEF chats, m
<1>7. DOMAIN chats = 1 .. m /\ \A k \in 1 .. m : chats[k] = events[f[k]]
  BY <1>6 DEF ReadAt
<1>8. \A k \in 1 .. m : f[k] \in K
  BY <1>6 DEF Enumerates
<1>9. DOMAIN more = 1 .. m /\ \A k \in 1 .. m : more[k] = events[f[k]].about
  BY <1>7
<1>10. ASeq(more)
  <2>1. more \in Seq({chats[k].about : k \in 1 .. m})
    BY <1>5, <1>7
  <2> QED
    BY <2>1 DEF ASeq
<1> HIDE DEF more
<1>11. ASSUME NEW k \in DOMAIN more
       PROVE  \E l \in DOMAIN events :
                events[l].type = "ChatReceived" /\ more[k] = events[l].about
  <2>1. f[k] \in K /\ more[k] = events[f[k]].about
    BY <1>8, <1>9
  <2> QED
    BY <2>1
<1>12. ASSUME ToldOnce(events), NEW j \in 1 .. m, NEW k \in 1 .. m, more[j] = more[k]
       PROVE  j = k
  <2>1. f[j] \in K /\ f[k] \in K /\ events[f[j]].about = events[f[k]].about
    BY <1>8, <1>9, <1>12
  <2>2. f[j] = f[k]
    BY <1>12, <2>1 DEF ToldOnce
  <2>3. f[j] \in Int
    BY <1>4, <2>1
  <2> HIDE DEF K
  <2>4. ~(j < k) /\ ~(k < j)
    <3>1. \A c, d \in 1 .. m : c < d => f[c] < f[d]
      BY <1>6 DEF Enumerates
    <3>2. ~(f[j] < f[k]) /\ ~(f[k] < f[j])
      BY <2>2, <2>3
    <3> QED
      BY <3>1, <3>2
  <2> QED
    BY <1>5, <2>4
<1>13. Hears(more, events)
  BY <1>9, <1>10, <1>11, <1>12 DEF Hears, IsInjective
<1>14. view.errors \subseteq Unreadable => after.errors \subseteq Unreadable
  BY <1>2, <1>3 DEF errors
<1> QED
  BY <1>3, <1>13, <1>14 DEF after, heard

(***************************************************************************)
(* Functions of a link and a side.                                         *)
(***************************************************************************)
Doubly(f) == DOMAIN f = Links /\ \A g \in Links : DOMAIN f[g] = Sides

Put(f, g, i, x) == [f EXCEPT ![g][i] = x]

LEMMA SetAt ==
  ASSUME NEW f, Doubly(f), NEW g \in Links, NEW i \in Sides, NEW x
  PROVE  LET e == Put(f, g, i, x) IN
         /\ Doubly(e) /\ e[g][i] = x
         /\ \A h \in Links : \A j \in Sides : h # g \/ j # i => e[h][j] = f[h][j]
<1> DEFINE e == Put(f, g, i, x)
<1>1. DOMAIN e = Links /\ e[g] = [f[g] EXCEPT ![i] = x] /\ \A h \in Links \ {g} : e[h] = f[h]
  BY DEF Doubly, Put
<1> HIDE DEF e
<1>2. DOMAIN e[g] = Sides /\ e[g][i] = x /\ \A j \in Sides \ {i} : e[g][j] = f[g][j]
  BY <1>1 DEF Doubly
<1> QED
  BY <1>1, <1>2 DEF Doubly, e

LEMMA SetLink ==
  ASSUME NEW f, Doubly(f), NEW g \in Links, NEW x, DOMAIN x = Sides
  PROVE  LET e == [f EXCEPT ![g] = x] IN
         /\ Doubly(e) /\ \A j \in Sides : e[g][j] = x[j]
         /\ \A h \in Links : \A j \in Sides : h # g => e[h][j] = f[h][j]
BY DEF Doubly

LEMMA QueuesDoubly ==
  ASSUME NEW f, Queues(f)
  PROVE  Doubly(f) /\ \A g \in Links, i \in Sides : Pollable(f[g][i])
BY DEF Queues, Doubly, PolledBy

(***************************************************************************)
(* Two sides that talk.                                                    *)
(***************************************************************************)
CargoIn(f) == \A g \in Links : \A i \in Sides : Cargo(f[g][i])

Spawned(q) == ASeq(q) /\ \A k \in DOMAIN q : TaskCarries(q[k])

SpawnedIn(f) == Doubly(f) /\ \A g \in Links : \A i \in Sides : Spawned(f[g][i])

OpenOK == Doubly(open) /\ \A g \in Links : \A i \in Sides : open[g][i] \subseteq Channels

Understands(i) ==
  Sound(syncer[i]) /\ seen[i].errors \subseteq Unreadable

TalkInv ==
  /\ closed \subseteq Links /\ OpenOK
  /\ SpawnedIn(tasks) /\ CargoIn(wire) /\ CargoIn(pending)
  /\ \A i \in Sides : Understands(i)

LEMMA NoSequence == ASeq(<<>>) /\ DOMAIN <<>> = {}
<1>1. <<>> \in Seq({}) /\ DOMAIN <<>> = {}
  OBVIOUS
<1> QED
  BY <1>1 DEF ASeq

LEMMA TalkStarts == Init => TalkInv
<1> SUFFICES ASSUME Init PROVE TalkInv
  OBVIOUS
<1>1. Spawned(<<>>) /\ Cargo(<<>>)
  BY NoSequence DEF Spawned, Cargo
<1>2. OpenOK
  BY DEF Init, Each, OpenOK, Doubly
<1>3. SpawnedIn(tasks) /\ CargoIn(wire) /\ CargoIn(pending)
  BY <1>1 DEF Init, Each, SpawnedIn, CargoIn, Doubly
<1>4. ASSUME NEW i \in Sides PROVE Understands(i)
  <2>1. syncer[i] = NewSyncer /\ seen[i] = NothingSeen
    BY DEF Init
  <2>2. Sound(NewSyncer)
    BY SyncerAssumption DEF Sound, NewSyncer, EmptyTable
  <2>3. NothingSeen.errors = {}
    BY DEF NothingSeen
  <2> QED
    BY <2>1, <2>2, <2>3 DEF Understands
<1> QED
  BY <1>2, <1>3, <1>4 DEF Init, TalkInv

LEMMA CargoMore ==
  ASSUME NEW q, ASeq(q), Cargo(q), NEW x, EventCarries(x)
  PROVE  Cargo(Append(q, x))
<1> DEFINE r == Append(q, x)
<1>1. /\ ASeq(r) /\ Len(r) = Len(q) + 1 /\ r[Len(q) + 1] = x
      /\ \A k \in 1 .. Len(q) : r[k] = q[k]
  BY Appended
<1>2. /\ Len(q) \in Nat /\ DOMAIN q = 1 .. Len(q)
      /\ DOMAIN r = 1 .. Len(q) + 1
  BY <1>1, ASeqFacts
<1> HIDE DEF r
<1>3. \A k \in DOMAIN r : (k \in DOMAIN q /\ r[k] = q[k]) \/ r[k] = x
  BY <1>1, <1>2
<1> QED
  BY <1>3 DEF Cargo, r

LEMMA CargoAt ==
  ASSUME NEW f, Queues(f), CargoIn(f), NEW g \in Links, NEW i \in Sides,
         NEW q, Cargo(q)
  PROVE  CargoIn([f EXCEPT ![g][i] = q])
<1> DEFINE e == Put(f, g, i, q)
<1>1. /\ e[g][i] = q
      /\ \A h \in Links : \A j \in Sides : h # g \/ j # i => e[h][j] = f[h][j]
  <2>1. Doubly(f)
    BY QueuesDoubly
  <2> QED
    BY <2>1, SetAt
<1> HIDE DEF e
<1> QED
  BY <1>1 DEF CargoIn, e, Put

LEMMA CargoSent ==
  ASSUME NEW f, Queues(f), CargoIn(f), NEW g \in Links, NEW i \in Sides,
         NEW x, EventCarries(x)
  PROVE  CargoIn([f EXCEPT ![g][i] = Append(@, x)])
<1> DEFINE q == f[g][i]
<1>1. ASeq(q) /\ Cargo(q)
  BY QueuesDoubly DEF CargoIn, Pollable
<1> HIDE DEF q
<1>2. Cargo(Append(q, x))
  BY <1>1, CargoMore
<1> QED
  BY <1>2, CargoAt DEF q

LEMMA SpawnedAt ==
  ASSUME NEW f, SpawnedIn(f), NEW g \in Links, NEW i \in Sides, NEW q, Spawned(q)
  PROVE  SpawnedIn([f EXCEPT ![g][i] = q])
<1> DEFINE e == Put(f, g, i, q)
<1>1. /\ Doubly(e) /\ e[g][i] = q
      /\ \A h \in Links : \A j \in Sides : h # g \/ j # i => e[h][j] = f[h][j]
  <2>1. Doubly(f)
    BY DEF SpawnedIn
  <2> QED
    BY <2>1, SetAt
<1> HIDE DEF e
<1> QED
  BY <1>1 DEF SpawnedIn, e, Put

LEMMA ClosingTalks ==
  ASSUME Queues(pending), Queues(wire), CargoIn(pending), CargoIn(wire),
         SpawnedIn(tasks), closed \subseteq Links, OpenOK,
         NEW g \in Links, NEW ends, Closing(g, ends)
  PROVE  /\ closed' \subseteq Links /\ OpenOK'
         /\ SpawnedIn(tasks)' /\ CargoIn(wire)' /\ CargoIn(pending)'
<1>1. Spawned(<<>>) /\ Cargo(<<>>)
  BY NoSequence DEF Spawned, Cargo
<1>2. closed' \subseteq Links
  BY DEF Closing
<1>3. OpenOK'
  <2>1. open' = [open EXCEPT ![g] = [i \in Sides |-> {}]]
    BY DEF Closing
  <2> QED
    BY <2>1, SetLink DEF OpenOK, Doubly
<1>4. SpawnedIn(tasks)'
  <2>1. tasks' = [tasks EXCEPT ![g] = [i \in Sides |-> <<>>]]
    BY DEF Closing
  <2> QED
    BY <1>1, <2>1 DEF SpawnedIn, Doubly
<1>5. CargoIn(wire)'
  <2>1. wire' = [wire EXCEPT ![g] = [i \in Sides |-> <<>>]]
    BY DEF Closing
  <2>2. Doubly(wire)
    BY QueuesDoubly
  <2> QED
    BY <1>1, <2>1, <2>2 DEF CargoIn, Doubly
<1>6. CargoIn(pending)'
  <2> DEFINE new == [i \in Sides |->
                 IF i \notin ends THEN <<>>
                 ELSE IF g \in closed THEN pending[g][i]
                 ELSE Append(pending[g][i], FailureOf(Peer(i)))]
  <2>1. pending' = [pending EXCEPT ![g] = new] /\ DOMAIN new = Sides
    BY DEF Closing
  <2>2. ASSUME NEW i \in Sides PROVE Cargo(new[i])
    <3> DEFINE q == pending[g][i]
               x == FailureOf(Peer(i))
    <3>1. ASeq(q) /\ Cargo(q)
      BY QueuesDoubly DEF CargoIn, Pollable
    <3>2. EventCarries(x)
      BY DEF EventCarries, FailureOf
    <3>3. new[i] \in {<<>>, q, Append(q, x)}
      OBVIOUS
    <3> HIDE DEF q, x, new
    <3> QED
      BY <1>1, <3>1, <3>2, <3>3, CargoMore
  <2> HIDE DEF new
  <2>3. Doubly(pending)
    BY QueuesDoubly
  <2> QED
    BY <2>1, <2>2, <2>3 DEF CargoIn, Doubly
<1> QED
  BY <1>2, <1>3, <1>4, <1>5, <1>6

LEMMA ShutdownTalks ==
  ASSUME PairInv, TalkInv, NEW g \in Links, Shutdown(g)
  PROVE  TalkInv'
<1>1. /\ closed' \subseteq Links /\ OpenOK'
      /\ SpawnedIn(tasks)' /\ CargoIn(wire)' /\ CargoIn(pending)'
  BY ClosingTalks DEF Shutdown, PairInv, TalkInv
<1>2. UNCHANGED <<syncer, seen>>
  BY DEF Shutdown
<1> QED
  BY <1>1, <1>2 DEF TalkInv, Understands

LEMMA RebindTalks ==
  ASSUME PairInv, TalkInv, NEW i \in Sides, Rebind(i)
  PROVE  TalkInv'
<1>1. bound[i] \in Links
  BY DEF PairInv
<1>2. /\ closed' \subseteq Links /\ OpenOK'
      /\ SpawnedIn(tasks)' /\ CargoIn(wire)' /\ CargoIn(pending)'
  BY <1>1, ClosingTalks DEF Rebind, PairInv, TalkInv
<1>3. ASSUME NEW j \in Sides PROVE Understands(j)'
  <2>1. SideOK(j, syncer[j], seen[j]) /\ Understands(j)
    BY DEF PairInv, TalkInv
  <2>2. DOMAIN syncer = Sides /\ DOMAIN seen = Sides
    BY DEF PairInv
  <2>3. CASE j = i
    <3>1. syncer'[j] = Rebound(syncer[j])
      BY <2>2, <2>3 DEF Rebind
    <3>2. Sound(Rebound(syncer[j]))
      BY <2>1 DEF Understands, Sound, SideOK, Rebound, SyncerFields
    <3>3. seen'[j].errors = seen[j].errors
      BY <2>1, <2>2, <2>3 DEF Rebind, SideOK, SeenFields
    <3> QED
      BY <2>1, <3>1, <3>2, <3>3 DEF Understands
  <2>4. CASE j # i
    <3>1. syncer'[j] = syncer[j] /\ seen'[j] = seen[j]
      BY <2>2, <2>4 DEF Rebind
    <3> QED
      BY <2>1, <3>1 DEF Understands
  <2> QED
    BY <2>3, <2>4
<1> QED
  BY <1>2, <1>3 DEF TalkInv

\* Neither the syncers, nor what the applications saw of errors, nor the
\* channels and spawned sends move.
LEMMA CargoMoves ==
  ASSUME TalkInv, UNCHANGED <<syncer, seen, closed, open, tasks>>,
         CargoIn(pending)', CargoIn(wire)'
  PROVE  TalkInv'
BY DEF TalkInv, OpenOK, SpawnedIn, Understands

LEMMA OpenTalks ==
  ASSUME TalkInv, NEW g \in Links, NEW i \in Sides, NEW ch \in Channels,
         OpenChannel(g, i, ch)
  PROVE  TalkInv'
<1> DEFINE x == open[g][i] \cup {ch}
           e == Put(open, g, i, x)
<1>1. open' = e
  BY DEF OpenChannel, Put
<1>2. Doubly(open) /\ x \subseteq Channels
  BY DEF TalkInv, OpenOK
<1> HIDE DEF x
<1>3. /\ Doubly(e) /\ e[g][i] = x
      /\ \A h \in Links : \A j \in Sides : h # g \/ j # i => e[h][j] = open[h][j]
  BY <1>2, SetAt
<1> HIDE DEF e
<1>4. \A h \in Links : \A j \in Sides : e[h][j] \subseteq Channels
  BY <1>2, <1>3 DEF TalkInv, OpenOK
<1>5. OpenOK'
  BY <1>1, <1>3, <1>4 DEF OpenOK, Doubly
<1>6. UNCHANGED <<syncer, bound, closed, tasks, wire, pending, seen>>
  BY DEF OpenChannel
<1> QED
  BY <1>5, <1>6 DEF TalkInv, SpawnedIn, CargoIn, Understands

LEMMA FailureTalks ==
  ASSUME PairInv, TalkInv, NEW g \in Links, NEW i \in Sides, ReportFailure(g, i)
  PROVE  TalkInv'
<1> DEFINE x == FailureOf(Peer(i))
<1>1. pending' = [pending EXCEPT ![g][i] = Append(@, x)]
  BY DEF ReportFailure
<1>2. EventCarries(x)
  BY DEF EventCarries, FailureOf
<1> HIDE DEF x
<1>3. CargoIn([pending EXCEPT ![g][i] = Append(@, x)]) /\ CargoIn(wire)
  BY <1>2, CargoSent DEF PairInv, TalkInv
<1>4. CargoIn(pending)' /\ CargoIn(wire)'
  BY <1>1, <1>3 DEF ReportFailure, CargoIn
<1>5. UNCHANGED <<syncer, seen, closed, open, tasks>>
  BY DEF ReportFailure
<1> QED
  BY <1>4, <1>5, CargoMoves

LEMMA ArriveTalks ==
  ASSUME PairInv, TalkInv, NEW g \in Links, NEW i \in Sides, Arrive(g, i)
  PROVE  TalkInv'
<1> DEFINE q == wire[g][i]
           x == Head(q)
           rest == Tail(q)
<1>1. ASeq(q) /\ q # <<>> /\ Cargo(q)
  BY QueuesDoubly DEF PairInv, TalkInv, CargoIn, Pollable, Arrive
<1>2. /\ pending' = [pending EXCEPT ![g][i] = Append(@, x)]
      /\ wire' = [wire EXCEPT ![g][i] = rest]
      /\ UNCHANGED <<syncer, seen, closed, open, tasks>>
  BY DEF Arrive
<1> HIDE DEF q
<1>3. EventCarries(x) /\ Cargo(rest)
  <2>1. PICK M : q \in Seq(M)
    BY <1>1 DEF ASeq
  <2>2. /\ Len(q) \in Nat /\ Len(q) >= 1 /\ DOMAIN q = 1 .. Len(q)
        /\ Head(q) = q[1] /\ DOMAIN Tail(q) = 1 .. Len(q) - 1
        /\ \A k \in 1 .. Len(q) - 1 : Tail(q)[k] = q[k + 1]
    BY <1>1, <2>1, HeadTailProperties
  <2>3. 1 \in DOMAIN q /\ \A k \in 1 .. Len(q) - 1 : k + 1 \in DOMAIN q
    BY <2>2
  <2> QED
    BY <1>1, <2>2, <2>3 DEF Cargo
<1> HIDE DEF x, rest
<1>4. CargoIn([pending EXCEPT ![g][i] = Append(@, x)])
  BY <1>3, CargoSent DEF PairInv, TalkInv
<1>5. CargoIn([wire EXCEPT ![g][i] = rest])
  BY <1>3, CargoAt DEF PairInv, TalkInv
<1>6. CargoIn(pending)' /\ CargoIn(wire)'
  BY <1>2, <1>4, <1>5 DEF CargoIn
<1> QED
  BY <1>2, <1>6, CargoMoves

\* What a spawned send puts on its way.
LEMMA TaskToEvent ==
  ASSUME NEW task, TaskCarries(task), NEW i
  PROVE  LET ev == IF task.params = "audio" THEN AudioFrom(i)
                   ELSE BytesFrom(i, task.payload)
         IN  EventCarries(ev) /\ ChatIn(ev) = ChatOf(task)
<1>1. CASE task.params = "audio"
  BY <1>1 DEF AudioFrom, EventCarries, ChatIn, ChatOf
<1>2. CASE task.params # "audio"
  <2>1. Carried(task.payload)
    BY <1>2 DEF TaskCarries
  <2>2. /\ BytesFrom(i, task.payload).type = "bytes"
        /\ BytesFrom(i, task.payload).bytes = task.payload
    BY DEF BytesFrom
  <2> HIDE DEF BytesFrom
  <2> QED
    BY <1>2, <2>1, <2>2 DEF EventCarries, ChatIn, ChatOf
<1> QED
  BY <1>1, <1>2

LEMMA SpawnedLess ==
  ASSUME NEW q, Spawned(q), NEW k \in DOMAIN q
  PROVE  Spawned(RemoveAt(q, k))
<1> DEFINE r == RemoveAt(q, k)
<1>1. Len(q) \in Nat /\ DOMAIN q = 1 .. Len(q)
  BY ASeqFacts DEF Spawned
<1>2. /\ ASeq(r) /\ Len(r) = Len(q) - 1
      /\ \A l \in 1 .. Len(q) - 1 : r[l] = IF l < k THEN q[l] ELSE q[l + 1]
  BY <1>1, RemovedAt DEF Spawned
<1> HIDE DEF r
<1>3. DOMAIN r = 1 .. Len(q) - 1
  BY <1>2, ASeqFacts
<1>4. ASSUME NEW l \in DOMAIN r PROVE TaskCarries(r[l])
  <2>1. l \in DOMAIN q /\ l + 1 \in DOMAIN q
    BY <1>1, <1>3
  <2> QED
    BY <1>2, <1>3, <2>1 DEF Spawned
<1> QED
  BY <1>2, <1>4 DEF Spawned, r

LEMMA RunSendTalks ==
  ASSUME PairInv, TalkInv, NEW g \in Links, NEW i \in Sides,
         NEW k \in DOMAIN tasks[g][i], RunSend(g, i, k)
  PROVE  TalkInv'
<1> DEFINE q == tasks[g][i]
           task == q[k]
           to == Peer(i)
           ev == IF task.params = "audio" THEN AudioFrom(i) ELSE BytesFrom(i, task.payload)
           rest == RemoveAt(q, k)
<1>1. to \in Sides
  BY DEF Peer, Sides
<1>2. Spawned(q)
  BY DEF TalkInv, SpawnedIn
<1>3. /\ tasks' = [tasks EXCEPT ![g][i] = rest]
      /\ UNCHANGED <<syncer, closed, open>>
  BY DEF RunSend
<1>4. \/ UNCHANGED <<wire, pending, seen>>
      \/ /\ wire' = [wire EXCEPT ![g][to] = Append(@, ev)]
         /\ UNCHANGED <<pending, seen>>
      \/ /\ pending' = [pending EXCEPT ![g][to] = Append(@, ev)]
         /\ UNCHANGED <<wire, seen>>
      \/ /\ seen' = [seen EXCEPT ![to].dropped = TRUE]
         /\ UNCHANGED <<wire, pending>>
  BY DEF RunSend
<1>5. TaskCarries(task)
  BY <1>2 DEF Spawned
<1> HIDE DEF task
<1>6. EventCarries(ev)
  BY <1>5, TaskToEvent
<1> HIDE DEF q, ev, to
<1>7. Spawned(rest)
  <2>1. k \in DOMAIN q
    BY DEF q
  <2> QED
    BY <1>2, <2>1, SpawnedLess
<1> HIDE DEF rest
<1>8. SpawnedIn([tasks EXCEPT ![g][i] = rest])
  BY <1>7, SpawnedAt DEF TalkInv
<1>9. SpawnedIn(tasks)'
  BY <1>3, <1>8 DEF SpawnedIn, Doubly
<1>10. Queues(wire) /\ Queues(pending) /\ CargoIn(wire) /\ CargoIn(pending)
  BY DEF PairInv, TalkInv
<1>11. CargoIn(wire)' /\ CargoIn(pending)'
  <2>1. /\ CargoIn([wire EXCEPT ![g][to] = Append(@, ev)])
        /\ CargoIn([pending EXCEPT ![g][to] = Append(@, ev)])
    BY <1>1, <1>6, <1>10, CargoSent
  <2> QED
    BY <1>4, <1>10, <2>1 DEF CargoIn
<1>12. ASSUME NEW j \in Sides PROVE Understands(j)'
  <2>1. SideOK(j, syncer[j], seen[j]) /\ Understands(j) /\ DOMAIN seen = Sides
    BY DEF PairInv, TalkInv
  <2>2. seen'[j].errors = seen[j].errors
    BY <1>1, <1>4, <2>1 DEF SideOK, SeenFields
  <2> QED
    BY <1>3, <2>1, <2>2 DEF Understands
<1> QED
  BY <1>3, <1>9, <1>11, <1>12 DEF TalkInv, OpenOK

\* One side's syncer and application change, its queue, and its sends.
LEMMA SideTalks ==
  ASSUME PairInv, TalkInv, NEW i \in Sides, NEW s, Sound(s),
         NEW view, view.errors \subseteq Unreadable,
         syncer' = [syncer EXCEPT ![i] = s], seen' = [seen EXCEPT ![i] = view],
         UNCHANGED <<closed, open, wire>>,
         CargoIn(pending)', SpawnedIn(tasks)'
  PROVE  TalkInv'
<1>1. ASSUME NEW j \in Sides PROVE Understands(j)'
  <2>1. Understands(j) /\ DOMAIN seen = Sides /\ DOMAIN syncer = Sides
    BY DEF PairInv, TalkInv
  <2>2. CASE j = i
    <3>1. syncer'[j] = s /\ seen'[j] = view
      BY <2>1, <2>2
    <3> QED
      BY <3>1 DEF Understands
  <2>3. CASE j # i
    <3>1. syncer'[j] = syncer[j] /\ seen'[j] = seen[j]
      BY <2>1, <2>3
    <3> QED
      BY <2>1, <3>1 DEF Understands
  <2> QED
    BY <2>2, <2>3
<1> QED
  BY <1>1 DEF TalkInv, OpenOK, CargoIn

LEMMA PollTalks ==
  ASSUME PairInv, TalkInv, NEW i \in Sides, PollOnly(i)
  PROVE  TalkInv'
<1> DEFINE g == bound[i]
           q == pending[g][i]
           s == syncer[i]
           v == seen[i]
           r == Drain(s, q)
           view == Tell(v, i, q, r.events)
<1>1. g \in Links
  BY DEF PairInv
<1>2. Pollable(q) /\ Cargo(q)
  BY <1>1, QueuesDoubly DEF PairInv, TalkInv, CargoIn
<1>3. SideOK(i, s, v) /\ Sound(s) /\ v.errors \subseteq Unreadable
  BY DEF PairInv, TalkInv, Understands
<1>4. /\ syncer' = [syncer EXCEPT ![i] = r.syncer]
      /\ seen' = [seen EXCEPT ![i] = view]
      /\ UNCHANGED <<closed, open, wire, tasks>>
      /\ pending' = [pending EXCEPT ![g][i] = <<>>]
  BY DEF PollOnly
<1> HIDE DEF q, s, v, g
<1>5. /\ r.syncer.table.sessions \subseteq UserIds
      /\ r.syncer.registered = s.registered /\ r.syncer.used = s.used
      /\ Fine(r.events)
  BY <1>2, <1>3, DrainYields DEF SideOK, Sound
<1>6. r.syncer.joined = s.joined
  BY <1>2, <1>3, DrainAccords DEF SideOK
<1>7. Sound(r.syncer)
  BY <1>3, <1>5, <1>6 DEF Sound
<1> HIDE DEF r
<1>8. view.errors \subseteq Unreadable
  BY <1>3, <1>5, TellYields DEF SideOK
<1> HIDE DEF view
<1>9. CargoIn([pending EXCEPT ![g][i] = <<>>])
  BY <1>1, NoSequence, CargoAt DEF PairInv, TalkInv, Cargo
<1>10. CargoIn(pending)' /\ SpawnedIn(tasks)'
  BY <1>4, <1>9 DEF CargoIn, TalkInv, SpawnedIn
<1> QED
  BY <1>4, <1>7, <1>8, <1>10, SideTalks

\* The sends that the transport accepts.
LEMMA SelectedSends ==
  ASSUME NEW sends, ASeq(sends), NEW K \in SUBSET DOMAIN sends
  PROVE  LET taken == Selected(sends, K) IN
         /\ ASeq(taken)
         /\ \E f : /\ \A k \in DOMAIN taken : f[k] \in K /\ taken[k] = sends[f[k]]
                   /\ \A j, k \in DOMAIN taken : f[j] = f[k] => j = k
<1> DEFINE n == Len(sends)
           m == Cardinality(K)
           taken == Selected(sends, K)
<1>1. n \in Nat /\ K \in SUBSET (1 .. n)
  BY ASeqFacts
<1>2. m \in Nat /\ \E f : Enumerates(f, m, K) /\ taken = ReadAt(sends, f, m)
  BY <1>1, SelectedIndices
<1>3. PICK f : Enumerates(f, m, K) /\ taken = ReadAt(sends, f, m)
  BY <1>2
<1> HIDE DEF taken, m
<1>4. DOMAIN taken = 1 .. m /\ \A k \in 1 .. m : taken[k] = sends[f[k]]
  BY <1>3 DEF ReadAt
<1>5. \A k \in 1 .. m : f[k] \in K
  BY <1>3 DEF Enumerates
<1>6. ASeq(taken)
  <2>1. taken \in Seq({taken[k] : k \in 1 .. m})
    <3>1. taken = [k \in 1 .. m |-> sends[f[k]]]
      BY <1>3 DEF ReadAt
    <3> DEFINE M == {taken[k] : k \in 1 .. m}
    <3>2. \A k \in 1 .. m : sends[f[k]] \in M
      BY <1>4
    <3> HIDE DEF M
    <3>3. [k \in 1 .. m |-> sends[f[k]]] \in Seq(M)
      BY <1>2, <3>2
    <3> QED
      BY <3>1, <3>3 DEF M
  <2> QED
    BY <2>1 DEF ASeq
<1>7. ASSUME NEW j \in 1 .. m, NEW k \in 1 .. m, f[j] = f[k] PROVE j = k
  <2>1. f[j] \in Int /\ ~(f[j] < f[k]) /\ ~(f[k] < f[j])
    BY <1>1, <1>5, <1>7
  <2>2. ~(j < k) /\ ~(k < j)
    BY <1>3, <2>1 DEF Enumerates
  <2> QED
    BY <1>2, <2>2
<1> QED
  BY <1>4, <1>5, <1>6, <1>7 DEF taken

LEMMA SpawnedMore ==
  ASSUME NEW q, Spawned(q), NEW more, Spawned(more)
  PROVE  Spawned(q \o more)
<1>1. ASeq(q \o more)
  BY JoinedSeq DEF Spawned
<1>2. ASSUME NEW k \in DOMAIN (q \o more) PROVE TaskCarries((q \o more)[k])
  BY ByIndex DEF Spawned
<1> QED
  BY <1>1, <1>2 DEF Spawned

LEMMA HandleTalks ==
  ASSUME PairInv, TalkInv, NEW i \in Sides, NEW req, Requested(i, req), Handle(i, req)
  PROVE  TalkInv'
<1> DEFINE g == bound[i]
           q == pending[g][i]
           s == syncer[i]
           v == seen[i]
           before == Drain(s, q)
           request == Request(i, before.syncer, req)
           after == Drain(request.syncer, IF s.joined THEN <<>> ELSE q)
           events == before.events \o request.events \o after.events
           drained == after.syncer.joined
           polled == IF drained THEN q ELSE <<>>
           report == Tell(v, i, polled, events)
           sends == request.sends
           taken == Selected(sends, {k \in DOMAIN sends : Accepted(g, i, sends[k])})
<1>1. PICK flag : seen' = [seen EXCEPT ![i] = [report EXCEPT !.announced = flag]]
  <2> HIDE DEF report
  <2> QED
    BY DEF Handle, report
<1> DEFINE view == [report EXCEPT !.announced = flag]
<1>2. g \in Links
  BY DEF PairInv
<1>3. Pollable(q) /\ Cargo(q)
  BY <1>2, QueuesDoubly DEF PairInv, TalkInv, CargoIn
<1>4. SideOK(i, s, v) /\ Sound(s) /\ v.errors \subseteq Unreadable
  BY DEF PairInv, TalkInv, Understands
<1>5. /\ syncer' = [syncer EXCEPT ![i] = after.syncer]
      /\ pending' = IF drained THEN [pending EXCEPT ![g][i] = <<>>] ELSE pending
      /\ tasks' = [tasks EXCEPT ![g][i] = @ \o taken]
      /\ UNCHANGED <<closed, open, wire>>
  BY DEF Handle
<1>6. seen' = [seen EXCEPT ![i] = view]
  BY <1>1
<1> HIDE DEF q, s, v, g
<1>7. Sound(after.syncer) /\ Dispatch(i, req, sends) /\ Fine(events)
  BY <1>3, <1>4, HandledYields DEF SideOK
<1> HIDE DEF after, sends, events
<1>8. Spawned(taken)
  <2> DEFINE K == {k \in DOMAIN sends : Accepted(g, i, sends[k])}
  <2>1. K \in SUBSET DOMAIN sends /\ ASeq(sends)
    BY <1>7 DEF Dispatch
  <2>2. \A l \in K : TaskCarries(sends[l])
    BY <1>7 DEF Dispatch
  <2> HIDE DEF K
  <2>3. /\ ASeq(Selected(sends, K))
        /\ \A k \in DOMAIN Selected(sends, K) :
             \E l \in K : Selected(sends, K)[k] = sends[l]
    BY <2>1, SelectedSends
  <2>4. Spawned(Selected(sends, K))
    BY <2>2, <2>3 DEF Spawned
  <2> QED
    BY <2>4 DEF K
<1>9. /\ DOMAIN report = SeenFields
      /\ report.errors \subseteq Unreadable
  BY <1>4, <1>7, Telling, TellYields DEF SideOK
<1> HIDE DEF report, taken
<1>10. view.errors \subseteq Unreadable
  BY <1>9 DEF SeenFields
<1> HIDE DEF view, drained
<1>11. CargoIn(pending)'
  <2>1. CargoIn([pending EXCEPT ![g][i] = <<>>])
    BY <1>2, NoSequence, CargoAt DEF PairInv, TalkInv, Cargo
  <2> QED
    BY <1>5, <2>1 DEF CargoIn, TalkInv
<1>12. SpawnedIn(tasks)'
  <2> DEFINE t == tasks[g][i]
  <2>1. Spawned(t)
    BY <1>2 DEF TalkInv, SpawnedIn
  <2>2. tasks' = [tasks EXCEPT ![g][i] = t \o taken]
    BY <1>5
  <2> HIDE DEF t
  <2> DEFINE r == t \o taken
  <2>3. Spawned(r)
    BY <1>8, <2>1, SpawnedMore
  <2>4. tasks' = [tasks EXCEPT ![g][i] = r]
    BY <2>2
  <2> HIDE DEF r
  <2>5. SpawnedIn([tasks EXCEPT ![g][i] = r])
    BY <1>2, <2>3, SpawnedAt DEF TalkInv
  <2> QED
    BY <2>4, <2>5 DEF SpawnedIn, Doubly
<1> QED
  BY <1>5, <1>6, <1>7, <1>10, <1>11, <1>12, SideTalks

(***************************************************************************)
(* The requests of the applications.                                       *)
(***************************************************************************)
LEMMA JoinRequested ==
  ASSUME NEW i \in Sides, Join(i)
  PROVE  \E req : Requested(i, req) /\ Uttered(req) = {} /\ Handle(i, req)
<1>1. PICK who \in Users[i] : Handle(i, [type |-> "Join", who |-> who])
  BY DEF Join
<1> DEFINE req == [type |-> "Join", who |-> who]
<1>2. req.type = "Join" /\ req.who \in UserIds
  BY DEF UserIds
<1>3. Handle(i, req)
  BY <1>1
<1> HIDE DEF req
<1>4. Requested(i, req) /\ Uttered(req) = {}
  BY <1>2 DEF Requested, Uttered
<1> QED
  BY <1>3, <1>4

LEMMA SendRequested ==
  ASSUME NEW i \in Sides, NEW kind, NEW msg, Send(i, kind, msg),
         \/ kind = "voice"
         \/ /\ kind \in {"pose", "chat"} /\ msg.type = kind /\ msg.size \in Nat
            /\ Excused(msg)
  PROVE  \E req : /\ Requested(i, req) /\ Handle(i, req)
                  /\ Uttered(req) = IF kind = "chat" THEN {msg.id} ELSE {}
<1>1. PICK elapsed \in BOOLEAN :
        Handle(i, [type |-> "Send", from |-> i, kind |-> kind, msg |-> msg,
                   elapsed |-> elapsed])
  BY DEF Send
<1> DEFINE req == [type |-> "Send", from |-> i, kind |-> kind, msg |-> msg,
                   elapsed |-> elapsed]
<1>2. req.type = "Send" /\ req.from = i /\ req.kind = kind /\ req.msg = msg
  OBVIOUS
<1>3. Handle(i, req)
  BY <1>1
<1> HIDE DEF req
<1>4. Requested(i, req)
  BY <1>2 DEF Requested
<1>5. Uttered(req) = IF kind = "chat" THEN {msg.id} ELSE {}
  BY <1>2 DEF Uttered
<1> QED
  BY <1>3, <1>4, <1>5

LEMMA ChatRequested ==
  ASSUME NEW i \in Sides, SendChat(i)
  PROVE  \E req : /\ Requested(i, req) /\ Handle(i, req)
                  /\ Uttered(req) = {budget.sends} /\ Spend("sends")
<1>1. PICK c \in Chats :
        Send(i, "chat", ChatMessage(c.version, c.sender, c.message, budget.sends))
  BY DEF SendChat
<1> DEFINE msg == ChatMessage(c.version, c.sender, c.message, budget.sends)
<1>2. msg.type = "chat" /\ msg.size \in Nat /\ msg.id = budget.sends
  <2>1. c.sender \in Nat /\ c.message \in Nat
    BY ApplicationsAssumption
  <2> QED
    BY <2>1 DEF ChatMessage
<1>3. Send(i, "chat", msg) /\ Excused(msg)
  <2>1. msg.type = "chat" /\ msg.size = c.sender + c.message
    BY DEF ChatMessage
  <2> HIDE DEF msg
  <2>2. msg.size > MaxBytes => "body_too_large" \in Unreadable
    BY <2>1 DEF Unreadable
  <2> QED
    BY <1>1, <2>1, <2>2 DEF Excused, msg
<1> HIDE DEF msg
<1>4. \E req : /\ Requested(i, req) /\ Handle(i, req)
               /\ Uttered(req) = IF "chat" = "chat" THEN {msg.id} ELSE {}
  BY <1>2, <1>3, SendRequested
<1> QED
  BY <1>2, <1>3, <1>4 DEF Send

LEMMA QuietRequested ==
  ASSUME NEW i \in Sides, SendPose(i) \/ SendVoiceFrame(i)
  PROVE  \E req : /\ Requested(i, req) /\ Handle(i, req)
                  /\ Uttered(req) = {} /\ Spend("sends")
<1>1. CASE SendPose(i)
  <2>0. PICK p \in Poses : Send(i, "pose", PoseMessage(p.version, p.finite))
    BY <1>1 DEF SendPose
  <2> DEFINE msg == PoseMessage(p.version, p.finite)
  <2>1. msg.type = "pose" /\ msg.size \in Nat /\ Excused(msg)
    <3>1. msg.type = "pose" /\ msg.size = 1 /\ msg.finite = p.finite
      BY DEF PoseMessage
    <3> HIDE DEF msg
    <3>2. ~p.finite => "invalid_pose" \in Unreadable
      BY DEF Unreadable
    <3> QED
      BY <3>1, <3>2, MessageBounds DEF Excused
  <2>2. Send(i, "pose", msg)
    BY <2>0
  <2> HIDE DEF msg
  <2>3. \E req : /\ Requested(i, req) /\ Handle(i, req)
                 /\ Uttered(req) = IF "pose" = "chat" THEN {msg.id} ELSE {}
    BY <2>1, <2>2, SendRequested
  <2> QED
    BY <2>2, <2>3 DEF Send
<1>2. CASE SendVoiceFrame(i)
  <2> DEFINE msg == AudioFrame
  <2>1. Send(i, "voice", msg)
    BY <1>2 DEF SendVoiceFrame
  <2> HIDE DEF msg
  <2>2. \E req : /\ Requested(i, req) /\ Handle(i, req)
                 /\ Uttered(req) = IF "voice" = "chat" THEN {msg.id} ELSE {}
    BY <2>1, SendRequested
  <2> QED
    BY <2>1, <2>2 DEF Send
<1> QED
  BY <1>1, <1>2

LEMMA TalkStep == PairInv /\ TalkInv /\ [Next]_vars => TalkInv'
<1> SUFFICES ASSUME PairInv, TalkInv, [Next]_vars PROVE TalkInv'
  OBVIOUS
<1>1. CASE UNCHANGED vars
  BY <1>1 DEF TalkInv, OpenOK, SpawnedIn, CargoIn, Understands, vars
<1>2. CASE \E g \in Links, i \in Sides : Transport(g, i)
  <2>1. PICK g \in Links, i \in Sides : Transport(g, i)
    BY <1>2
  <2>2. CASE \E ch \in Channels : OpenChannel(g, i, ch)
    BY <2>2, OpenTalks
  <2>3. CASE ReportFailure(g, i)
    BY <2>3, FailureTalks
  <2>4. CASE \E k \in DOMAIN tasks[g][i] : RunSend(g, i, k)
    BY <2>4, RunSendTalks
  <2>5. CASE Arrive(g, i)
    BY <2>5, ArriveTalks
  <2> QED
    BY <2>1, <2>2, <2>3, <2>4, <2>5 DEF Transport
<1>3. CASE \E g \in Links : Shutdown(g)
  BY <1>3, ShutdownTalks
<1>4. CASE \E i \in Sides : \/ Rebind(i) \/ Join(i) \/ PollOnly(i)
                            \/ SendPose(i) \/ SendChat(i) \/ SendVoiceFrame(i)
  <2>1. PICK i \in Sides : \/ Rebind(i) \/ Join(i) \/ PollOnly(i)
                           \/ SendPose(i) \/ SendChat(i) \/ SendVoiceFrame(i)
    BY <1>4
  <2>2. CASE Rebind(i)
    BY <2>2, RebindTalks
  <2>3. CASE PollOnly(i)
    BY <2>3, PollTalks
  <2>4. CASE Join(i)
    BY <2>4, JoinRequested, HandleTalks
  <2>5. CASE SendPose(i) \/ SendVoiceFrame(i)
    BY <2>5, QuietRequested, HandleTalks
  <2>6. CASE SendChat(i)
    BY <2>6, ChatRequested, HandleTalks
  <2> QED
    BY <2>1, <2>2, <2>3, <2>4, <2>5, <2>6
<1> QED
  BY <1>1, <1>2, <1>3, <1>4 DEF Next

LEMMA TalkAlways == Spec => [](PairInv /\ TalkInv)
<1>1. Init => PairInv /\ TalkInv
  BY PairStarts, TalkStarts
<1>2. (PairInv /\ TalkInv) /\ [Next]_vars => (PairInv /\ TalkInv)'
  BY PairStep, TalkStep
<1> QED
  BY <1>1, <1>2, PTL DEF Spec

(***************************************************************************)
(* Whatever the two applications ask and whatever the transports do, each  *)
(* syncer's table has one session per participant in its order, the sends  *)
(* it counts stay within the limit, and queues hold only what a transport  *)
(* makes. (participant_table.rs lines 8 to 59; rate_limiter.rs;            *)
(* webrtc_transport.rs lines 344 to 431 and 737 to 788)                    *)
(***************************************************************************)
THEOREM PairTypeCorrect == Spec => []TypeOK
<1>1. PairInv /\ TalkInv => TypeOK
  <2> SUFFICES ASSUME PairInv, TalkInv PROVE TypeOK
    OBVIOUS
  <2>1. bound \in [Sides -> Links] /\ closed \subseteq Links
    BY DEF PairInv, TalkInv
  <2>2. ASSUME NEW i \in Sides
        PROVE  /\ syncer[i].joined \in BOOLEAN /\ syncer[i].registered \in BOOLEAN
               /\ syncer[i].table.sessions \subseteq UNION {Users[j] : j \in Sides}
               /\ ToSet(syncer[i].table.order) = syncer[i].table.sessions
               /\ IsInjective(syncer[i].table.order)
               /\ syncer[i].used \in 0..Limit
    <3>1. Sound(syncer[i]) /\ TableOK(syncer[i].table)
      BY DEF PairInv, TalkInv, SideOK, Understands
    <3> QED
      BY <3>1 DEF Sound, TableOK, UserIds
  <2>3. ASSUME NEW g \in Links, NEW i \in Sides
        PROVE  /\ open[g][i] \subseteq Channels
               /\ \A k \in DOMAIN tasks[g][i] : tasks[g][i][k].params \in Frames
               /\ \A k \in DOMAIN pending[g][i] :
                    pending[g][i][k].type \in {"audio", "bytes", "failure"}
    <3>1. open[g][i] \subseteq Channels
      BY DEF TalkInv, OpenOK
    <3>2. Spawned(tasks[g][i])
      BY DEF TalkInv, SpawnedIn
    <3>3. Pollable(pending[g][i])
      BY QueuesDoubly DEF PairInv
    <3> QED
      BY <3>1, <3>2, <3>3 DEF Spawned, TaskCarries, Frames, Pollable, PolledTypes
  <2> QED
    BY <2>1, <2>2, <2>3 DEF TypeOK
<1> QED
  BY <1>1, TalkAlways, PTL

(***************************************************************************)
(* A peer reads everything its counterpart sends, for any users, chats and *)
(* poses, but for an envelope longer than MaxBytes and for a pose with a   *)
(* coordinate that is not finite: what into_envelope and to_bytes make of  *)
(* a request is carried unchanged by the spawned sends, the channels and   *)
(* the queues, lost or not, and from_slice and from_envelope take it.      *)
(* Applications that send neither are never told of an error.              *)
(* (sync_message.rs lines 9 to 43; envelope.rs lines 25 to 158; pose.rs;   *)
(* transport_inbox.rs lines 56 to 88)                                      *)
(***************************************************************************)
THEOREM PeersAlwaysUnderstand == Spec => []PeersUnderstand
<1>1. TalkInv => PeersUnderstand
  BY DEF TalkInv, Understands, PeersUnderstand
<1> QED
  BY <1>1, TalkAlways, PTL

(***************************************************************************)
(* Where a chat can be on its way to the application of side j: among the  *)
(* spawned sends of the other side, on the chat channel, in the queue of a *)
(* transport, or heard.  Each place is a row of sets of chats.             *)
(***************************************************************************)
TasksAt(h)   == <<"tasks", h>>
WireAt(h)    == <<"wire", h>>
PendingAt(h) == <<"pending", h>>
HeardAt      == <<"heard", 0>>

Stations == {TasksAt(h) : h \in Links} \cup {WireAt(h) : h \in Links}
              \cup {PendingAt(h) : h \in Links} \cup {HeardAt}

TaskRow(q)  == [k \in DOMAIN q |-> ChatOf(q[k])]
EventRow(q) == [k \in DOMAIN q |-> ChatIn(q[k])]
HeardRow(q) == [k \in DOMAIN q |-> {q[k]}]

Rows(j, t, w, p, v) ==
  [x \in Stations |->
     CASE x[1] = "tasks"   -> TaskRow(t[x[2]][Peer(j)])
       [] x[1] = "wire"    -> EventRow(w[x[2]][j])
       [] x[1] = "pending" -> EventRow(p[x[2]][j])
       [] x[1] = "heard"   -> HeardRow(v[j].heard)]

Ids(c) == UNION {c[k] : k \in DOMAIN c}

Loose(c) == \A j, k \in DOMAIN c : c[j] \cap c[k] # {} => j = k

\* No chat twice, and none whose id is still to be given.
OnceIn(R, n) ==
  /\ \A x \in Stations : Loose(R[x])
  /\ \A x \in Stations : \A c \in Ids(R[x]) : c \in Int /\ c > n
  /\ \A x, y \in Stations : x # y => Ids(R[x]) \cap Ids(R[y]) = {}

LEMMA InIds ==
  ASSUME NEW c
  PROVE  /\ \A x \in Ids(c) : \E k \in DOMAIN c : x \in c[k]
         /\ \A k \in DOMAIN c : c[k] \subseteq Ids(c)
BY DEF Ids

LEMMA StationIs ==
  ASSUME NEW x \in Stations
  PROVE  x = HeardAt \/ \E h \in Links : x \in {TasksAt(h), WireAt(h), PendingAt(h)}
BY DEF Stations

LEMMA StationsDiffer ==
  ASSUME NEW g, NEW h
  PROVE  /\ TasksAt(g) \notin {WireAt(h), PendingAt(h), HeardAt}
         /\ WireAt(g) \notin {PendingAt(h), HeardAt} /\ PendingAt(g) # HeardAt
         /\ g # h => /\ TasksAt(g) # TasksAt(h) /\ WireAt(g) # WireAt(h)
                     /\ PendingAt(g) # PendingAt(h)
BY DEF TasksAt, WireAt, PendingAt, HeardAt

LEMMA RowsAre ==
  ASSUME NEW j, NEW t, NEW w, NEW p, NEW v
  PROVE  LET R == Rows(j, t, w, p, v) IN
         /\ R[HeardAt] = HeardRow(v[j].heard)
         /\ \A h \in Links : /\ R[TasksAt(h)] = TaskRow(t[h][Peer(j)])
                            /\ R[WireAt(h)] = EventRow(w[h][j])
                            /\ R[PendingAt(h)] = EventRow(p[h][j])
BY DEF Rows, Stations, TasksAt, WireAt, PendingAt, HeardAt

LEMMA RowLess ==
  ASSUME NEW n \in Nat, NEW c, DOMAIN c = 1 .. n, Loose(c), NEW i \in 1 .. n,
         NEW d, DOMAIN d = 1 .. n - 1,
         \A k \in 1 .. n - 1 : d[k] = IF k < i THEN c[k] ELSE c[k + 1]
  PROVE  Loose(d) /\ Ids(d) \subseteq Ids(c) /\ Ids(d) \cap c[i] = {}
<1> DEFINE at(k) == IF k < i THEN k ELSE k + 1
<1>1. ASSUME NEW k \in 1 .. n - 1
      PROVE  at(k) \in 1 .. n /\ at(k) # i /\ d[k] = c[at(k)]
  OBVIOUS
<1>2. ASSUME NEW k \in 1 .. n - 1, NEW l \in 1 .. n - 1, at(k) = at(l) PROVE k = l
  BY <1>2
<1> HIDE DEF at
<1>3. Loose(d)
  <2> SUFFICES ASSUME NEW k \in 1 .. n - 1, NEW l \in 1 .. n - 1, d[k] \cap d[l] # {}
               PROVE  k = l
    BY DEF Loose
  <2>1. c[at(k)] \cap c[at(l)] # {} /\ at(k) \in 1 .. n /\ at(l) \in 1 .. n
    BY <1>1
  <2>2. at(k) = at(l)
    BY <2>1 DEF Loose
  <2> QED
    BY <1>2, <2>2
<1>4. ASSUME NEW x \in Ids(d) PROVE x \in Ids(c) /\ x \notin c[i]
  <2>1. PICK k \in 1 .. n - 1 : x \in d[k]
    BY InIds
  <2>2. at(k) \in 1 .. n /\ at(k) # i /\ x \in c[at(k)]
    BY <1>1, <2>1
  <2> QED
    BY <2>2, InIds DEF Loose
<1> QED
  BY <1>3, <1>4

\* The row e is the row c, of length n, and then the row d, of length m.
Abut(e, c, n, d, m) ==
  /\ n \in Nat /\ m \in Nat
  /\ DOMAIN c = 1 .. n /\ DOMAIN d = 1 .. m /\ DOMAIN e = 1 .. n + m
  /\ \A k \in 1 .. n : e[k] = c[k]
  /\ \A k \in 1 .. m : e[n + k] = d[k]

LEMMA RowJoined ==
  ASSUME NEW e, NEW c, NEW n, NEW d, NEW m, Abut(e, c, n, d, m)
  PROVE  /\ Ids(e) \subseteq Ids(c) \cup Ids(d)
         /\ Loose(c) /\ Loose(d) /\ Ids(c) \cap Ids(d) = {} => Loose(e)
<1>1. ASSUME NEW k \in 1 .. n + m
      PROVE  \/ k \in 1 .. n /\ e[k] = c[k]
             \/ \E l \in 1 .. m : k = n + l /\ e[k] = d[l]
  <2>1. CASE k <= n
    BY <2>1 DEF Abut
  <2>2. CASE ~(k <= n)
    <3>1. k - n \in 1 .. m /\ k = n + (k - n)
      BY <2>2 DEF Abut
    <3> QED
      BY <3>1 DEF Abut
  <2> QED
    BY <2>1, <2>2
<1>2. ASSUME NEW x \in Ids(e) PROVE x \in Ids(c) \cup Ids(d)
  <2>1. PICK k \in 1 .. n + m : x \in e[k]
    BY InIds DEF Abut
  <2> QED
    BY <1>1, <2>1, InIds DEF Abut
<1>3. ASSUME Loose(c), Loose(d), Ids(c) \cap Ids(d) = {} PROVE Loose(e)
  <2> SUFFICES ASSUME NEW k \in 1 .. n + m, NEW l \in 1 .. n + m, NEW x,
                      x \in e[k], x \in e[l]
               PROVE  k = l
    BY DEF Loose, Abut
  <2>1. CASE k \in 1 .. n /\ e[k] = c[k]
    <3>1. l \in 1 .. n /\ e[l] = c[l]
      BY <1>1, <1>3, <2>1, InIds DEF Abut
    <3> QED
      BY <1>3, <2>1, <3>1 DEF Loose, Abut
  <2>2. CASE \E i \in 1 .. m : k = n + i /\ e[k] = d[i]
    <3>1. \E i \in 1 .. m : l = n + i /\ e[l] = d[i]
      BY <1>1, <1>3, <2>2, InIds DEF Abut
    <3> QED
      BY <1>3, <2>2, <3>1 DEF Loose, Abut
  <2> QED
    BY <1>1, <2>1, <2>2
<1> QED
  BY <1>2, <1>3

LEMMA OneRow ==
  ASSUME NEW x
  PROVE  LET d == [k \in 1 .. 1 |-> x] IN Loose(d) /\ Ids(d) = x
BY DEF Loose, Ids

(***************************************************************************)
(* The invariant is kept when rows shrink, when one row passes a chat to   *)
(* another one, and when a chat that is new enters.                        *)
(***************************************************************************)
LEMMA OnceKept ==
  ASSUME NEW R, NEW n \in Int, OnceIn(R, n), NEW S, NEW m \in Int, m <= n,
         \A x \in Stations : S[x] = R[x] \/ (Loose(S[x]) /\ Ids(S[x]) \subseteq Ids(R[x]))
  PROVE  OnceIn(S, m)
<1>1. \A x \in Stations : Loose(S[x]) /\ Ids(S[x]) \subseteq Ids(R[x])
  BY DEF OnceIn
<1>2. ASSUME NEW x \in Stations, NEW c \in Ids(S[x]) PROVE c \in Int /\ c > m
  <2>1. c \in Int /\ c > n
    BY <1>1 DEF OnceIn
  <2> QED
    BY <2>1
<1>3. ASSUME NEW x \in Stations, NEW y \in Stations, x # y PROVE Ids(S[x]) \cap Ids(S[y]) = {}
  BY <1>1, <1>3 DEF OnceIn
<1> QED
  BY <1>1, <1>2, <1>3 DEF OnceIn

LEMMA OncePassed ==
  ASSUME NEW R, NEW n \in Int, OnceIn(R, n), NEW S, NEW m \in Int, m <= n,
         NEW x \in Stations, NEW y \in Stations, x # y,
         \A z \in Stations : z # x /\ z # y => S[z] = R[z],
         Loose(S[x]), Loose(S[y]), Ids(S[x]) \cap Ids(S[y]) = {},
         Ids(S[x]) \cup Ids(S[y]) \subseteq Ids(R[x]) \cup Ids(R[y])
  PROVE  OnceIn(S, m)
<1>1. \A z \in Stations : Loose(S[z])
  BY DEF OnceIn
<1>2. ASSUME NEW z \in Stations, NEW c \in Ids(S[z]) PROVE c \in Int /\ c > m
  <2>1. c \in Int /\ c > n
    BY DEF OnceIn
  <2> QED
    BY <2>1
<1>3. ASSUME NEW z \in Stations, z # x, z # y
      PROVE  Ids(S[z]) \cap Ids(S[x]) = {} /\ Ids(S[z]) \cap Ids(S[y]) = {}
  <2>1. Ids(R[z]) \cap Ids(R[x]) = {} /\ Ids(R[z]) \cap Ids(R[y]) = {} /\ S[z] = R[z]
    BY <1>3 DEF OnceIn
  <2> QED
    BY <2>1
<1>4. ASSUME NEW z \in Stations, NEW u \in Stations, z # u PROVE Ids(S[z]) \cap Ids(S[u]) = {}
  <2>1. CASE z \in {x, y} \/ u \in {x, y}
    BY <1>3, <1>4, <2>1
  <2>2. CASE z \notin {x, y} /\ u \notin {x, y}
    BY <1>4, <2>2 DEF OnceIn
  <2> QED
    BY <2>1, <2>2
<1> QED
  BY <1>1, <1>2, <1>4 DEF OnceIn

LEMMA OnceFresh ==
  ASSUME NEW R, NEW n \in Int, OnceIn(R, n), NEW S, NEW m \in Int, m < n,
         NEW y \in Stations, \A z \in Stations : z # y => S[z] = R[z],
         Loose(S[y]), Ids(S[y]) \subseteq Ids(R[y]) \cup {n}
  PROVE  OnceIn(S, m)
<1>1. \A z \in Stations : Loose(S[z])
  BY DEF OnceIn
<1>2. ASSUME NEW z \in Stations, NEW c \in Ids(S[z]) PROVE c \in Int /\ c > m
  <2>1. CASE c = n
    BY <2>1
  <2>2. CASE c # n
    <3>1. c \in Int /\ c > n
      BY <2>2 DEF OnceIn
    <3> QED
      BY <3>1
  <2> QED
    BY <2>1, <2>2
<1>3. \A z \in Stations : n \notin Ids(R[z])
  BY DEF OnceIn
<1>4. ASSUME NEW z \in Stations, z # y PROVE Ids(S[z]) \cap Ids(S[y]) = {}
  <2>1. Ids(R[z]) \cap Ids(R[y]) = {} /\ S[z] = R[z] /\ n \notin Ids(R[z])
    BY <1>3, <1>4 DEF OnceIn
  <2> QED
    BY <2>1
<1>5. ASSUME NEW z \in Stations, NEW u \in Stations, z # u PROVE Ids(S[z]) \cap Ids(S[u]) = {}
  <2>1. CASE z = y \/ u = y
    BY <1>4, <1>5, <2>1
  <2>2. CASE z # y /\ u # y
    BY <1>5, <2>2 DEF OnceIn
  <2> QED
    BY <2>1, <2>2
<1> QED
  BY <1>1, <1>2, <1>5 DEF OnceIn

(***************************************************************************)
(* What the operations of the queues do to the rows.                       *)
(***************************************************************************)
LEMMA EventRowMore ==
  ASSUME NEW q, ASeq(q), NEW x
  PROVE  LET c == EventRow(q)
             e == EventRow(Append(q, x))
         IN  /\ Ids(e) \subseteq Ids(c) \cup ChatIn(x)
             /\ Loose(c) /\ Ids(c) \cap ChatIn(x) = {} => Loose(e)
<1> DEFINE n == Len(q)
           c == EventRow(q)
           d == [k \in 1 .. 1 |-> ChatIn(x)]
           r == Append(q, x)
           e == EventRow(r)
<1>1. n \in Nat /\ DOMAIN q = 1 .. n
  BY ASeqFacts
<1>2. /\ ASeq(r) /\ Len(r) = n + 1 /\ \A k \in 1 .. n : r[k] = q[k]
      /\ r[n + 1] = x
  <2>1. ASeq(q)
    OBVIOUS
  <2> QED
    BY <2>1, Appended
<1> HIDE DEF r
<1>3. DOMAIN r = 1 .. n + 1
  BY <1>2, ASeqFacts
<1> HIDE DEF n
<1>4. /\ DOMAIN c = 1 .. n /\ DOMAIN d = 1 .. 1 /\ DOMAIN e = 1 .. n + 1
      /\ \A k \in 1 .. n : e[k] = c[k]
      /\ \A k \in 1 .. 1 : e[n + k] = d[k]
  BY <1>1, <1>2, <1>3 DEF EventRow
<1>5. Loose(d) /\ Ids(d) = ChatIn(x)
  BY OneRow
<1> HIDE DEF c, d, e
<1>6. /\ Ids(e) \subseteq Ids(c) \cup Ids(d)
      /\ Loose(c) /\ Loose(d) /\ Ids(c) \cap Ids(d) = {} => Loose(e)
  <2>1. Abut(e, c, n, d, 1)
    BY <1>1, <1>4 DEF Abut
  <2> QED
    BY <2>1, RowJoined
<1> QED
  BY <1>5, <1>6 DEF c, e, r

LEMMA EventRowLess ==
  ASSUME NEW q, ASeq(q), q # <<>>, Loose(EventRow(q))
  PROVE  LET c == EventRow(q)
             d == EventRow(Tail(q))
         IN  /\ Loose(d) /\ Ids(d) \subseteq Ids(c)
             /\ Ids(d) \cap ChatIn(Head(q)) = {} /\ ChatIn(Head(q)) \subseteq Ids(c)
<1> DEFINE n == Len(q)
           c == EventRow(q)
           r == Tail(q)
           d == EventRow(r)
<1>1. PICK M : q \in Seq(M)
  BY DEF ASeq
<1>2. /\ n \in Nat /\ 1 \in 1 .. n /\ DOMAIN q = 1 .. n
      /\ Head(q) = q[1] /\ DOMAIN r = 1 .. n - 1
      /\ \A k \in 1 .. n - 1 : r[k] = q[k + 1]
  <2>1. /\ n \in Nat /\ n >= 1 /\ DOMAIN q = 1 .. n
        /\ Head(q) = q[1] /\ DOMAIN r = 1 .. n - 1
        /\ \A k \in 1 .. n - 1 : r[k] = q[k + 1]
    BY <1>1, HeadTailProperties
  <2> QED
    BY <2>1
<1> HIDE DEF n, r
<1>3. /\ DOMAIN c = 1 .. n /\ DOMAIN d = 1 .. n - 1
      /\ c[1] = ChatIn(Head(q))
      /\ \A k \in 1 .. n - 1 : d[k] = IF k < 1 THEN c[k] ELSE c[k + 1]
  BY <1>2 DEF EventRow
<1>4. Loose(c)
  OBVIOUS
<1> HIDE DEF c, d
<1>5. Loose(d) /\ Ids(d) \subseteq Ids(c) /\ Ids(d) \cap c[1] = {}
  BY <1>2, <1>3, <1>4, RowLess
<1>6. c[1] \subseteq Ids(c)
  BY <1>2, <1>3, InIds
<1> QED
  BY <1>3, <1>5, <1>6 DEF c, d, r

LEMMA TaskRowLess ==
  ASSUME NEW q, ASeq(q), NEW i \in DOMAIN q, Loose(TaskRow(q))
  PROVE  LET c == TaskRow(q)
             d == TaskRow(RemoveAt(q, i))
         IN  /\ Loose(d) /\ Ids(d) \subseteq Ids(c)
             /\ Ids(d) \cap ChatOf(q[i]) = {} /\ ChatOf(q[i]) \subseteq Ids(c)
<1> DEFINE n == Len(q)
           c == TaskRow(q)
           r == RemoveAt(q, i)
           d == TaskRow(r)
<1>1. n \in Nat /\ DOMAIN q = 1 .. n
  BY ASeqFacts
<1>2. /\ ASeq(r) /\ Len(r) = n - 1
      /\ \A k \in 1 .. n - 1 : r[k] = IF k < i THEN q[k] ELSE q[k + 1]
  BY <1>1, RemovedAt
<1> HIDE DEF n, r
<1>3. DOMAIN r = 1 .. n - 1
  BY <1>2, ASeqFacts
<1>4. /\ DOMAIN c = 1 .. n /\ DOMAIN d = 1 .. n - 1 /\ c[i] = ChatOf(q[i])
  BY <1>1, <1>3 DEF TaskRow
<1>5. ASSUME NEW k \in 1 .. n - 1 PROVE d[k] = IF k < i THEN c[k] ELSE c[k + 1]
  <2>1. k \in 1 .. n /\ k + 1 \in 1 .. n
    BY <1>1
  <2> QED
    BY <1>1, <1>2, <1>3, <2>1 DEF TaskRow
<1>6. Loose(c)
  OBVIOUS
<1> HIDE DEF c, d
<1>7. i \in 1 .. n
  BY <1>1
<1>8. Loose(d) /\ Ids(d) \subseteq Ids(c) /\ Ids(d) \cap c[i] = {}
  BY <1>1, <1>4, <1>5, <1>6, <1>7, RowLess
<1>9. c[i] \subseteq Ids(c)
  BY <1>4, <1>7, InIds
<1> QED
  BY <1>4, <1>8, <1>9 DEF c, d, r

LEMMA TaskRowMore ==
  ASSUME NEW q, ASeq(q), NEW r, ASeq(r)
  PROVE  LET c == TaskRow(q)
             d == TaskRow(r)
             e == TaskRow(q \o r)
         IN  /\ Ids(e) \subseteq Ids(c) \cup Ids(d)
             /\ Loose(c) /\ Loose(d) /\ Ids(c) \cap Ids(d) = {} => Loose(e)
<1> DEFINE n == Len(q)
           m == Len(r)
           s == q \o r
           c == TaskRow(q)
           d == TaskRow(r)
           e == TaskRow(s)
<1>1. n \in Nat /\ DOMAIN q = 1 .. n /\ m \in Nat /\ DOMAIN r = 1 .. m
  BY ASeqFacts
<1>2. /\ ASeq(s) /\ Len(s) = n + m /\ \A k \in 1 .. n : s[k] = q[k]
      /\ \A k \in 1 .. m : s[n + k] = r[k]
  BY JoinedSeq
<1> HIDE DEF s
<1>3. DOMAIN s = 1 .. n + m
  <2>1. ASeq(s) /\ Len(s) = n + m
    BY <1>2
  <2> QED
    BY <2>1, ASeqFacts
<1> HIDE DEF n, m
<1>4. /\ DOMAIN c = 1 .. n /\ DOMAIN d = 1 .. m /\ DOMAIN e = 1 .. n + m
      /\ \A k \in 1 .. n : e[k] = c[k]
      /\ \A k \in 1 .. m : e[n + k] = d[k]
  BY <1>1, <1>2, <1>3 DEF TaskRow
<1> HIDE DEF c, d, e
<1>5. /\ Ids(e) \subseteq Ids(c) \cup Ids(d)
      /\ Loose(c) /\ Loose(d) /\ Ids(c) \cap Ids(d) = {} => Loose(e)
  <2>1. Abut(e, c, n, d, m)
    BY <1>1, <1>4 DEF Abut
  <2> QED
    BY <2>1, RowJoined
<1> QED
  BY <1>5 DEF c, d, e, s

LEMMA HeardRowMore ==
  ASSUME NEW q, ASeq(q), NEW r, ASeq(r)
  PROVE  LET c == HeardRow(q)
             d == HeardRow(r)
             e == HeardRow(q \o r)
         IN  /\ Ids(e) \subseteq Ids(c) \cup Ids(d)
             /\ Loose(c) /\ Loose(d) /\ Ids(c) \cap Ids(d) = {} => Loose(e)
<1> DEFINE n == Len(q)
           m == Len(r)
           s == q \o r
           c == HeardRow(q)
           d == HeardRow(r)
           e == HeardRow(s)
<1>1. n \in Nat /\ DOMAIN q = 1 .. n /\ m \in Nat /\ DOMAIN r = 1 .. m
  BY ASeqFacts
<1>2. /\ ASeq(s) /\ Len(s) = n + m /\ \A k \in 1 .. n : s[k] = q[k]
      /\ \A k \in 1 .. m : s[n + k] = r[k]
  BY JoinedSeq
<1> HIDE DEF s
<1>3. DOMAIN s = 1 .. n + m
  <2>1. ASeq(s) /\ Len(s) = n + m
    BY <1>2
  <2> QED
    BY <2>1, ASeqFacts
<1> HIDE DEF n, m
<1>4. /\ DOMAIN c = 1 .. n /\ DOMAIN d = 1 .. m /\ DOMAIN e = 1 .. n + m
      /\ \A k \in 1 .. n : e[k] = c[k]
      /\ \A k \in 1 .. m : e[n + k] = d[k]
  BY <1>1, <1>2, <1>3 DEF HeardRow
<1> HIDE DEF c, d, e
<1>5. /\ Ids(e) \subseteq Ids(c) \cup Ids(d)
      /\ Loose(c) /\ Loose(d) /\ Ids(c) \cap Ids(d) = {} => Loose(e)
  <2>1. Abut(e, c, n, d, m)
    BY <1>1, <1>4 DEF Abut
  <2> QED
    BY <2>1, RowJoined
<1> QED
  BY <1>5 DEF c, d, e, s

LEMMA ThePeer ==
  ASSUME NEW i \in Sides
  PROVE  /\ Peer(i) \in Sides /\ Peer(i) # i /\ Peer(Peer(i)) = i
         /\ \A j \in Sides : j = i \/ j = Peer(i)
BY DEF Peer, Sides

\* Outside A nothing moves.
Unmoved(A, j, t, w, p, v, t2, w2, p2, v2) ==
  /\ \A h \in Links :
       /\ TasksAt(h) \in A \/ t2[h][Peer(j)] = t[h][Peer(j)]
       /\ WireAt(h) \in A \/ w2[h][j] = w[h][j]
       /\ PendingAt(h) \in A \/ p2[h][j] = p[h][j]
  /\ HeardAt \in A \/ v2[j].heard = v[j].heard

LEMMA OthersSame ==
  ASSUME NEW A, NEW j, NEW t, NEW w, NEW p, NEW v, NEW t2, NEW w2, NEW p2, NEW v2,
         Unmoved(A, j, t, w, p, v, t2, w2, p2, v2)
  PROVE  \A x \in Stations : x \in A \/ Rows(j, t2, w2, p2, v2)[x] = Rows(j, t, w, p, v)[x]
<1> DEFINE R == Rows(j, t, w, p, v)
           S == Rows(j, t2, w2, p2, v2)
<1> SUFFICES ASSUME NEW x \in Stations, x \notin A PROVE S[x] = R[x]
  OBVIOUS
<1>1. /\ R[HeardAt] = HeardRow(v[j].heard)
      /\ \A h \in Links :
           /\ R[TasksAt(h)] = TaskRow(t[h][Peer(j)])
           /\ R[WireAt(h)] = EventRow(w[h][j])
           /\ R[PendingAt(h)] = EventRow(p[h][j])
  BY RowsAre
<1>2. /\ S[HeardAt] = HeardRow(v2[j].heard)
      /\ \A h \in Links :
           /\ S[TasksAt(h)] = TaskRow(t2[h][Peer(j)])
           /\ S[WireAt(h)] = EventRow(w2[h][j])
           /\ S[PendingAt(h)] = EventRow(p2[h][j])
  BY RowsAre
<1> HIDE DEF R, S
<1>3. CASE x = HeardAt
  BY <1>1, <1>2, <1>3 DEF Unmoved
<1>4. ASSUME NEW h \in Links, x \in {TasksAt(h), WireAt(h), PendingAt(h)}
      PROVE  S[x] = R[x]
  BY <1>1, <1>2, <1>4 DEF Unmoved
<1> QED
  BY <1>3, <1>4, StationIs

(***************************************************************************)
(* No chat is heard twice.                                                 *)
(***************************************************************************)
Counted == DOMAIN budget = {"joins", "sends", "troubles"} /\ budget.sends \in Nat

On(j) == Rows(j, tasks, wire, pending, seen)

OnceFor(j) == ASeq(seen[j].heard) /\ OnceIn(On(j), budget.sends)

OnceInv == Counted /\ \A j \in Sides : OnceFor(j)

\* What the places hold, now and next.
LEMMA OnIs ==
  ASSUME NEW j, NEW h \in Links
  PROVE  /\ On(j)[TasksAt(h)] = TaskRow(tasks[h][Peer(j)])
         /\ On(j)[WireAt(h)] = EventRow(wire[h][j])
         /\ On(j)[PendingAt(h)] = EventRow(pending[h][j])
         /\ On(j)'[TasksAt(h)] = TaskRow(tasks'[h][Peer(j)])
         /\ On(j)'[WireAt(h)] = EventRow(wire'[h][j])
         /\ On(j)'[PendingAt(h)] = EventRow(pending'[h][j])
         /\ {TasksAt(h), WireAt(h), PendingAt(h)} \subseteq Stations
BY RowsAre DEF On, Stations

LEMMA OnHeard ==
  ASSUME NEW j
  PROVE  /\ On(j)[HeardAt] = HeardRow(seen[j].heard)
         /\ On(j)'[HeardAt] = HeardRow(seen'[j].heard)
         /\ HeardAt \in Stations
BY RowsAre DEF On, Stations

LEMMA OnceStarts == Init => OnceInv
<1> SUFFICES ASSUME Init PROVE OnceInv
  OBVIOUS
<1>1. MaxSends \in Nat
  BY LinksAssumption
<1>2. Counted
  BY <1>1 DEF Init, Counted
<1>3. ASSUME NEW j \in Sides PROVE OnceFor(j)
  <2>1. /\ seen[j].heard = <<>>
        /\ \A h \in Links : tasks[h][Peer(j)] = <<>> /\ wire[h][j] = <<>> /\ pending[h][j] = <<>>
    BY ThePeer DEF Init, Each, NothingSeen
  <2>2. DOMAIN <<>> = {}
    OBVIOUS
  <2>3. DOMAIN TaskRow(<<>>) = {} /\ DOMAIN EventRow(<<>>) = {} /\ DOMAIN HeardRow(<<>>) = {}
    BY <2>2 DEF TaskRow, EventRow, HeardRow
  <2>4. ASSUME NEW x \in Stations PROVE DOMAIN On(j)[x] = {}
    <3> DEFINE R == On(j)
    <3>1. /\ R[HeardAt] = HeardRow(seen[j].heard)
          /\ \A h \in Links :
               /\ R[TasksAt(h)] = TaskRow(tasks[h][Peer(j)])
               /\ R[WireAt(h)] = EventRow(wire[h][j])
               /\ R[PendingAt(h)] = EventRow(pending[h][j])
      BY RowsAre DEF On
    <3> HIDE DEF R
    <3>2. CASE x = HeardAt
      BY <2>1, <2>3, <3>1, <3>2 DEF R
    <3>3. ASSUME NEW h \in Links, x \in {TasksAt(h), WireAt(h), PendingAt(h)}
          PROVE  DOMAIN R[x] = {}
      BY <2>1, <2>3, <3>1, <3>3
    <3> QED
      BY <3>2, <3>3, StationIs DEF R
  <2>5. \A x \in Stations : Loose(On(j)[x]) /\ Ids(On(j)[x]) = {}
    BY <2>4 DEF Loose, Ids
  <2>6. OnceIn(On(j), budget.sends)
    BY <2>5 DEF OnceIn
  <2> QED
    BY <2>1, <2>6, NoSequence DEF OnceFor
<1> QED
  BY <1>2, <1>3 DEF OnceInv

\* Nothing moves that leads to side j.
LEMMA StillOnce ==
  ASSUME OnceInv, NEW j \in Sides, budget' = budget,
         \A h \in Links : /\ tasks'[h][Peer(j)] = tasks[h][Peer(j)]
                          /\ wire'[h][j] = wire[h][j]
                          /\ pending'[h][j] = pending[h][j],
         seen'[j].heard = seen[j].heard
  PROVE  OnceFor(j)'
<1> DEFINE R == On(j)
           S == On(j)'
           n == budget.sends
<1>1. OnceIn(R, n) /\ n \in Int /\ n <= n /\ budget.sends' = n
  BY DEF OnceInv, OnceFor, Counted
<1>2. \A x \in Stations : x \in {} \/ S[x] = R[x]
  <2>1. Unmoved({}, j, tasks, wire, pending, seen, tasks', wire', pending', seen')
    BY DEF Unmoved
  <2> QED
    BY <2>1, OthersSame DEF On
<1> HIDE DEF R, S, n
<1>3. OnceIn(S, n)
  BY <1>1, <1>2, OnceKept
<1> QED
  BY <1>1, <1>3 DEF OnceFor, OnceInv, S

\* The chats of a queue pass to another one, or are lost, on their way to j.
LEMMA PassedOn ==
  ASSUME OnceInv, NEW j \in Sides, Counted', budget'.sends <= budget.sends,
         ASeq(seen'[j].heard),
         NEW x \in Stations, NEW y \in Stations, x # y,
         Unmoved({x, y}, j, tasks, wire, pending, seen, tasks', wire', pending', seen'),
         Loose(On(j)'[x]), Loose(On(j)'[y]), Ids(On(j)'[x]) \cap Ids(On(j)'[y]) = {},
         Ids(On(j)'[x]) \cup Ids(On(j)'[y]) \subseteq Ids(On(j)[x]) \cup Ids(On(j)[y])
  PROVE  OnceFor(j)'
<1> DEFINE R == On(j)
           S == On(j)'
           n == budget.sends
           m == budget'.sends
<1>1. OnceIn(R, n) /\ n \in Int /\ m \in Int /\ m <= n
  BY DEF OnceInv, OnceFor, Counted
<1>2. \A z \in Stations : z \in {x, y} \/ S[z] = R[z]
  BY OthersSame DEF On
<1>3. \A z \in Stations : z # x /\ z # y => S[z] = R[z]
  BY <1>2
<1>4. /\ Loose(S[x]) /\ Loose(S[y]) /\ Ids(S[x]) \cap Ids(S[y]) = {}
      /\ Ids(S[x]) \cup Ids(S[y]) \subseteq Ids(R[x]) \cup Ids(R[y])
  OBVIOUS
<1> HIDE DEF R, S, n, m
<1>5. OnceIn(S, m)
  BY <1>1, <1>3, <1>4, OncePassed
<1> QED
  BY <1>5 DEF OnceFor, S, m

LEMMA ArriveOnce ==
  ASSUME PairInv, OnceInv, NEW g \in Links, NEW i \in Sides, Arrive(g, i)
  PROVE  OnceInv'
<1> DEFINE q == wire[g][i]
           p == pending[g][i]
           rest == Tail(q)
           more == Append(p, Head(q))
<1>1. ASeq(q) /\ q # <<>> /\ ASeq(p)
  BY QueuesDoubly DEF PairInv, Pollable, Arrive
<1>2. /\ pending' = Put(pending, g, i, more) /\ wire' = Put(wire, g, i, rest)
      /\ tasks' = tasks /\ seen' = seen /\ budget' = budget
  BY DEF Arrive, Put
<1>3. Doubly(pending) /\ Doubly(wire)
  BY QueuesDoubly DEF PairInv
<1> HIDE DEF rest, more
<1>4. /\ wire'[g][i] = rest
      /\ \A h \in Links : \A j \in Sides : h # g \/ j # i => wire'[h][j] = wire[h][j]
  BY <1>2, <1>3, SetAt
<1>5. /\ pending'[g][i] = more
      /\ \A h \in Links : \A j \in Sides : h # g \/ j # i => pending'[h][j] = pending[h][j]
  BY <1>2, <1>3, SetAt
<1>6. ASSUME NEW j \in Sides, j # i PROVE OnceFor(j)'
  BY <1>2, <1>4, <1>5, <1>6, StillOnce
<1>7. OnceFor(i)'
  <2> DEFINE x == WireAt(g)
             y == PendingAt(g)
  <2>1. /\ x \in Stations /\ y \in Stations /\ x # y
        /\ On(i)[x] = EventRow(q) /\ On(i)[y] = EventRow(p)
    BY OnIs, StationsDiffer
  <2>2. On(i)'[x] = EventRow(rest) /\ On(i)'[y] = EventRow(more)
    BY <1>4, <1>5, OnIs
  <2>3. Unmoved({x, y}, i, tasks, wire, pending, seen, tasks', wire', pending', seen')
    BY <1>2, <1>4, <1>5 DEF Unmoved
  <2> HIDE DEF x, y, q, p
  <2>4. /\ Loose(EventRow(q)) /\ Loose(EventRow(p))
        /\ Ids(EventRow(q)) \cap Ids(EventRow(p)) = {}
    BY <2>1 DEF OnceInv, OnceFor, OnceIn
  <2> DEFINE c == EventRow(q)
             d == EventRow(rest)
             e == EventRow(p)
             f == EventRow(more)
             h == ChatIn(Head(q))
  <2>5. Loose(d) /\ Ids(d) \subseteq Ids(c) /\ Ids(d) \cap h = {} /\ h \subseteq Ids(c)
    BY <1>1, <2>4, EventRowLess DEF rest
  <2>6. /\ Ids(f) \subseteq Ids(e) \cup h
        /\ Loose(e) /\ Ids(e) \cap h = {} => Loose(f)
    BY <1>1, EventRowMore DEF more
  <2>7. Loose(c) /\ Loose(e) /\ Ids(c) \cap Ids(e) = {} /\ On(i)[x] = c /\ On(i)[y] = e
    BY <2>1, <2>4
  <2>8. On(i)'[x] = d /\ On(i)'[y] = f
    BY <2>2
  <2> HIDE DEF c, d, e, f, h
  <2>9. /\ Loose(d) /\ Loose(f) /\ Ids(d) \cap Ids(f) = {}
        /\ Ids(d) \cup Ids(f) \subseteq Ids(c) \cup Ids(e)
    BY <2>5, <2>6, <2>7
  <2>10. Counted' /\ budget'.sends <= budget.sends /\ ASeq(seen'[i].heard)
    BY <1>2 DEF Counted, OnceInv, OnceFor
  <2> QED
    BY <2>1, <2>3, <2>7, <2>8, <2>9, <2>10, PassedOn
<1>8. Counted'
  BY <1>2 DEF OnceInv, Counted
<1> QED
  BY <1>6, <1>7, <1>8 DEF OnceInv

\* A send runs and its message is put into one of the queues towards `to`.
SentInto(x, g, i, j, k, old, ev) ==
  /\ x \in {WireAt(g), PendingAt(g)}
  /\ ASeq(old) /\ ChatIn(ev) = ChatOf(tasks[g][i][k])
  /\ On(j)[x] = EventRow(old) /\ On(j)'[x] = EventRow(Append(old, ev))
  /\ \A h \in Links : /\ WireAt(h) = x \/ wire'[h][j] = wire[h][j]
                      /\ PendingAt(h) = x \/ pending'[h][j] = pending[h][j]

LEMMA SentOnce ==
  ASSUME OnceInv, NEW g \in Links, NEW i \in Sides, NEW j \in Sides, j = Peer(i),
         Doubly(tasks), Spawned(tasks[g][i]), NEW k \in DOMAIN tasks[g][i],
         tasks'[g][i] = RemoveAt(tasks[g][i], k),
         \A h \in Links : h # g => tasks'[h][i] = tasks[h][i],
         NEW x, NEW old, NEW ev, SentInto(x, g, i, j, k, old, ev),
         seen'[j].heard = seen[j].heard, budget' = budget
  PROVE  OnceFor(j)'
<1> DEFINE q == tasks[g][i]
           rest == RemoveAt(q, k)
           more == Append(old, ev)
           y == TasksAt(g)
           c == TaskRow(q)
           d == TaskRow(rest)
           e == EventRow(old)
           f == EventRow(more)
           chat == ChatOf(q[k])
<1>1. Peer(j) = i
  BY ThePeer
<1>3. /\ tasks'[g][i] = rest
      /\ \A h \in Links : h # g => tasks'[h][i] = tasks[h][i]
  OBVIOUS
<1> HIDE DEF rest, more
<1>4. x \in Stations /\ y \in Stations /\ x # y
  BY OnIs, StationsDiffer DEF SentInto
<1>5. /\ On(j)[y] = c /\ On(j)'[y] = d /\ On(j)[x] = e /\ On(j)'[x] = f
  BY <1>1, <1>3, OnIs DEF SentInto, more
<1>6. Unmoved({y, x}, j, tasks, wire, pending, seen, tasks', wire', pending', seen')
  BY <1>1, <1>3 DEF Unmoved, SentInto
<1>7. Loose(c) /\ Loose(e) /\ Ids(c) \cap Ids(e) = {}
  BY <1>4, <1>5 DEF OnceInv, OnceFor, OnceIn
<1>8. ASeq(q) /\ ASeq(old) /\ k \in DOMAIN q /\ ChatIn(ev) = chat
  BY DEF Spawned, SentInto
<1> HIDE DEF q, chat
<1>9. Loose(d) /\ Ids(d) \subseteq Ids(c) /\ Ids(d) \cap chat = {} /\ chat \subseteq Ids(c)
  BY <1>7, <1>8, TaskRowLess DEF rest, chat
<1>10. /\ Ids(f) \subseteq Ids(e) \cup chat
       /\ Loose(e) /\ Ids(e) \cap chat = {} => Loose(f)
  BY <1>8, EventRowMore DEF more
<1> HIDE DEF c, d, e, f, y
<1>11. /\ Loose(d) /\ Loose(f) /\ Ids(d) \cap Ids(f) = {}
       /\ Ids(d) \cup Ids(f) \subseteq Ids(c) \cup Ids(e)
  BY <1>7, <1>9, <1>10
<1>12. Counted' /\ budget'.sends <= budget.sends /\ ASeq(seen'[j].heard)
  BY DEF Counted, OnceInv, OnceFor
<1> QED
  BY <1>4, <1>5, <1>6, <1>11, <1>12, PassedOn

\* A send runs and its message is lost.
LEMMA LostOnce ==
  ASSUME OnceInv, NEW g \in Links, NEW i \in Sides, NEW j \in Sides, j = Peer(i),
         Doubly(tasks), Spawned(tasks[g][i]), NEW k \in DOMAIN tasks[g][i],
         tasks'[g][i] = RemoveAt(tasks[g][i], k),
         \A h \in Links : h # g => tasks'[h][i] = tasks[h][i],
         wire' = wire, pending' = pending,
         seen'[j].heard = seen[j].heard, budget' = budget
  PROVE  OnceFor(j)'
<1> DEFINE q == tasks[g][i]
           rest == RemoveAt(q, k)
           y == TasksAt(g)
           R == On(j)
           S == On(j)'
           n == budget.sends
<1>1. Peer(j) = i
  BY ThePeer
<1>3. /\ tasks'[g][i] = rest
      /\ \A h \in Links : h # g => tasks'[h][i] = tasks[h][i]
  OBVIOUS
<1> HIDE DEF rest
<1>4. y \in Stations /\ R[y] = TaskRow(q) /\ S[y] = TaskRow(rest)
  BY <1>1, <1>3, OnIs
<1>5. Unmoved({y}, j, tasks, wire, pending, seen, tasks', wire', pending', seen')
  BY <1>1, <1>3 DEF Unmoved
<1>6. \A x \in Stations : x = y \/ S[x] = R[x]
  BY <1>5, OthersSame DEF On
<1>7. OnceIn(R, n) /\ n \in Int /\ n <= n /\ ASeq(seen[j].heard)
  BY DEF OnceInv, OnceFor, Counted
<1>8. ASeq(q) /\ k \in DOMAIN q
  BY DEF Spawned
<1> HIDE DEF q, R, S, n, y
<1>9. Loose(TaskRow(q))
  BY <1>4, <1>7 DEF OnceIn
<1>10. Loose(S[y]) /\ Ids(S[y]) \subseteq Ids(R[y])
  BY <1>4, <1>8, <1>9, TaskRowLess DEF rest
<1>11. OnceIn(S, n)
  BY <1>6, <1>7, <1>10, OnceKept
<1> QED
  BY <1>7, <1>11 DEF OnceFor, S, n

LEMMA RunSendOnce ==
  ASSUME PairInv, TalkInv, OnceInv, NEW g \in Links, NEW i \in Sides,
         NEW k \in DOMAIN tasks[g][i], RunSend(g, i, k)
  PROVE  OnceInv'
<1> DEFINE task == tasks[g][i][k]
           to == Peer(i)
           ev == IF task.params = "audio" THEN AudioFrom(i) ELSE BytesFrom(i, task.payload)
<1>1. to \in Sides /\ to # i /\ \A j \in Sides : j = i \/ j = to
  BY ThePeer
<1>2. Doubly(tasks) /\ Spawned(tasks[g][i]) /\ TaskCarries(task)
  BY DEF TalkInv, SpawnedIn, Spawned
<1>3. ChatIn(ev) = ChatOf(task)
  <2> HIDE DEF task
  <2> QED
    BY <1>2, TaskToEvent
<1>4. /\ tasks' = [tasks EXCEPT ![g][i] = RemoveAt(@, k)] /\ budget' = budget
      /\ \/ UNCHANGED <<wire, pending, seen>>
         \/ /\ wire' = [wire EXCEPT ![g][to] = Append(@, ev)]
            /\ UNCHANGED <<pending, seen>>
         \/ /\ pending' = [pending EXCEPT ![g][to] = Append(@, ev)]
            /\ UNCHANGED <<wire, seen>>
         \/ /\ seen' = [seen EXCEPT ![to].dropped = TRUE]
            /\ UNCHANGED <<wire, pending>>
  BY DEF RunSend
<1> HIDE DEF ev, to
<1> DEFINE w == wire[g][to]
           p == pending[g][to]
           moreW == Append(w, ev)
           moreP == Append(p, ev)
<1>5. Doubly(wire) /\ Doubly(pending) /\ ASeq(w) /\ ASeq(p)
  BY <1>1, QueuesDoubly DEF PairInv, Pollable
<1>6. \/ wire' = wire
      \/ wire' = Put(wire, g, to, moreW) /\ pending' = pending /\ seen' = seen
  BY <1>4 DEF Put
<1>7. \/ pending' = pending
      \/ pending' = Put(pending, g, to, moreP) /\ wire' = wire /\ seen' = seen
  BY <1>4 DEF Put
<1>8. \A j \in Sides : seen'[j].heard = seen[j].heard
  <2>1. DOMAIN seen = Sides /\ \A j \in Sides : DOMAIN seen[j] = SeenFields
    BY DEF PairInv, SideOK
  <2> QED
    BY <1>1, <1>4, <2>1 DEF SeenFields
<1> HIDE DEF moreW, moreP
<1>9. /\ \A h \in Links : \A j \in Sides : h # g \/ j # to => wire'[h][j] = wire[h][j]
      /\ wire' = wire \/ wire'[g][to] = moreW
  BY <1>1, <1>5, <1>6, SetAt
<1>10. /\ \A h \in Links : \A j \in Sides : h # g \/ j # to => pending'[h][j] = pending[h][j]
       /\ pending' = pending \/ pending'[g][to] = moreP
  BY <1>1, <1>5, <1>7, SetAt
<1> DEFINE q == tasks[g][i]
           rest == RemoveAt(q, k)
<1>11. /\ tasks'[g][i] = rest
       /\ \A h \in Links : \A j \in Sides : h # g \/ j # i => tasks'[h][j] = tasks[h][j]
  <2>1. tasks' = Put(tasks, g, i, rest)
    BY <1>4 DEF Put
  <2> HIDE DEF rest
  <2> QED
    BY <1>2, <2>1, SetAt
<1>12. OnceFor(i)'
  <2>1. \A h \in Links : tasks'[h][to] = tasks[h][to]
    BY <1>1, <1>11
  <2> QED
    BY <1>1, <1>4, <1>8, <1>9, <1>10, <2>1, StillOnce DEF to
<1>13. \A h \in Links : h # g => tasks'[h][i] = tasks[h][i]
  BY <1>11
<1>14. OnceFor(to)'
  <2>1. CASE wire' = wire /\ pending' = pending
    BY <1>1, <1>2, <1>4, <1>8, <1>11, <1>13, <2>1, LostOnce DEF to
  <2>2. CASE ~(wire' = wire) /\ pending' = pending
    <3> DEFINE x == WireAt(g)
    <3>1. On(to)[x] = EventRow(w) /\ On(to)'[x] = EventRow(Append(w, ev))
      BY <1>9, <2>2, OnIs DEF moreW
    <3>2. \A h \in Links : /\ WireAt(h) = x \/ wire'[h][to] = wire[h][to]
                           /\ PendingAt(h) = x \/ pending'[h][to] = pending[h][to]
      BY <1>1, <1>9, <2>2
    <3> HIDE DEF w
    <3>3. x \in {WireAt(g), PendingAt(g)}
      OBVIOUS
    <3> HIDE DEF x
    <3>4. SentInto(x, g, i, to, k, w, ev)
      BY <1>3, <1>5, <3>1, <3>2, <3>3 DEF SentInto
    <3> QED
      BY <1>1, <1>2, <1>4, <1>8, <1>11, <1>13, <3>4, SentOnce DEF to
  <2>3. CASE wire' = wire /\ ~(pending' = pending)
    <3> DEFINE x == PendingAt(g)
    <3>1. On(to)[x] = EventRow(p) /\ On(to)'[x] = EventRow(Append(p, ev))
      BY <1>10, <2>3, OnIs DEF moreP
    <3>2. \A h \in Links : /\ WireAt(h) = x \/ wire'[h][to] = wire[h][to]
                           /\ PendingAt(h) = x \/ pending'[h][to] = pending[h][to]
      BY <1>1, <1>10, <2>3
    <3> HIDE DEF p
    <3>3. x \in {WireAt(g), PendingAt(g)}
      OBVIOUS
    <3> HIDE DEF x
    <3>4. SentInto(x, g, i, to, k, p, ev)
      BY <1>3, <1>5, <3>1, <3>2, <3>3 DEF SentInto
    <3> QED
      BY <1>1, <1>2, <1>4, <1>8, <1>11, <1>13, <3>4, SentOnce DEF to
  <2> QED
    BY <1>6, <1>7, <2>1, <2>2, <2>3
<1>15. Counted'
  BY <1>4 DEF OnceInv, Counted
<1> QED
  BY <1>1, <1>12, <1>14, <1>15 DEF OnceInv

LEMMA ShrunkOnce ==
  ASSUME OnceInv, NEW j \in Sides, Counted', budget'.sends <= budget.sends,
         ASeq(seen'[j].heard),
         \A x \in Stations : \/ On(j)'[x] = On(j)[x]
                             \/ Loose(On(j)'[x]) /\ Ids(On(j)'[x]) \subseteq Ids(On(j)[x])
  PROVE  OnceFor(j)'
<1> DEFINE R == On(j)
           S == On(j)'
           n == budget.sends
           m == budget'.sends
<1>1. OnceIn(R, n) /\ n \in Int /\ m \in Int /\ m <= n
  BY DEF OnceInv, OnceFor, Counted
<1>2. \A x \in Stations : S[x] = R[x] \/ (Loose(S[x]) /\ Ids(S[x]) \subseteq Ids(R[x]))
  OBVIOUS
<1> HIDE DEF R, S, n, m
<1>3. OnceIn(S, m)
  BY <1>1, <1>2, OnceKept
<1> QED
  BY <1>3 DEF OnceFor, S, m

LEMMA NoRow ==
  /\ Loose(TaskRow(<<>>)) /\ Ids(TaskRow(<<>>)) = {}
  /\ Loose(EventRow(<<>>)) /\ Ids(EventRow(<<>>)) = {}
<1>1. DOMAIN TaskRow(<<>>) = {} /\ DOMAIN EventRow(<<>>) = {}
  BY NoSequence DEF TaskRow, EventRow
<1> QED
  BY <1>1 DEF Loose, Ids

\* Queues are emptied, or a failure enters one.
LEMMA LeftOnce ==
  ASSUME PairInv, OnceInv, NEW j \in Sides, Counted', budget'.sends <= budget.sends,
         \A h \in Links :
           /\ tasks'[h][Peer(j)] \in {<<>>, tasks[h][Peer(j)]}
           /\ wire'[h][j] \in {<<>>, wire[h][j]}
           /\ pending'[h][j] \in
                {<<>>, pending[h][j], Append(pending[h][j], FailureOf(Peer(j)))},
         seen'[j].heard = seen[j].heard
  PROVE  OnceFor(j)'
<1> DEFINE Less(S, R) == S = R \/ (Loose(S) /\ Ids(S) \subseteq Ids(R))
<1>1. \A q : Less(TaskRow(<<>>), q) /\ Less(EventRow(<<>>), q)
  BY NoRow
<1>2. ASSUME NEW h \in Links
      PROVE  Less(EventRow(Append(pending[h][j], FailureOf(Peer(j)))), EventRow(pending[h][j]))
  <2> DEFINE p == pending[h][j]
             f == FailureOf(Peer(j))
             c == EventRow(p)
             e == EventRow(Append(p, f))
  <2>1. ASeq(p)
    BY QueuesDoubly DEF PairInv, Pollable
  <2>2. ChatIn(f) = {}
    BY DEF ChatIn, FailureOf
  <2>3. Loose(c)
    BY OnIs DEF OnceInv, OnceFor, OnceIn
  <2> HIDE DEF p, f
  <2>4. /\ Ids(e) \subseteq Ids(c) \cup ChatIn(f)
        /\ Loose(c) /\ Ids(c) \cap ChatIn(f) = {} => Loose(e)
    BY <2>1, EventRowMore
  <2> HIDE DEF c, e
  <2>5. Less(e, c)
    BY <2>2, <2>3, <2>4
  <2> QED
    BY <2>5 DEF c, e, p, f
<1>3. ASSUME NEW h \in Links
      PROVE  /\ Less(On(j)'[TasksAt(h)], On(j)[TasksAt(h)])
             /\ Less(On(j)'[WireAt(h)], On(j)[WireAt(h)])
             /\ Less(On(j)'[PendingAt(h)], On(j)[PendingAt(h)])
  <2> HIDE DEF Less
  <2>1. \A S : Less(S, S)
    BY DEF Less
  <2>2. /\ TaskRow(tasks'[h][Peer(j)]) \in {TaskRow(<<>>), TaskRow(tasks[h][Peer(j)])}
        /\ EventRow(wire'[h][j]) \in {EventRow(<<>>), EventRow(wire[h][j])}
        /\ EventRow(pending'[h][j]) \in
             {EventRow(<<>>), EventRow(pending[h][j]),
              EventRow(Append(pending[h][j], FailureOf(Peer(j))))}
    OBVIOUS
  <2>3. /\ Less(TaskRow(tasks'[h][Peer(j)]), TaskRow(tasks[h][Peer(j)]))
        /\ Less(EventRow(wire'[h][j]), EventRow(wire[h][j]))
        /\ Less(EventRow(pending'[h][j]), EventRow(pending[h][j]))
    BY <1>1, <1>2, <2>1, <2>2
  <2> QED
    BY <2>3, OnIs
<1>4. On(j)'[HeardAt] = On(j)[HeardAt]
  BY OnHeard
<1>5. ASSUME NEW x \in Stations PROVE Less(On(j)'[x], On(j)[x])
  <2> HIDE DEF Less
  <2>1. CASE x = HeardAt
    BY <1>4, <2>1 DEF Less
  <2>2. ASSUME NEW h \in Links, x \in {TasksAt(h), WireAt(h), PendingAt(h)}
        PROVE  Less(On(j)'[x], On(j)[x])
    BY <1>3, <2>2
  <2> QED
    BY <2>1, <2>2, StationIs
<1>6. ASeq(seen'[j].heard)
  BY DEF OnceInv, OnceFor
<1> QED
  BY <1>5, <1>6, ShrunkOnce

LEMMA Spent ==
  ASSUME Counted, NEW what \in {"joins", "sends", "troubles"}, Spend(what)
  PROVE  /\ Counted' /\ budget'.sends <= budget.sends
         /\ what = "sends" => budget'.sends < budget.sends
<1> DEFINE n == budget[what]
<1>1. n > 0 /\ budget' = [budget EXCEPT ![what] = n - 1]
  BY DEF Spend
<1>2. CASE what = "sends"
  <2>1. n \in Nat /\ n = budget.sends
    BY <1>2 DEF Counted
  <2> HIDE DEF n
  <2>2. budget'.sends = n - 1 /\ DOMAIN budget' = DOMAIN budget
    BY <1>1, <1>2 DEF Counted
  <2> QED
    BY <1>1, <2>1, <2>2 DEF Counted
<1>3. CASE what # "sends"
  <2> HIDE DEF n
  <2>1. budget'.sends = budget.sends /\ DOMAIN budget' = DOMAIN budget
    BY <1>1, <1>3 DEF Counted
  <2> QED
    BY <1>3, <2>1 DEF Counted
<1> QED
  BY <1>2, <1>3

LEMMA Unspent ==
  ASSUME Counted, budget' = budget
  PROVE  Counted' /\ budget'.sends <= budget.sends
BY DEF Counted

LEMMA ClosingOnce ==
  ASSUME PairInv, TalkInv, OnceInv, NEW g \in Links, NEW ends, Closing(g, ends),
         Counted', budget'.sends <= budget.sends,
         \A j \in Sides : seen'[j].heard = seen[j].heard
  PROVE  OnceInv'
<1> DEFINE new == [i \in Sides |->
                 IF i \notin ends THEN <<>>
                 ELSE IF g \in closed THEN pending[g][i]
                 ELSE Append(pending[g][i], FailureOf(Peer(i)))]
           none == [i \in Sides |-> <<>>]
<1>1. /\ tasks' = [tasks EXCEPT ![g] = none] /\ wire' = [wire EXCEPT ![g] = none]
      /\ pending' = [pending EXCEPT ![g] = new]
  BY DEF Closing
<1>2. Doubly(tasks) /\ Doubly(wire) /\ Doubly(pending)
  BY QueuesDoubly DEF PairInv, TalkInv, SpawnedIn
<1>3. ASSUME NEW j \in Sides
      PROVE  new[j] \in {<<>>, pending[g][j], Append(pending[g][j], FailureOf(Peer(j)))}
  OBVIOUS
<1>4. \A j \in Sides : none[j] = <<>>
  OBVIOUS
<1> HIDE DEF new, none
<1>5. ASSUME NEW j \in Sides, NEW h \in Links
      PROVE  /\ tasks'[h][Peer(j)] \in {<<>>, tasks[h][Peer(j)]}
             /\ wire'[h][j] \in {<<>>, wire[h][j]}
             /\ pending'[h][j] \in
                  {<<>>, pending[h][j], Append(pending[h][j], FailureOf(Peer(j)))}
  <2>1. Peer(j) \in Sides
    BY ThePeer
  <2>2. CASE h = g
    <3>1. tasks'[h] = none /\ wire'[h] = none /\ pending'[h] = new
      BY <1>1, <1>2, <2>2 DEF Doubly
    <3> QED
      BY <1>3, <1>4, <2>1, <2>2, <3>1
  <2>3. CASE h # g
    <3>1. tasks'[h] = tasks[h] /\ wire'[h] = wire[h] /\ pending'[h] = pending[h]
      BY <1>1, <1>2, <2>3 DEF Doubly
    <3> QED
      BY <3>1
  <2> QED
    BY <2>2, <2>3
<1>6. \A j \in Sides : OnceFor(j)'
  BY <1>5, LeftOnce
<1> QED
  BY <1>6 DEF OnceInv

LEMMA RebindOnce ==
  ASSUME PairInv, TalkInv, OnceInv, NEW i \in Sides, Rebind(i)
  PROVE  OnceInv'
<1>1. bound[i] \in Links /\ DOMAIN seen = Sides
  BY DEF PairInv
<1>2. \A j \in Sides : seen'[j].heard = seen[j].heard
  <2>1. \A j \in Sides : DOMAIN seen[j] = SeenFields
    BY DEF PairInv, SideOK
  <2> QED
    BY <1>1, <2>1 DEF Rebind, SeenFields
<1>3. PICK ends : Closing(bound[i], ends)
  BY DEF Rebind
<1>4. Counted' /\ budget'.sends <= budget.sends
  BY Unspent DEF Rebind, OnceInv
<1> QED
  BY <1>1, <1>2, <1>3, <1>4, ClosingOnce

LEMMA ShutdownOnce ==
  ASSUME PairInv, TalkInv, OnceInv, NEW g \in Links, Shutdown(g)
  PROVE  OnceInv'
<1>1. Counted' /\ budget'.sends <= budget.sends
  BY Spent DEF Shutdown, OnceInv
<1>2. \A j \in Sides : seen'[j].heard = seen[j].heard
  BY DEF Shutdown
<1> QED
  BY <1>1, <1>2, ClosingOnce DEF Shutdown

LEMMA FailureOnce ==
  ASSUME PairInv, OnceInv, NEW g \in Links, NEW i \in Sides, ReportFailure(g, i)
  PROVE  OnceInv'
<1>1. Counted' /\ budget'.sends <= budget.sends
  BY Spent DEF ReportFailure, OnceInv
<1> DEFINE q == Append(pending[g][i], FailureOf(Peer(i)))
<1>2. /\ pending' = Put(pending, g, i, q)
      /\ tasks' = tasks /\ wire' = wire /\ seen' = seen
  BY DEF ReportFailure, Put
<1> HIDE DEF q
<1>3. /\ pending'[g][i] = q
      /\ \A h \in Links : \A j \in Sides : h # g \/ j # i => pending'[h][j] = pending[h][j]
  BY <1>2, QueuesDoubly, SetAt DEF PairInv
<1>4. ASSUME NEW j \in Sides PROVE OnceFor(j)'
  <2>1. \A h \in Links :
          pending'[h][j] \in
            {<<>>, pending[h][j], Append(pending[h][j], FailureOf(Peer(j)))}
    BY <1>3 DEF q
  <2> QED
    BY <1>1, <1>2, <2>1, LeftOnce
<1> QED
  BY <1>1, <1>4 DEF OnceInv

LEMMA QuietOnce ==
  ASSUME OnceInv, UNCHANGED <<tasks, wire, pending, seen, budget>>
  PROVE  OnceInv'
BY DEF OnceInv, OnceFor, On, Counted

(***************************************************************************)
(* What a drain makes the application hear.                                *)
(***************************************************************************)
LEMMA HeardFrom ==
  ASSUME NEW q, Pollable(q), Loose(EventRow(q)), NEW events,
         ToldFrom(events, q, Len(q)), Apart(q) => ToldOnce(events),
         NEW more, Hears(more, events)
  PROVE  Loose(HeardRow(more)) /\ Ids(HeardRow(more)) \subseteq Ids(EventRow(q))
<1> DEFINE c == EventRow(q)
           e == HeardRow(more)
<1>1. DOMAIN q = 1 .. Len(q)
  BY ASeqFacts DEF Pollable
<1>2. DOMAIN c = DOMAIN q /\ \A k \in DOMAIN q : c[k] = ChatIn(q[k])
  BY DEF EventRow
<1>3. DOMAIN e = DOMAIN more /\ \A k \in DOMAIN more : e[k] = {more[k]}
  BY DEF HeardRow
<1>4. Apart(q)
  BY <1>2 DEF Apart, Loose
<1> HIDE DEF c, e
<1>5. IsInjective(more)
  BY <1>4 DEF Hears
<1>6. Loose(e)
  BY <1>3, <1>5 DEF Loose, IsInjective
<1>7. ASSUME NEW x \in Ids(e) PROVE x \in Ids(c)
  <2>1. PICK k \in DOMAIN more : x = more[k]
    BY <1>3, InIds
  <2>2. PICK l \in DOMAIN events : events[l].type = "ChatReceived" /\ x = events[l].about
    BY <2>1 DEF Hears
  <2>3. PICK j \in 1 .. Len(q) : x \in ChatIn(q[j])
    BY <2>2 DEF ToldFrom
  <2> QED
    BY <1>1, <1>2, <2>3, InIds
<1> QED
  BY <1>6, <1>7 DEF c, e

LEMMA NothingHeard ==
  ASSUME NEW events, NoChats(events), NEW more, Hears(more, events)
  PROVE  Ids(HeardRow(more)) = {} /\ Loose(HeardRow(more))
<1>1. DOMAIN more = {}
  BY DEF NoChats, Hears
<1>2. DOMAIN HeardRow(more) = {}
  BY <1>1 DEF HeardRow
<1> QED
  BY <1>2 DEF Ids, Loose

\* Side i reads its queue.
Reads(i, g, q, events, more) ==
  /\ q = pending[g][i]
  /\ ToldFrom(events, q, Len(q)) /\ (Apart(q) => ToldOnce(events))
  /\ Hears(more, events)
  /\ seen'[i].heard = seen[i].heard \o more
  /\ \A h \in Links : /\ tasks'[h][Peer(i)] = tasks[h][Peer(i)]
                      /\ wire'[h][i] = wire[h][i]
                      /\ h # g => pending'[h][i] = pending[h][i]
  /\ \/ pending'[g][i] = <<>>
     \/ NoChats(events) /\ pending'[g][i] = q

LEMMA ReadOnce ==
  ASSUME PairInv, OnceInv, NEW i \in Sides, NEW g \in Links,
         Counted', budget'.sends <= budget.sends,
         NEW q, NEW events, NEW more, Reads(i, g, q, events, more)
  PROVE  OnceFor(i)'
<1> DEFINE x == PendingAt(g)
           y == HeardAt
           heard == seen[i].heard
           c == HeardRow(heard)
           d == HeardRow(more)
           e == HeardRow(heard \o more)
           f == EventRow(q)
<1>1. /\ x \in Stations /\ y \in Stations /\ x # y
      /\ On(i)[x] = f /\ On(i)[y] = c
  BY OnIs, OnHeard, StationsDiffer DEF Reads
<1>2. On(i)'[y] = e
  BY OnHeard DEF Reads
<1>3. Pollable(q)
  BY QueuesDoubly DEF PairInv, Reads
<1>4. Loose(c) /\ Loose(f) /\ Ids(c) \cap Ids(f) = {} /\ ASeq(heard)
  BY <1>1 DEF OnceInv, OnceFor, OnceIn
<1>5. ASeq(more) /\ Loose(d) /\ Ids(d) \subseteq Ids(f)
  BY <1>3, <1>4, HeardFrom DEF Reads, Hears
<1>6. NoChats(events) => Ids(d) = {}
  BY NothingHeard DEF Reads
<1>7. seen'[i].heard = heard \o more /\ ASeq(seen'[i].heard)
  BY <1>4, <1>5, JoinedSeq DEF Reads
<1>8. Unmoved({x, y}, i, tasks, wire, pending, seen, tasks', wire', pending', seen')
  BY DEF Unmoved, Reads
<1> HIDE DEF heard
<1>9. /\ Ids(e) \subseteq Ids(c) \cup Ids(d)
      /\ Loose(c) /\ Loose(d) /\ Ids(c) \cap Ids(d) = {} => Loose(e)
  BY <1>4, <1>5, HeardRowMore
<1> HIDE DEF c, d, e, f, y
<1>10. Loose(e) /\ Ids(e) \subseteq Ids(c) \cup Ids(f)
  BY <1>4, <1>5, <1>9
<1>11. \/ Loose(On(i)'[x]) /\ Ids(On(i)'[x]) = {}
       \/ On(i)'[x] = f /\ Ids(e) \subseteq Ids(c)
  <2>1. CASE pending'[g][i] = <<>>
    BY <2>1, NoRow, OnIs
  <2>2. CASE NoChats(events) /\ pending'[g][i] = q
    BY <1>6, <1>9, <2>2, OnIs DEF f
  <2> QED
    BY <2>1, <2>2 DEF Reads
<1> HIDE DEF x
<1>12. /\ Loose(On(i)'[x]) /\ Loose(On(i)'[y])
       /\ Ids(On(i)'[x]) \cap Ids(On(i)'[y]) = {}
       /\ Ids(On(i)'[x]) \cup Ids(On(i)'[y]) \subseteq Ids(On(i)[x]) \cup Ids(On(i)[y])
  BY <1>1, <1>2, <1>4, <1>10, <1>11
<1> QED
  BY <1>1, <1>7, <1>8, <1>12, PassedOn

LEMMA PollOnce ==
  ASSUME PairInv, TalkInv, OnceInv, NEW i \in Sides, PollOnly(i)
  PROVE  OnceInv'
<1> DEFINE g == bound[i]
           q == pending[g][i]
           s == syncer[i]
           v == seen[i]
           r == Drain(s, q)
           view == Tell(v, i, q, r.events)
<1>1. g \in Links /\ DOMAIN seen = Sides
  BY DEF PairInv
<1>2. Pollable(q) /\ Cargo(q)
  BY <1>1, QueuesDoubly DEF PairInv, TalkInv, CargoIn
<1>3. SideOK(i, s, v) /\ Sound(s)
  BY DEF PairInv, TalkInv, Understands
<1>4. /\ seen' = [seen EXCEPT ![i] = view]
      /\ UNCHANGED <<wire, tasks, budget>>
      /\ pending' = Put(pending, g, i, <<>>)
  BY DEF PollOnly, Put
<1>5. /\ seen'[i] = view /\ \A j \in Sides : j # i => seen'[j] = seen[j]
  BY <1>1, <1>4
<1>6. q = pending[g][i] /\ v = seen[i]
  OBVIOUS
<1> HIDE DEF q, s, v, g
<1>7. /\ pending'[g][i] = <<>>
      /\ \A h \in Links : \A j \in Sides : h # g \/ j # i => pending'[h][j] = pending[h][j]
  BY <1>1, <1>4, QueuesDoubly, SetAt DEF PairInv
<1>8. /\ Fine(r.events) /\ ToldFrom(r.events, q, Len(q))
      /\ Apart(q) => ToldOnce(r.events)
  BY <1>2, <1>3, DrainYields DEF SideOK, Sound
<1> DEFINE events == r.events
<1> HIDE DEF r
<1>9. PICK more : view.heard = v.heard \o more /\ Hears(more, events)
  <2>1. DOMAIN v = SeenFields /\ Fine(events)
    BY <1>3, <1>8 DEF SideOK
  <2>2. view = Tell(v, i, q, events)
    OBVIOUS
  <2> HIDE DEF view, events
  <2> QED
    BY <2>1, <2>2, TellYields
<1> HIDE DEF view, events
<1>10. Reads(i, g, q, events, more)
  BY <1>4, <1>5, <1>6, <1>7, <1>8, <1>9 DEF Reads, events
<1>11. Counted' /\ budget'.sends <= budget.sends
  BY <1>4, Unspent DEF OnceInv
<1>12. OnceFor(i)'
  BY <1>1, <1>10, <1>11, ReadOnce
<1>13. ASSUME NEW j \in Sides, j # i PROVE OnceFor(j)'
  BY <1>4, <1>5, <1>7, <1>13, StillOnce
<1> QED
  BY <1>11, <1>12, <1>13 DEF OnceInv

\* The chat of a request is spawned once for the other side.
LEMMA TakenOnce ==
  ASSUME NEW i \in Sides, NEW g, NEW req, NEW sends, Dispatch(i, req, sends)
  PROVE  LET taken == Selected(sends, {k \in DOMAIN sends : Accepted(g, i, sends[k])})
         IN  ASeq(taken) /\ Loose(TaskRow(taken)) /\ Ids(TaskRow(taken)) \subseteq Uttered(req)
<1> DEFINE K == {k \in DOMAIN sends : Accepted(g, i, sends[k])}
           taken == Selected(sends, K)
           d == TaskRow(taken)
<1>1. ASeq(sends) /\ K \in SUBSET DOMAIN sends
  BY DEF Dispatch
<1>2. \A k \in K : sends[k].to \in {i, Peer(i)}
  BY DEF Accepted
<1> HIDE DEF K
<1>3. /\ ASeq(taken)
      /\ \E f : /\ \A k \in DOMAIN taken : f[k] \in K /\ taken[k] = sends[f[k]]
                /\ \A j, k \in DOMAIN taken : f[j] = f[k] => j = k
  BY <1>1, SelectedSends
<1> HIDE DEF taken
<1>4. PICK f : /\ \A k \in DOMAIN taken : f[k] \in K /\ taken[k] = sends[f[k]]
               /\ \A j, k \in DOMAIN taken : f[j] = f[k] => j = k
  BY <1>3
<1>5. DOMAIN d = DOMAIN taken /\ \A k \in DOMAIN taken : d[k] = ChatOf(sends[f[k]])
  BY <1>4 DEF TaskRow
<1> HIDE DEF d
<1>6. Loose(d)
  <2> SUFFICES ASSUME NEW j \in DOMAIN taken, NEW k \in DOMAIN taken, d[j] \cap d[k] # {}
               PROVE  j = k
    BY <1>5 DEF Loose
  <2>1. /\ f[j] \in K /\ f[k] \in K
        /\ ChatOf(sends[f[j]]) # {} /\ ChatOf(sends[f[k]]) # {}
    BY <1>4, <1>5
  <2>2. sends[f[j]].to = Peer(i) /\ sends[f[k]].to = Peer(i)
    BY <1>1, <1>2, <2>1 DEF Dispatch
  <2>3. f[j] = f[k]
    BY <1>1, <2>1, <2>2 DEF Dispatch
  <2> QED
    BY <1>4, <2>3
<1>7. ASSUME NEW x \in Ids(d) PROVE x \in Uttered(req)
  <2>1. PICK k \in DOMAIN taken : x \in ChatOf(sends[f[k]])
    BY <1>5, InIds
  <2>2. f[k] \in DOMAIN sends
    BY <1>1, <1>4
  <2> QED
    BY <2>1, <2>2 DEF Dispatch
<1> QED
  BY <1>3, <1>6, <1>7 DEF d, taken, K

LEMMA SpawnOnce ==
  ASSUME TalkInv, OnceInv, NEW i \in Sides, NEW g \in Links, NEW j \in Sides, j = Peer(i),
         NEW taken, ASeq(taken), Loose(TaskRow(taken)), NEW new,
         Ids(TaskRow(taken)) \subseteq new,
         new \subseteq {budget.sends}, new # {} => budget'.sends < budget.sends,
         Counted', budget'.sends <= budget.sends,
         tasks' = Put(tasks, g, i, tasks[g][i] \o taken),
         \A h \in Links : wire'[h][j] = wire[h][j] /\ pending'[h][j] = pending[h][j],
         seen'[j].heard = seen[j].heard
  PROVE  OnceFor(j)'
<1> DEFINE q == tasks[g][i]
           r == q \o taken
           y == TasksAt(g)
           c == TaskRow(q)
           d == TaskRow(taken)
           e == TaskRow(r)
           R == On(j)
           S == On(j)'
           n == budget.sends
           m == budget'.sends
<1>1. Peer(j) = i
  BY ThePeer
<1>2. Doubly(tasks) /\ ASeq(q)
  BY DEF TalkInv, SpawnedIn, Spawned
<1>3. tasks' = Put(tasks, g, i, r)
  OBVIOUS
<1> HIDE DEF q, r
<1>4. /\ tasks'[g][i] = r
      /\ \A h \in Links : \A k \in Sides : h # g \/ k # i => tasks'[h][k] = tasks[h][k]
  BY <1>2, <1>3, SetAt
<1>5. y \in Stations /\ R[y] = c /\ S[y] = e
  BY <1>1, <1>4, OnIs DEF q
<1>6. Unmoved({y}, j, tasks, wire, pending, seen, tasks', wire', pending', seen')
  BY <1>1, <1>4 DEF Unmoved
<1>7. \A x \in Stations : x = y \/ S[x] = R[x]
  BY <1>6, OthersSame DEF On
<1>8. OnceIn(R, n) /\ n \in Int /\ m \in Int /\ ASeq(seen'[j].heard)
  BY DEF OnceInv, OnceFor, Counted
<1> HIDE DEF R, S, n, y
<1>9. /\ Ids(e) \subseteq Ids(c) \cup Ids(d)
      /\ Loose(c) /\ Loose(d) /\ Ids(c) \cap Ids(d) = {} => Loose(e)
  BY <1>2, TaskRowMore DEF r
<1>10. Loose(c) /\ n \notin Ids(c)
  BY <1>5, <1>8 DEF OnceIn
<1>11. Loose(e) /\ Ids(e) \subseteq Ids(c) \cup new /\ new \subseteq {n}
  <2>1. Ids(d) \subseteq new /\ Loose(d) /\ new \subseteq {n}
    BY DEF n
  <2> HIDE DEF c, d, e
  <2> QED
    BY <1>9, <1>10, <2>1
<1> HIDE DEF c, d, e
<1>12. CASE new = {}
  <2>1. \A x \in Stations : S[x] = R[x] \/ (Loose(S[x]) /\ Ids(S[x]) \subseteq Ids(R[x]))
    BY <1>5, <1>7, <1>11, <1>12
  <2> QED
    BY <1>8, <2>1, ShrunkOnce DEF R, S
<1>13. CASE new # {}
  <2>1. m < n
    BY <1>13 DEF n
  <2>2. \A z \in Stations : z # y => S[z] = R[z]
    BY <1>7
  <2>3. Loose(S[y]) /\ Ids(S[y]) \subseteq Ids(R[y]) \cup {n}
    BY <1>5, <1>11
  <2> HIDE DEF m
  <2>4. OnceIn(S, m)
    BY <1>5, <1>8, <2>1, <2>2, <2>3, OnceFresh
  <2> QED
    BY <1>8, <2>4 DEF OnceFor, S, m
<1> QED
  BY <1>12, <1>13

LEMMA HandleOnce ==
  ASSUME PairInv, TalkInv, OnceInv, NEW i \in Sides, NEW req, Requested(i, req),
         Handle(i, req), Counted', budget'.sends <= budget.sends,
         Uttered(req) \subseteq {budget.sends},
         Uttered(req) # {} => budget'.sends < budget.sends
  PROVE  OnceInv'
<1> DEFINE g == bound[i]
           q == pending[g][i]
           s == syncer[i]
           v == seen[i]
           before == Drain(s, q)
           request == Request(i, before.syncer, req)
           after == Drain(request.syncer, IF s.joined THEN <<>> ELSE q)
           events == before.events \o request.events \o after.events
           drained == after.syncer.joined
           polled == IF drained THEN q ELSE <<>>
           report == Tell(v, i, polled, events)
           sends == request.sends
           taken == Selected(sends, {k \in DOMAIN sends : Accepted(g, i, sends[k])})
<1>1. PICK flag : seen' = [seen EXCEPT ![i] = [report EXCEPT !.announced = flag]]
  <2> HIDE DEF report
  <2> QED
    BY DEF Handle, report
<1> DEFINE view == [report EXCEPT !.announced = flag]
<1>2. g \in Links /\ DOMAIN seen = Sides
  BY DEF PairInv
<1>3. Pollable(q) /\ Cargo(q)
  BY <1>2, QueuesDoubly DEF PairInv, TalkInv, CargoIn
<1>4. SideOK(i, s, v) /\ Sound(s)
  BY DEF PairInv, TalkInv, Understands
<1>5. /\ pending' = IF drained THEN Put(pending, g, i, <<>>) ELSE pending
      /\ tasks' = Put(tasks, g, i, tasks[g][i] \o taken)
      /\ wire' = wire
  BY DEF Handle, Put
<1>6. seen' = [seen EXCEPT ![i] = view]
  BY <1>1
<1>7. q = pending[g][i] /\ v = seen[i]
  OBVIOUS
<1> HIDE DEF q, s, v, g
<1>8. /\ Dispatch(i, req, sends)
      /\ Fine(events) /\ ToldFrom(events, q, Len(q))
      /\ Apart(q) => ToldOnce(events)
      /\ ~drained => NoChats(events)
  BY <1>3, <1>4, HandledYields DEF SideOK
<1> HIDE DEF after, sends, events
<1>9. ASeq(taken) /\ Loose(TaskRow(taken)) /\ Ids(TaskRow(taken)) \subseteq Uttered(req)
  BY <1>8, TakenOnce
<1>10. DOMAIN report = SeenFields
  BY <1>4, Telling DEF SideOK
<1>11. PICK more : report.heard = v.heard \o more /\ Hears(more, events)
  BY <1>4, <1>8, TellYields DEF SideOK
<1> HIDE DEF report, taken
<1>12. view.heard = v.heard \o more
  BY <1>10, <1>11 DEF SeenFields
<1> HIDE DEF view, drained
<1>13. seen'[i] = view /\ \A j \in Sides : j # i => seen'[j] = seen[j]
  BY <1>2, <1>6
<1>14. /\ IF drained THEN pending'[g][i] = <<>> ELSE pending'[g][i] = pending[g][i]
       /\ \A h \in Links : \A j \in Sides : h # g \/ j # i => pending'[h][j] = pending[h][j]
  <2>1. CASE drained
    BY <1>2, <1>5, <2>1, QueuesDoubly, SetAt DEF PairInv
  <2>2. CASE ~drained
    BY <1>5, <2>2
  <2> QED
    BY <2>1, <2>2
<1> DEFINE grown == tasks[g][i] \o taken
<1>15. \A h \in Links : \A j \in Sides : h # g \/ j # i => tasks'[h][j] = tasks[h][j]
  <2>1. Doubly(tasks) /\ tasks' = Put(tasks, g, i, grown)
    BY <1>5 DEF TalkInv, SpawnedIn
  <2> HIDE DEF grown
  <2> QED
    BY <1>2, <2>1, SetAt
<1>16. Peer(i) \in Sides /\ Peer(i) # i /\ \A j \in Sides : j = i \/ j = Peer(i)
  BY ThePeer
<1>17. OnceFor(i)'
  <2>1. Reads(i, g, q, events, more)
    BY <1>5, <1>7, <1>8, <1>11, <1>12, <1>13, <1>14, <1>15, <1>16 DEF Reads
  <2> QED
    BY <1>2, <2>1, ReadOnce
<1>18. OnceFor(Peer(i))'
  <2> DEFINE j == Peer(i)
  <2>1. /\ \A h \in Links : wire'[h][j] = wire[h][j] /\ pending'[h][j] = pending[h][j]
        /\ seen'[j].heard = seen[j].heard
    BY <1>5, <1>13, <1>14, <1>16
  <2> QED
    BY <1>2, <1>5, <1>9, <1>16, <2>1, SpawnOnce
<1> QED
  BY <1>16, <1>17, <1>18 DEF OnceInv

LEMMA OnceStep == PairInv /\ TalkInv /\ OnceInv /\ [Next]_vars => OnceInv'
<1> SUFFICES ASSUME PairInv, TalkInv, OnceInv, [Next]_vars PROVE OnceInv'
  OBVIOUS
<1>1. CASE UNCHANGED vars
  BY <1>1, QuietOnce DEF vars
<1>2. CASE \E g \in Links, i \in Sides : Transport(g, i)
  <2>1. PICK g \in Links, i \in Sides : Transport(g, i)
    BY <1>2
  <2>2. CASE \E ch \in Channels : OpenChannel(g, i, ch)
    BY <2>2, QuietOnce DEF OpenChannel
  <2>3. CASE ReportFailure(g, i)
    BY <2>3, FailureOnce
  <2>4. CASE \E k \in DOMAIN tasks[g][i] : RunSend(g, i, k)
    BY <2>4, RunSendOnce
  <2>5. CASE Arrive(g, i)
    BY <2>5, ArriveOnce
  <2> QED
    BY <2>1, <2>2, <2>3, <2>4, <2>5 DEF Transport
<1>3. CASE \E g \in Links : Shutdown(g)
  BY <1>3, ShutdownOnce
<1>4. CASE \E i \in Sides : \/ Rebind(i) \/ Join(i) \/ PollOnly(i)
                            \/ SendPose(i) \/ SendChat(i) \/ SendVoiceFrame(i)
  <2>1. PICK i \in Sides : \/ Rebind(i) \/ Join(i) \/ PollOnly(i)
                           \/ SendPose(i) \/ SendChat(i) \/ SendVoiceFrame(i)
    BY <1>4
  <2>2. CASE Rebind(i)
    BY <2>2, RebindOnce
  <2>3. CASE PollOnly(i)
    BY <2>3, PollOnce
  <2>4. CASE Join(i)
    <3>1. PICK req : Requested(i, req) /\ Uttered(req) = {} /\ Handle(i, req)
      BY <2>4, JoinRequested
    <3>2. Counted' /\ budget'.sends <= budget.sends
      BY <2>4, Spent DEF Join, OnceInv
    <3> QED
      BY <3>1, <3>2, HandleOnce
  <2>5. CASE SendPose(i) \/ SendVoiceFrame(i)
    <3>1. PICK req : /\ Requested(i, req) /\ Handle(i, req)
                     /\ Uttered(req) = {} /\ Spend("sends")
      BY <2>5, QuietRequested
    <3>2. Counted' /\ budget'.sends <= budget.sends
      BY <3>1, Spent DEF OnceInv
    <3> QED
      BY <3>1, <3>2, HandleOnce
  <2>6. CASE SendChat(i)
    <3>1. PICK req : /\ Requested(i, req) /\ Handle(i, req)
                     /\ Uttered(req) = {budget.sends} /\ Spend("sends")
      BY <2>6, ChatRequested
    <3>2. Counted' /\ budget'.sends <= budget.sends /\ budget'.sends < budget.sends
      BY <3>1, Spent DEF OnceInv
    <3> QED
      BY <3>1, <3>2, HandleOnce
  <2> QED
    BY <2>1, <2>2, <2>3, <2>4, <2>5, <2>6
<1> QED
  BY <1>1, <1>2, <1>3, <1>4 DEF Next

(***************************************************************************)
(* A chat is heard at most once and never by its sender, however many      *)
(* participants share a table, and over any number of new transports.      *)
(* route_common addresses a message to each other participant (router.rs   *)
(* lines 68 to 117), send drops what is for neither end of its connection  *)
(* (webrtc_transport.rs lines 737 to 763), and from there a chat is in one *)
(* place only: a spawned send, the channel, a queue, or heard.             *)
(***************************************************************************)
THEOREM ChatsAreHeardOnce == Spec => []ChatOncePerPeer
<1>1. OnceInv => ChatOncePerPeer
  <2> SUFFICES ASSUME OnceInv, NEW j \in Sides PROVE IsInjective(seen[j].heard)
    BY DEF ChatOncePerPeer
  <2> DEFINE q == seen[j].heard
             c == HeardRow(q)
  <2>1. Loose(c)
    BY OnHeard DEF OnceInv, OnceFor, OnceIn
  <2>2. DOMAIN c = DOMAIN q /\ \A k \in DOMAIN q : c[k] = {q[k]}
    BY DEF HeardRow
  <2> HIDE DEF c, q
  <2>3. IsInjective(q)
    BY <2>1, <2>2 DEF Loose, IsInjective
  <2> QED
    BY <2>3 DEF q
<1>2. Init => OnceInv
  BY OnceStarts
<1>3. (PairInv /\ TalkInv) /\ OnceInv /\ [Next]_vars => OnceInv'
  BY OnceStep
<1> QED
  BY <1>1, <1>2, <1>3, TalkAlways, PTL DEF Spec
===============================================================================
