-------------------------- MODULE SignalingAdapter --------------------------
(***************************************************************************)
(* The boundary between the Bloom server and the syncer                    *)
(* (syncer/src/signaling_adapter.rs).  Messages of the server wait in the  *)
(* inbox; poll turns each into a signaling message of the syncer, in the   *)
(* adapter's own room, and answers a second offer of a participant by      *)
(* closing its old peer connection.                                        *)
(***************************************************************************)
EXTENDS SyncMessages, SequencesExt

CONSTANTS
  Peers,        \* participants whose id parses
  NotAnId,      \* a from that ParticipantId::from_str refuses
  Contexts,     \* the lengths of room id, token and ICE policy it may run with
  Payloads,     \* the lengths of SDP and candidate a message may carry
  MaxInbox      \* bound: the server's messages between two polls

VARIABLES
  context,      \* SignalingContext
  inbox,        \* messages pushed since the last poll
  active,       \* active_participants
  told,         \* the events of a poll, until the next push
  sessions      \* per peer, the offers let through and not closed since

adapterVars == <<context, inbox, active, told, sessions>>

AdapterInit ==
  /\ context \in Contexts
  /\ inbox = <<>>
  /\ active = {}
  /\ told = <<>>
  /\ sessions = [p \in Peers |-> 0]

(***************************************************************************)
(* send_offer, send_answer and send_ice on the sender's side, as the       *)
(* server hands them on: only the SDP or the candidate crosses the server, *)
(* room, token, policy and the sdpMid of a candidate do not.               *)
(***************************************************************************)
Relayed(from, type, payload) ==
  [from |-> from, type |-> type, sdp |-> payload.sdp,
   candidate |-> payload.candidate]

PushIncoming ==
  /\ Len(inbox) < MaxInbox
  /\ \E from \in Peers \cup {NotAnId}, payload \in Payloads,
        type \in SignalingTypes \cup {"other"} :
       inbox' = Append(inbox, Relayed(from, type, payload))
  /\ told' = <<>>
  /\ UNCHANGED <<context, active, sessions>>

\* The signaling message made of the server's, in the adapter's context.
Shaped(msg) ==
  SignalingMessage(msg.type, 1, context.roomId, context.authToken,
                   context.icePolicy, msg.sdp, msg.candidate)

(* The state poll works on: active participants, sessions, events so far.  *)
Closed(a, p, events) ==
  [a EXCEPT !.sessions[p] = 0,
            !.events = @ \o << <<"PeerLeft", p>> >> \o events]

\* Every offer taken for a first one (for mutation).
KnownToNobody(a, msg) == FALSE

\* track_participant: only an offer asks, and the answer is "existed".
Known(a, msg) == msg.type = "offer" /\ msg.from \in a.active

Track(a, msg) ==
  IF msg.type = "offer" /\ msg.from \in Peers
  THEN [a EXCEPT !.active = @ \cup {msg.from}]
  ELSE a

\* The participant forgotten, the connection left open (for mutation).
EmitInvalidOpen(a, msg, error, existing) ==
  LET b == [a EXCEPT !.events = Append(@, <<"InvalidPayload", error>>)]
  IN  IF existing THEN [b EXCEPT !.active = @ \ {msg.from}] ELSE b

EmitInvalid(a, msg, error, existing) ==
  LET b == [a EXCEPT !.events = Append(@, <<"InvalidPayload", error>>)]
  IN  IF existing
      THEN Closed([b EXCEPT !.active = @ \ {msg.from}], msg.from, <<>>)
      ELSE b

\* A payload goes out; for the peer an offer is a new session.
LetThrough(a, msg) ==
  IF msg.type = "offer" /\ msg.from \in Peers
  THEN [a EXCEPT !.sessions[msg.from] = @ + 1]
  ELSE a

\* shape_incoming and handle_env_result
ShapeIncoming(a, msg) ==
  LET existing == Known(a, msg)
      error == ValidateSignaling(Shaped(msg))
      tracked == Track(a, msg)
  IN  IF msg.type = "other" THEN a
      ELSE IF error # "ok" THEN EmitInvalid(tracked, msg, error, existing)
      ELSE LetThrough(IF existing
                      THEN Closed(tracked, msg.from, << <<"PeerJoined", msg.from>> >>)
                      ELSE tracked, msg)

Poll ==
  LET before == [active |-> active, sessions |-> sessions, events |-> <<>>]
      after == FoldLeft(ShapeIncoming, before, inbox)
  IN  /\ active' = after.active
      /\ sessions' = after.sessions
      /\ told' = after.events
      /\ inbox' = <<>>
      /\ UNCHANGED context

AdapterNext == PushIncoming \/ Poll

AdapterSpec == AdapterInit /\ [][AdapterNext]_adapterVars
-----------------------------------------------------------------------------
(***************************************************************************)
(* A participant never has two peer connections: between two of its offers *)
(* that are let through the old connection is closed, in whatever order    *)
(* valid and invalid offers arrive and however they are spread over polls. *)
(* (signaling_adapter.rs lines 213 to 275)                                 *)
(***************************************************************************)
OneSessionPerPeer == \A p \in Peers : sessions[p] <= 1

(***************************************************************************)
(* A participant the adapter has forgotten has no connection left open, or *)
(* nobody would ever close it: its next offer counts as a first one.       *)
(* (signaling_adapter.rs lines 213 to 249)                                 *)
(***************************************************************************)
ForgottenIsClosed == \A p \in Peers : sessions[p] > 0 => p \in active
=============================================================================
