----------------------------- MODULE BasicSyncer -----------------------------
(***************************************************************************)
(* BasicSyncer (lib.rs) with its Router, FilteringTransport and            *)
(* TransportInbox, as operators on its state.  A call to handle is          *)
(*   Drain what the transport has  ->  Request  ->  Drain again            *)
(* where Request also gives what the syncer sends; the transport under it  *)
(* is the module that uses these operators.  The inbox is empty between    *)
(* calls.  CONSTANT Limit is the limit of the rate limiter; whether its    *)
(* window has elapsed is a choice of the caller.                           *)
(***************************************************************************)
EXTENDS SyncMessages, ParticipantTable, Subsequences

CONSTANT Limit

ASSUME SyncerAssumption == Limit \in Nat

NewSyncer ==
  [joined |-> FALSE,       \* room.is_some()
   registered |-> FALSE,   \* FilteringTransport::registered
   table |-> EmptyTable,
   failed |-> {},          \* TransportInbox::failure_emitted
   used |-> 0]             \* messages counted in the current window

\* The inbox kept by rebind_transport (for mutation).
ReboundWithInbox(s) == [s EXCEPT !.registered = FALSE]

\* rebind_transport: a new FilteringTransport and a new inbox; the room, the
\* participants and the rate limiter stay.
Rebound(s) == [s EXCEPT !.registered = FALSE, !.failed = {}]

\* TransportSendParams::for_stream
ForStream(kind) ==
  CASE kind = "pose"  -> "unordered"
    [] kind = "voice" -> "audio"
    [] OTHER          -> "ordered"

(* What a transport gives: TransportEvent.                                 *)
AudioFrom(p)         == [type |-> "audio", from |-> p]
BytesFrom(p, bytes)  == [type |-> "bytes", from |-> p, bytes |-> bytes]
FailureOf(p)         == [type |-> "failure", from |-> p]

(* What a syncer gives to its transport.                                   *)
Outbound(to, kind, payload) ==
  [to |-> to, params |-> ForStream(kind), payload |-> payload]

AudioFrame == [size |-> 0]

\* Router::route_common: everyone in the table but the sender, in its order.
Route(table, from, kind, payload) ==
  LET order  == table.order
      others == Selected(order, {k \in DOMAIN order : order[k] # from})
  IN  [k \in DOMAIN others |-> Outbound(others[k], kind, payload)]

-----------------------------------------------------------------------------
(* TransportInbox::drain_into_events, one event at a time.                 *)

\* A failure of a peer is acted upon once in the life of the inbox, and is
\* told as PeerLeft even when the peer is not in the table.
ObserveFailure(acc, peer) ==
  LET left == ApplyLeave(acc.syncer.table, peer)
  IN  IF peer \in acc.syncer.failed THEN acc
      ELSE [syncer |-> [acc.syncer EXCEPT !.failed = @ \cup {peer},
                                          !.table = left.table],
            events |-> Append(acc.events, Event("PeerLeft", peer))]

ObserveMessage(acc, m) ==
  LET peers == ApplyPeerEvent(acc.syncer.table, m)
  IN  CASE m.type = "pose" ->
             [acc EXCEPT !.events = Append(@, Event("PoseReceived", m))]
        [] m.type = "chat" ->
             [acc EXCEPT !.events = Append(@, Event("ChatReceived", m.id))]
        [] m.type \in {"join", "leave"} ->
             [syncer |-> [acc.syncer EXCEPT !.table = peers.table],
              events |-> acc.events \o peers.events]
        [] OTHER ->   \* signaling has no place in a data channel
             [acc EXCEPT !.events = Append(@, Event("Error", "unknown_kind"))]

Observe(acc, ev) ==
  CASE ev.type = "failure" -> ObserveFailure(acc, ev.from)
    [] ev.type = "audio"   ->
         [acc EXCEPT !.events = Append(@, Event("VoiceFrameReceived", ev.from))]
    [] ev.type = "bytes"   ->
         IF ParseError(ev.bytes) = "ok"
           THEN ObserveMessage(acc, ev.bytes.content)
           ELSE [acc EXCEPT !.events =
                               Append(@, Event("Error", ParseError(ev.bytes)))]

\* drain_transport_events: nothing is polled before a room is set.
Drain(s, polled) ==
  IF s.joined THEN FoldLeft(Observe, [syncer |-> s, events |-> <<>>], polled)
              ELSE [syncer |-> s, events |-> <<>>]

-----------------------------------------------------------------------------
(* handle_request, without the drain that ends every one of its branches.  *)

\* Announced before the transport is registered (for mutation).
RequestJoinUnregistered(me, s, who) ==
  LET join == ApplyJoin(s.table, who)
  IN  [syncer |-> [s EXCEPT !.joined = TRUE, !.registered = TRUE,
                            !.table = join.table],
       events |-> Append(join.events, Event("SelfJoined", who)),
       sends  |-> IF s.registered
                    THEN <<Outbound(me, "control.join",
                                    Encode(ControlMessage("join", who)))>>
                    ELSE <<>>]

\* The transport is registered before the join is announced; `to` is the
\* syncer's own id, which the transports read as "everybody".
RequestJoin(me, s, who) ==
  LET join == ApplyJoin(s.table, who)
  IN  [syncer |-> [s EXCEPT !.joined = TRUE, !.registered = TRUE,
                            !.table = join.table],
       events |-> Append(join.events, Event("SelfJoined", who)),
       sends  |-> <<Outbound(me, "control.join",
                             Encode(ControlMessage("join", who)))>>]

\* The frames the three Send requests hand to the transport: none when the
\* message does not encode, none when the transport is not registered.
Outgoing(s, from, kind, msg) ==
  IF ~s.registered THEN <<>>
  ELSE IF kind = "voice" THEN Route(s.table, from, kind, AudioFrame)
  ELSE IF EncodeError(msg) = "ok" THEN Route(s.table, from, kind, Encode(msg))
  ELSE <<>>

\* SendPose, SendChat, SendVoiceFrame: the rate limit counts first, then a
\* sender that is not in the table is ignored.
RequestSend(s, from, kind, msg, elapsed) ==
  LET used    == IF elapsed THEN 0 ELSE s.used
      allowed == used < Limit
      s2      == [s EXCEPT !.used = IF allowed THEN used + 1 ELSE used]
  IN  [syncer |-> s2,
       events |-> IF allowed THEN <<>> ELSE <<Event("RateLimited", kind)>>,
       sends  |-> IF allowed /\ from \in s.table.sessions
                    THEN Outgoing(s2, from, kind, msg) ELSE <<>>]

Request(me, s, req) ==
  IF req.type = "Join" THEN RequestJoin(me, s, req.who)
  ELSE RequestSend(s, req.from, req.kind, req.msg, req.elapsed)
=============================================================================
