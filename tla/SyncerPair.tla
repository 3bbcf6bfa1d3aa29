------------------------------ MODULE SyncerPair ------------------------------
(***************************************************************************)
(* Two BasicSyncers over pairs of RealWebrtcTransport                      *)
(* (webrtc_transport.rs, pair_with_config_and_api): the side that offers   *)
(* ("a", pc1) creates both data channels, the side that answers ("b", pc2) *)
(* learns of them through on_data_channel.  A pair of transports is a      *)
(* link; after a failure the application makes another pair and gives each *)
(* syncer its new end with rebind_transport, in any order.                 *)
(*                                                                         *)
(* External: SCTP (the chat channel is ordered and reliable, the pose      *)
(* channel is neither), ICE, RTP, and the tokio scheduler, which runs the  *)
(* task spawned for every send whenever and in whatever order it likes.    *)
(***************************************************************************)
EXTENDS BasicSyncer, Integers, Sequences, SequencesExt

CONSTANTS
  Users,       \* Side -> the ids its application joins with
  Chats,       \* the chat messages the applications send
  Poses,       \* the poses they send
  MaxLinks,    \* bound: pairs of transports made
  MaxJoins,    \* bound: Join requests
  MaxSends,    \* bound: Send requests
  MaxTroubles  \* bound: failures reported and shutdowns

ASSUME LinksAssumption ==
  MaxLinks \in Nat \ {0} /\ {MaxJoins, MaxSends, MaxTroubles} \subseteq Nat

Sides == {"a", "b"}

\* A Join names a ParticipantId, whose text from_str reads; a chat is given by
\* the lengths of its parts, a pose by its version and by whether all its
\* coordinates, of which the type allows any f32, are finite.
ASSUME ApplicationsAssumption ==
  /\ \A i \in Sides : Unparsable \notin Users[i]
  /\ \A c \in Chats : {c.version, c.sender, c.message} \subseteq Nat
  /\ \A p \in Poses : p.version \in Nat /\ p.finite \in BOOLEAN

Peer(i) == IF i = "a" THEN "b" ELSE "a"
Links == 1..MaxLinks
Channels == {"ordered", "unordered"}

VARIABLES
  syncer,     \* Side -> BasicSyncer
  bound,      \* Side -> the link of the transport the syncer owns
  closed,     \* links whose peer connections are closed
  open,       \* Link -> Side -> its open data channels
  tasks,      \* Link -> Side -> spawned sends, not run yet
  wire,       \* Link -> Side -> messages on the chat channel towards it
  pending,    \* Link -> Side -> RealWebrtcTransport::pending
  budget,     \* requests and troubles left
  seen        \* Side -> what its application was told (read by no action)

vars == <<syncer, bound, closed, open, tasks, wire, pending, budget, seen>>

Each(value) == [g \in Links |-> [i \in Sides |-> value]]

NothingSeen == [told |-> <<>>,       \* the peers, from PeerJoined and PeerLeft
                met |-> {},          \* PeerJoined on this transport
                left |-> FALSE,      \* PeerLeft of the other side on it
                failure |-> FALSE,   \* a Failure was polled from it
                announced |-> FALSE, \* joined while its chat channel was open
                heard |-> <<>>,      \* ids of the chats received, in order
                errors |-> {},       \* Error events
                dropped |-> FALSE]   \* a pose arrived and was dropped

Init ==
  /\ syncer = [i \in Sides |-> NewSyncer]
  /\ bound = [i \in Sides |-> 1]
  /\ closed = {}
  /\ open = Each({}) /\ tasks = Each(<<>>)
  /\ wire = Each(<<>>) /\ pending = Each(<<>>)
  /\ budget = [joins |-> MaxJoins, sends |-> MaxSends, troubles |-> MaxTroubles]
  /\ seen = [i \in Sides |-> NothingSeen]

\* The first pair is there when the syncers are made; another one is made
\* when one of them needs it.
Made(g) == \E i \in Sides : g <= bound[i]

Spend(what) == budget[what] > 0 /\ budget' = [budget EXCEPT ![what] = @ - 1]

-----------------------------------------------------------------------------
(* The transport.                                                          *)

\* data_channels: the offering side lists both channels from the start, the
\* other one those that reached on_data_channel.  What a closed connection
\* would only lose is not kept.
Listed(g, i) ==
  CASE g \in closed -> {} [] i = "a" -> Channels [] OTHER -> open[g][i]

\* send without the test of `to` (for mutation).
AcceptedForAnyone(g, i, out) == out.params \in Listed(g, i) \cup {"audio"}

\* RealWebrtcTransport::send spawns a task, unless the message is for
\* somebody else or no listed channel has its parameters.
Accepted(g, i, out) ==
  /\ out.to \in {i, Peer(i)}
  /\ out.params \in Listed(g, i) \cup {"audio"}

\* dc.on_open: the offering side's channel first; the other side registers
\* its handlers when it learns of the channel.
OpenChannel(g, i, ch) ==
  /\ Made(g) /\ g \notin closed /\ ch \notin open[g][i]
  /\ i = "b" => ch \in open[g]["a"]
  /\ open' = [open EXCEPT ![g][i] = @ \cup {ch}]
  /\ UNCHANGED <<syncer, bound, closed, tasks, wire, pending, budget, seen>>

\* The failure reports: an ICE state that is Failed or Disconnected (and may
\* become connected again), the timeout of wait_data_channel_open, and the
\* task of pair_with_datachannel_real_failfast.
ReportFailure(g, i) ==
  /\ Made(g) /\ g \notin closed
  /\ Spend("troubles")
  /\ pending' = [pending EXCEPT ![g][i] = Append(@, FailureOf(Peer(i)))]
  /\ UNCHANGED <<syncer, bound, closed, open, tasks, wire, seen>>

\* pc.close() on both peer connections: the channels close, what was on its
\* way or about to be sent is gone, and each end that is still used sees the
\* state Closed, once.
Closing(g, ends) ==
  /\ closed' = closed \cup {g}
  /\ open' = [open EXCEPT ![g] = [i \in Sides |-> {}]]
  /\ tasks' = [tasks EXCEPT ![g] = [i \in Sides |-> <<>>]]
  /\ wire' = [wire EXCEPT ![g] = [i \in Sides |-> <<>>]]
  /\ pending' = [pending EXCEPT ![g] = [i \in Sides |->
       IF i \notin ends THEN <<>>
       ELSE IF g \in closed THEN @[i] ELSE Append(@[i], FailureOf(Peer(i)))]]

Shutdown(g) ==
  /\ Made(g) /\ g \notin closed
  /\ Spend("troubles")
  /\ Closing(g, Sides)
  /\ UNCHANGED <<syncer, bound, seen>>

\* A spawned send runs.  Its result is ignored, so a message for a channel
\* that is not open is gone; the pose channel and the audio track may lose
\* one.  At the offering side only dc1, the chat channel, has on_message.
RunSend(g, i, k) ==
  LET task == tasks[g][i][k]
      to   == Peer(i)
      live == g \notin closed /\ task.params \in open[g][i] \cup {"audio"}
      ev   == IF task.params = "audio" THEN AudioFrom(i)
              ELSE BytesFrom(i, task.payload)
  IN
  /\ tasks' = [tasks EXCEPT ![g][i] = RemoveAt(@, k)]
  /\ \/ /\ live => task.params # "ordered"
        /\ UNCHANGED <<wire, pending, seen>>
     \/ /\ live /\ task.params = "ordered"
        /\ wire' = [wire EXCEPT ![g][to] = Append(@, ev)]
        /\ UNCHANGED <<pending, seen>>
     \/ /\ live /\ \/ task.params = "audio"
                   \/ to = "b" /\ "unordered" \in open[g][to]
        /\ pending' = [pending EXCEPT ![g][to] = Append(@, ev)]
        /\ UNCHANGED <<wire, seen>>
     \/ /\ live /\ to = "a" /\ task.params = "unordered"
        /\ seen' = [seen EXCEPT ![to].dropped = TRUE]
        /\ UNCHANGED <<wire, pending>>
  /\ UNCHANGED <<syncer, bound, closed, open, budget>>

\* on_message of the chat channel
Arrive(g, i) ==
  /\ wire[g][i] # <<>> /\ "ordered" \in Listed(g, i)
  /\ pending' = [pending EXCEPT ![g][i] = Append(@, Head(wire[g][i]))]
  /\ wire' = [wire EXCEPT ![g][i] = Tail(@)]
  /\ UNCHANGED <<syncer, bound, closed, open, tasks, budget, seen>>

-----------------------------------------------------------------------------
(* The application and its syncer.                                         *)

\* rebind_transport with the end of another pair drops the old transport:
\* Drop closes both of its peer connections.
Rebind(i) ==
  LET old == bound[i] IN
  /\ old < MaxLinks /\ old <= bound[Peer(i)]
  /\ bound' = [bound EXCEPT ![i] = old + 1]
  /\ syncer' = [syncer EXCEPT ![i] = Rebound(@)]
  /\ seen' = [seen EXCEPT ![i].met = {}, ![i].left = FALSE, ![i].failure = FALSE,
                          ![i].announced = FALSE]
  /\ Closing(old, {j \in Sides \ {i} : bound[j] = old})
  /\ UNCHANGED budget

Follow(peers, ev) ==
  CASE ev.type = "PeerJoined" -> Append(peers, ev.about)
    [] ev.type = "PeerLeft"   -> RemoveFirst(peers, ev.about)
    [] OTHER                  -> peers

About(events, type) == {events[k].about :
                          k \in {k \in DOMAIN events : events[k].type = type}}

Tell(view, i, polled, events) ==
  LET chats == Selected(events, {k \in DOMAIN events : events[k].type = "ChatReceived"})
  IN  [view EXCEPT
        !.told = FoldLeft(Follow, @, events),
        !.met = @ \cup About(events, "PeerJoined"),
        !.left = @ \/ Peer(i) \in About(events, "PeerLeft"),
        !.failure = @ \/ \E k \in DOMAIN polled : polled[k].type = "failure",
        !.heard = @ \o [k \in DOMAIN chats |-> chats[k].about],
        !.errors = @ \cup About(events, "Error")]

\* Syncer::handle.  What the syncer sends reaches its own pending queue only
\* through the network, so the drain after the request finds something only
\* when there was no room before it.
Handle(i, req) ==
  LET g       == bound[i]
      polled  == pending[g][i]
      before  == Drain(syncer[i], polled)
      request == Request(i, before.syncer, req)
      after   == Drain(request.syncer, IF syncer[i].joined THEN <<>> ELSE polled)
      events  == before.events \o request.events \o after.events
      drained == after.syncer.joined
      sends   == request.sends
  IN
  /\ syncer' = [syncer EXCEPT ![i] = after.syncer]
  /\ pending' = IF drained THEN [pending EXCEPT ![g][i] = <<>>] ELSE pending
  /\ tasks' = [tasks EXCEPT ![g][i] =
       @ \o Selected(sends, {k \in DOMAIN sends : Accepted(g, i, sends[k])})]
  /\ seen' = [seen EXCEPT ![i] =
       [Tell(@, i, IF drained THEN polled ELSE <<>>, events) EXCEPT
          !.announced = \/ @
                        \/ /\ req.type = "Join" /\ req.who = i
                           /\ "ordered" \in open[g][i] /\ g \notin closed]]
  /\ UNCHANGED <<bound, closed, open, wire>>

Join(i) ==
  /\ Spend("joins")
  /\ \E who \in Users[i] : Handle(i, [type |-> "Join", who |-> who])

Send(i, kind, msg) ==
  /\ Spend("sends")
  /\ \E elapsed \in BOOLEAN :
       Handle(i, [type |-> "Send", from |-> i, kind |-> kind, msg |-> msg,
                  elapsed |-> elapsed])

SendPose(i) ==
  \E p \in Poses : Send(i, "pose", PoseMessage(p.version, p.finite))

SendVoiceFrame(i) == Send(i, "voice", AudioFrame)

\* Every chat is sent once: its id is the number of sends left.
SendChat(i) ==
  \E c \in Chats :
    Send(i, "chat", ChatMessage(c.version, c.sender, c.message, budget.sends))

\* poll_only: what a frame without a request does.
PollOnly(i) ==
  LET g == bound[i]
      r == Drain(syncer[i], pending[g][i])
  IN
  /\ syncer[i].joined /\ pending[g][i] # <<>>
  /\ syncer' = [syncer EXCEPT ![i] = r.syncer]
  /\ seen' = [seen EXCEPT ![i] = Tell(@, i, pending[g][i], r.events)]
  /\ pending' = [pending EXCEPT ![g][i] = <<>>]
  /\ UNCHANGED <<bound, closed, open, tasks, wire, budget>>

Transport(g, i) ==
  \/ \E ch \in Channels : OpenChannel(g, i, ch)
  \/ ReportFailure(g, i)
  \/ \E k \in DOMAIN tasks[g][i] : RunSend(g, i, k)
  \/ Arrive(g, i)

Next ==
  \/ \E g \in Links, i \in Sides : Transport(g, i)
  \/ \E g \in Links : Shutdown(g)
  \/ \E i \in Sides :
       \/ Rebind(i) \/ Join(i) \/ PollOnly(i)
       \/ SendPose(i) \/ SendChat(i) \/ SendVoiceFrame(i)

(* Spawned tasks run, the chat channel is reliable, a chat channel the     *)
(* offerer opened reaches the other side, and an application in a room     *)
(* polls, with a request or without.  Nobody has to make a request, and no *)
(* channel has to open in the first place.  Each condition names the       *)
(* change, not the action that makes it; both sides and all links share    *)
(* one because each of these steps uses up something finite.               *)
SomeSendRuns ==
  \E g \in Links, i \in Sides : \E k \in DOMAIN tasks[g][i] :
    tasks' = [tasks EXCEPT ![g][i] = RemoveAt(@, k)]

SomeChatArrives ==
  \E g \in Links, i \in Sides :
    /\ wire[g][i] # <<>> /\ "ordered" \in Listed(g, i)
    /\ wire' = [wire EXCEPT ![g][i] = Tail(@)]

SomePoll ==
  \E i \in Sides :
    /\ syncer[i].joined /\ pending[bound[i]][i] # <<>>
    /\ pending' = [pending EXCEPT ![bound[i]][i] = <<>>]

ChatChannelReachesB ==
  \E g \in Links :
    /\ Made(g) /\ "ordered" \in open[g]["a"] \ open[g]["b"]
    /\ open' = [open EXCEPT ![g]["b"] = @ \cup {"ordered"}]

Fairness ==
  /\ WF_tasks(SomeSendRuns) /\ WF_wire(SomeChatArrives)
  /\ WF_pending(SomePoll) /\ WF_open(ChatChannelReachesB)

Spec == Init /\ [][Next]_vars /\ Fairness

-----------------------------------------------------------------------------
Frames == {"ordered", "unordered", "audio"}

TypeOK ==
  /\ bound \in [Sides -> Links] /\ closed \subseteq Links
  /\ \A i \in Sides :
       /\ syncer[i].joined \in BOOLEAN /\ syncer[i].registered \in BOOLEAN
       /\ syncer[i].table.sessions \subseteq UNION {Users[j] : j \in Sides}
       /\ ToSet(syncer[i].table.order) = syncer[i].table.sessions
       /\ IsInjective(syncer[i].table.order)
       /\ syncer[i].used \in 0..Limit
  /\ \A g \in Links, i \in Sides :
       /\ open[g][i] \subseteq Channels
       /\ \A k \in DOMAIN tasks[g][i] : tasks[g][i][k].params \in Frames
       /\ \A k \in DOMAIN pending[g][i] :
            pending[g][i][k].type \in {"audio", "bytes", "failure"}

(* An application that only follows PeerJoined and PeerLeft knows exactly  *)
(* the participants the syncer sends to, in its order: a rejoin, a failure *)
(* of an unknown peer, a rebind, or a leave do not let the two drift.      *)
(* (participant_table.rs, transport_inbox.rs, rebind_transport)            *)
ToldIsTable == \A i \in Sides : seen[i].told = syncer[i].table.order

(* A chat is received at most once however many participants the sender's  *)
(* table holds, and never by its sender: the frames addressed to others    *)
(* must not reach this peer.  (route_common, RealWebrtcTransport::send)    *)
ChatOncePerPeer == \A i \in Sides : IsInjective(seen[i].heard)

\* The two errors the sender does not look for, if there is cause for them.
Unreadable ==
  LET tooLong   == \E c \in Chats : c.sender + c.message > MaxBytes
      notFinite == \E p \in Poses : ~p.finite
  IN  (IF tooLong THEN {"body_too_large"} ELSE {})
        \cup (IF notFinite THEN {"invalid_pose"} ELSE {})

(* A peer reads everything its counterpart sends, but for the two things   *)
(* into_envelope does not look at: an envelope longer than MaxBytes, and a *)
(* pose with a coordinate that is NaN or infinite, which serde_json writes *)
(* as null.  No other Error event reaches an application, and none at all  *)
(* when the applications send neither.                                     *)
PeersUnderstand == \A i \in Sides : seen[i].errors \subseteq Unreadable

(* A failure that was polled from the transport the syncer has now was     *)
(* told as PeerLeft while it had it: also when the peer was not in the     *)
(* table, and also when an earlier transport failed before it.             *)
FailureIsTold == \A i \in Sides : seen[i].failure => seen[i].left

(* A join that was requested while the chat channel was open is heard by   *)
(* the other side once it has a room, whatever the order of the two joins, *)
(* unless one of the two changes its transport or the connection closes.   *)
AnnouncedIsHeard ==
  \A i \in Sides :
    (seen[i].announced /\ syncer[Peer(i)].joined) ~>
      \/ i \in seen[Peer(i)].met
      \/ ~seen[i].announced \/ bound[Peer(i)] # bound[i] \/ bound[i] \in closed

(* Claimed by the documents, not true of the code: a pose that arrives at  *)
(* a side whose transport is up reaches its application.                   *)
PoseIsDelivered == \A i \in Sides : ~seen[i].dropped
=============================================================================
