# A verification of bakopa-vr in TLA+

bakopa-vr is a social VR system in which clients meet in *rooms* of a signaling
server (Bloom), exchange WebRTC offers, answers and candidates through it, and
then synchronise poses, chat, voice and presence between each other (the
Syncer). This directory models the parts of it that have logic of their own,
checks the models on small instances with TLC, and proves with TLAPS, for every
instance, what matters most of them.

Paths below are relative to the root of the repository (`src/` there is written
`src/`). Modelled are the Bloom server (room table, WebSocket server with the
locks its sends go through, rate limiter, HTTP handshake), the Syncer (messages
and their validation, participant table, inbox and request handling, rate
limiter, the adapter to the server, the WebRTC transports and the in-process
ones) and the client (bootstrap, bridge, Godot node). Every safety property of
these that a passing run checks is also a theorem; liveness is only
model-checked. The plan says what is left.

## 1. Inventory

| Component | State it keeps | Operations | What is hard about it | Module |
|---|---|---|---|---|
| Room table, `bloom/core/src/room.rs` | room id → ordered list of participants | `create_room`, `join_room`, `leave_room`, `participants` | limit against duplicate joins, order kept by removals, rooms that vanish | `RoomTable`, `RoomManager` |
| Relay rules, `bloom/ws/src/real_core.rs`, `bloom/core/src/signaling.rs` | none | `relay_offer/answer/ice_candidate` | membership is checked now, the message is sent later | `MayRelay` in `BloomServer` |
| Wire types, `bloom/api` | none | serde | – | `Message`, `Reply` in `BloomServer` |
| Handler of a connection, `bloom/ws/src/handler.rs` | `room_id`, the limiter | one per client message, `handle_abnormal_close` | `room_id` is a second copy of the membership in the table | `BloomServer` |
| Server, `bloom/ws/src/server.rs` | map of registered peers, one task per connection and per send | accept and replace, receive loop, ping timer, grace timer, deregistration, send tasks | one task per send; ends of old connections against starts of new ones; locks held across sends | `BloomServer`; locks, pings and clients that do not read: `WsDelivery` |
| Connection rate limiter, `bloom/ws/src/rate_limit.rs` | queue of times, cooldown | `check` | window boundary, queue forgotten after a cooldown | `WsRateLimiter` |
| HTTP handshake, start-up, shutdown, `bloom/ws/src/server.rs` | accept loop, bytes read so far | accept, read a chunk, parse, answer, shutdown signal | a request in pieces, the size limit, bytes behind the request | `Handshake` |
| BasicSyncer, Router, `syncer/src/lib.rs`, `router.rs` | room, transport registration | `Join`, `SendPose/Chat/VoiceFrame`, `rebind_transport`, `poll_only` | events of the old transport, sends before registration, drains before and after a request | `BasicSyncer`, composed in `SyncerPair` |
| Participant table and inbox, `participant_table.rs`, `transport_inbox.rs` | sessions, order; failed peers | join, leave, drain | failures remembered, pairs of PeerLeft and PeerJoined | `ParticipantTable`, `BasicSyncer` |
| Syncer rate limiter, `syncer/src/rate_limiter.rs` | window counter per session | `check_and_record`, `purge_inactive` | bursts across a reset, growth | `SyncRateLimiter` |
| Signaling adapter, `signaling_adapter.rs` | active participants, incoming messages | `push_incoming`, `poll`, `send_*` | re-offers, valid and invalid, in any order | `SignalingAdapter` |
| WebRTC transport, `webrtc_transport.rs` | peer connections, data channels, pending events, audio track | send, poll, callbacks, shutdown, drop, `ensure_audio_track_task`, `add_dummy_audio_track` | one task per send, callbacks, failures reported several ways, look up under a lock and act in a task | `SyncerPair`, `VoiceTrack` |
| In-process transport and signaling hub, `webrtc_transport.rs`, `signaling_hub.rs` | a shared list; a queue per peer | register, send, poll, drain, injected failure | removal from a list while it is walked, second registrations | `MemoryTransport` |
| Messages, `syncer/src/messages` | none | encode, parse, validate | sender and receiver must enforce one contract | `SyncMessages`, `SyncCodec` |
| Client bootstrap and bridge, `client/domain` | `running`, `started`, XR runtime, frame clock | start, tick, shutdown | partial failure of start and shutdown | `Client` |
| Godot adapter, `client/godot-adapter` | pending input, last error, last frame | `on_start`, `on_frame`, `push_input_event`, `on_shutdown` | frames before start, bounded input, projection that fails | `Client` |
| Mocks, `StubSyncer`, scripts, Godot project, documents | – | – | test code, assets, prose | not modelled |

How the parts interact. A client's WebSocket connection is served by a task of
its own (`handle_connection`), which owns a `WsHandler`. All handlers share the
`RoomManager` behind a mutex that is never held across an await, and the map of
peers behind an async mutex. A handler never writes to a socket itself: every
answer and every broadcast is a spawned task that locks the peer map (broadcasts
only) and the socket. When a connection breaks, its task sleeps for five
seconds before it leaves the room on the participant's behalf; when it closes
normally it does not leave at all. On the client, a BasicSyncer is called with
one request at a time; it drains its transport before and after, and hands its
messages to the transport, which spawns a task for each. Callbacks of the webrtc
crate fill the transport's pending events at any time. When a connection fails
the application makes another and rebinds the syncer. The adapter turns the
server's signaling into the syncer's, and the Godot node drives the domain's
bridge frame by frame.

What makes each part correct:

- *Room table*: rooms are never empty, over the limit or with duplicates; the
  order is the order of joining; a room that emptied never comes back.
- *Server*: a handler's `room_id` agrees with the table; what a client was told
  last of its room is the truth; a newcomer is announced before it is listed;
  signaling comes only from somebody the receiver was told of; a connection that
  ends leaves its room, but after a normal Close or a binary frame, where the code
  leaves the member behind (`MembersAttached`); a broken connection is announced
  to those who stay; of two connections with one id the one that is not registered
  has been told to close.
- *Connection rate limiter*: at most the limit in any window; drops only for
  cause; bounded memory.
- *Handshake*: however its bytes fall into reads, a request within the limit is
  never refused for its size, one a chunk longer is never answered, and the bytes
  behind one that is served are not lost (`FittingIsRead`). In between the reads
  decide, as the size is looked at before a read and not after it.
- *Syncer*: an application that follows PeerJoined and PeerLeft knows exactly
  whom its syncer sends to (`ToldIsTable`); a failure is told at least once on each
  transport (`FailureIsTold`); an announced join is heard in the end
  (`AnnouncedIsHeard`); a chat arrives at most once (`ChatOncePerPeer`); peers
  read what they are sent, but an envelope over the limit and a pose with a
  coordinate that is not finite (`PeersUnderstand`).
- *Messages*: the parser reads what our encoder lets out (`EncodedIsAccepted`)
  and the encoder would let out what the parser reads (`AcceptedIsSendable`).
- *Syncer's rate limiter*: at most twice the limit in a window's length
  (`BurstBound`); a session pays only for its own messages (`RefusedForCause`).
- *Adapter*: no participant has two peer connections (`OneSessionPerPeer`), and
  one that is forgotten has none (`ForgottenIsClosed`).
- *Transports*: the in-process carriers lose nothing and keep the order
  (`BusKeepsOrder`, `HubLosesNothing`); a second audio track comes only from
  a call of `add_dummy_audio_track` or a frame sent while the first is being added
  (`OneTrackButForOverlaps`); that frames add one between them, as a comment says,
  is not true (`AddedOnce`).
- *Client*: it runs exactly while its bridge is started, whatever fails
  (`RunningIsStarted`); input is used once and in order (`InputOnceInOrder`).

`PROJECT.json` lists the hazards of the code line by line with the properties
that cover them; for the three that none covers it says why.

## 2. Modules

| Module | What it is |
|---|---|
| `Subsequences` | `Selected`: what is left of a list when a test is applied to its entries, without recursion, so that it can be proved about |
| `RoomTable` | The operations of `RoomManager` as operators from a table to a table; `Retain` (Rust's `Vec::retain`) is a `Selected` |
| `RoomManager` | The core alone: anybody calls anything (`ManagerSpec`) |
| `RoomMembership` | Abstract: who is in which room. Implemented by `RoomManager` and by `BloomServer` |
| `BloomServer` | Connections, handlers, timers, peer map and send tasks around the room table |
| `SendOrder` | The send tasks and the order they finish in; shared by `BloomServer` and `WsDelivery` |
| `WsDelivery` | The locks of the peer map and of the sockets, connection tasks from await to await, ping timer, clients that stall or vanish |
| `WsRateLimiter` | The limiter of a connection and its clock |
| `Handshake` | The accept loop and the tasks that read a request |
| `SyncMessages` | The messages of the syncer: what encoder and parser refuse, and with which error. Operators only |
| `SyncCodec` | One message from our encoder or from other software to the parser |
| `ParticipantTable` | The operations of the table, each giving the table after it and the events. Operators only |
| `BasicSyncer` | A syncer as operators on its state: drain, request, rebind. Operators only |
| `SyncerPair` | Two `BasicSyncer`s over one WebRTC connection after the other |
| `SyncRateLimiter` | The syncer's limiter and its clock |
| `SignalingAdapter` | The adapter between server and syncer |
| `MemoryTransport` | The two in-process carriers |
| `VoiceTrack` | The audio track of a WebRTC transport |
| `Client` | Bootstrap, bridge and Godot node |
| `MCBloomServer`, `MCWsDelivery`, `MCSyncerPair` | Constants for TLC |
| `MCParts` | The components that share no state, side by side: `part` chooses one at the start and only that one runs, so the states add up instead of multiplying. It extends the modules of the parts |
| `Subsequences_proofs` | Lemmas on `Selected`: its indices, order, members, one entry more, two lists that agree |
| `RoomTable_proofs` | Lemmas on the table operations |
| `FoldLemmas` | Lemmas on `FoldLeft`, for any operator: it is the last of a series that takes one entry at a time, and goes over a concatenation part by part |
| `BloomServer_proofs` | The server: types, rooms, handlers, current connections, the refinement |
| `BloomNews_proofs` | The server: what clients are told |
| `WsDelivery_proofs` | The locks of the server and the order in which sends end |
| `Parts_proofs` | The room table alone, both rate limiters, handshake, in-process carriers, audio track, client |
| `Syncer_proofs` | Messages, adapter, and two syncers over their transports |

### How `BloomServer` corresponds to the code

`main.rs` starts tokio with `flavor = "current_thread"`. A task therefore runs
undisturbed from one await to the next, and a step of the model is such a
stretch:

| Model | Code |
|---|---|
| `rooms`, `used` | `RoomManager.rooms`; the ids `RoomId::new` has produced (UUID v4: never twice) |
| `phase[c]` | where the task of connection `c` is: not accepted, in `process_messages`, in the grace sleep, before `remove_if_same`, done |
| `roomOf[c]` | `WsHandler.room_id` |
| `peers` | `WebSocketBroadcast.peers`, participant → connection instead of → socket |
| `outbox` | the spawned send tasks in the order of spawning |
| `reply` | the code of an `Error` answer (the text, and the delivery of errors, are left out) |
| `exit[c]` | the `DisconnectReason`, with binary frames told apart |
| `known`, `roster`, `greeted`, `shut` | what clients have received. They are observers: only `known` (a client can name only a room id that some client received) and `shut` (nothing is sent after a Close) restrict steps |
| `Accept` | the end of the handshake with `insert` |
| `DropText`, `BadText`, `CreateRoom`, `JoinRoom`, `LeaveRoom`, `Signal` | `handle_text_message`, one alternative per outcome. `Offer`, `Answer` and `IceCandidate` have the same control flow and are one action |
| `NormalClose`, `AbnormalClose`, `BinaryFrame` | the returns of `process_messages` (a ping timeout is an `AbnormalClose`) |
| `GraceElapsed` | the end of the sleep with `handle_abnormal_close` |
| `Deregister` | `remove_if_same` |
| `DeliverDirect`, `DeliverBroadcast` | a send task runs to its end |

Sends. tokio's mutexes are fair (first come, first served) and a current-thread
runtime polls newly spawned tasks in order. A direct send queues for its socket
only; a broadcast queues for the peer map and, still holding it, for the socket
it found. So broadcasts never overtake broadcasts, sends to one socket of the
same kind never overtake each other, but a direct send may overtake a broadcast;
`Runnable` (in `SendOrder`) says exactly this, and `WsDelivery`, which has the queues, shows
that tasks finish in no other order. Sockets are prompt in `BloomServer`: what a
client that stops reading does to the holders of the locks is the matter of
`WsDelivery`.

Bounds, each a constant: `MaxBacklog`, the number of unsent messages above which
the model's clients are silent (messages in one request are not bounded by it);
`Conn`, as each connection is accepted once; `RoomId`, as each id is given once.
`LeavesFirst` restricts clients to leave a room before they create or join
another; the server does not ask for it, so the other runs do without.

### How `WsDelivery` corresponds to the code

A step is again what a task does from one await to the next; the awaits are
those on locks and on sockets.

| Model | Code |
|---|---|
| `mapQueue`, `sinkQueue[c]` | the queue of the tokio mutex around the peer map and around the sink of `c`; the first in it holds the lock |
| `ready` | spawned tasks before their first poll |
| `phase[c]` | the await `handle_connection` is at: the lock of the map (`inserting`, `removing`), `select!` (`loop`), its own sink (`pinging`, `ponging`, `closing`), the sleep (`grace`) |
| `missed[c]` | ticks since `last_pong`, a time whose age is between `missed - 1` and `missed` intervals |
| `link[c]` | the client and the network: reading, full buffers (`stalled`), silent with room in the buffers (`mute`), failing (`broken`) |
| `Accept`, `Insert` | the await of `peers.lock()` in `insert`, and what follows |
| `Start`, `LookUp`, `WriteSend` | a send task: first poll, the map with the sink found there (the guard lives to the end of the `if let`), the write |
| `Interval`, `WritePing`, `WriteClose` | the timer branch: ping queued, ping out and `last_pong` compared, close out |
| `Handle`, `GraceElapsed` | handlers reduced to the sends they spawn: any answer, any relay, any list of news |
| `Notice`, `NormalClose`, `BinaryFrame`, `Remove` | the ends of `process_messages` and `handle_disconnect` |

`missed` is dropped with the receive loop whose local variable it is
(`Quit`), and counted no further than the code can tell. `MaxSends` bounds the
sends.

### How `WsRateLimiter` corresponds to the code

Time is a count of ticks (`Tick`, bounded by `MaxTime`); any number of messages
may arrive within a tick. `DropInCooldown` and `CheckWindow` are the two courses
of `check`; `Expires` is the loop over the front of the queue; `Remembered` is
the queue after a finished cooldown has cleared it. `history` and `verdict`
observe.

### How `Handshake` corresponds to the code

A client is a number of bytes sent; its request ends after the first `size` of
them. `ReadChunk` is one read of at most `Chunk` bytes with the parser's attempt
on all that was read; `TooLarge` is the test at the head of the loop, which stands
before a read; `Answer` is
the choice between 404, 426 and the upgrade. `tail` is what is handed to the
WebSocket stream as already read. `SignalShutdown` and `EndLoop` are the two
sides of the shutdown channel: an accept may still win once the signal is there.

### How `SyncMessages` and `SyncCodec` correspond to the code

A string is its length, a JSON document is a record saying how far the parser
can follow it (`form`, `v`, `kind`, `body`, the `fields` present, and whether serde
accepts the rest: `typed`). A chain of early returns is a sequence of pairs of a
condition and an error, in the order of the code; `FirstError` gives the first
that fails. `EncodeError` is `into_envelope`, `ParseError` is
`parse_sync_message`. The sender does not look at the size of the envelope nor
at whether coordinates are numbers (serde writes `null`), which
`EncodedIsAccepted` names as the only exceptions. The type in a signaling body
decides, never the `kind` of its envelope.

### How `ParticipantTable`, `BasicSyncer` and `SyncerPair` correspond to the code

| Model | Code |
|---|---|
| `syncer[i].joined`, `.registered` | `BasicSyncer.room`, `FilteringTransport.registered` |
| `syncer[i].table` | `ParticipantTable`: session keys and order. Session numbers are never read |
| `syncer[i].failed` | `TransportInbox.failure_emitted` |
| `syncer[i].used` | the count of the current window; whether the window has elapsed is chosen anew with every send (`SyncRateLimiter` has the clock) |
| `Drain`, `Observe` | `drain_transport_events`, `drain_into_events` |
| `Request`, `RequestJoin`, `RequestSend`, `Outgoing`, `Route` | `handle_request` and its branches, `Router`, `FilteringTransport::send` |
| `Handle`, `PollOnly` | `handle`: drain, request, drain; `poll_only` |
| `Rebind` | `rebind_transport`, with the drop of the old transport, which closes both peer connections |
| `bound[i]`, link | the pair of `RealWebrtcTransport`s the syncer has an end of |
| `open[g][i]` | the data channels that have opened at that end |
| `tasks[g][i]` | the tasks `send` has spawned and that have not run, in no order |
| `wire[g][i]` | the ordered, reliable chat channel |
| `pending[g][i]` | `RealWebrtcTransport.pending` |
| `OpenChannel` | `on_open` at the offering side, `on_data_channel` at the other |
| `RunSend`, `Arrive` | a spawned send; `on_message` |
| `ReportFailure`, `Shutdown` | the reports of ICE states and of time-outs; `shutdown` |
| `seen[i]` | what the application was told: an observer |

Side `a` offers (`pc1`), side `b` answers. `a` makes both channels but sets
`on_message` on the first only, so a pose that reaches it is `dropped`. A
message that arrives at a task too late, or a frame on an unreliable channel,
may be lost. The exchange of offers that makes a pair has happened when a link is
used.

### How the smaller models correspond to the code

`SyncRateLimiter`: `CheckAndRecord` is `check_and_record`, `PurgeInactive` is
`purge_inactive` with any instant; `passed` and `refused` observe.

`SignalingAdapter`: `PushIncoming` is `push_incoming` with what of a message
crosses the server (`Relayed`: the payload, not its context); `Poll` folds
`ShapeIncoming` (tracking, validation in the adapter's own context, the events
and closes) over the inbox. `sessions` counts, per peer, the offers let through
since the last close.

`MemoryTransport`: `Register`, `Post`, `PollBus` are `WebrtcTransport`, whose two ends
share one list; `HubRegister`, `HubSend`, `DrainFor` are `InMemorySignalingHub`.

`VoiceTrack`: `SendVoice` is the look at `audio_track` in `send`,
`AddDummyAudioTrack` the public call that adds a track without looking; both are
numbered as calls. `AddTrack`, `Renegotiate`, `WriteSample` and `GiveUp` are their
tasks, from one await to the next. `explicit` tells the calls from the frames, and
`overlapping` observes which frames were sent while a call was adding.

`Client`: `Start`, `StartFails`, `TickFrame`, `BootstrapTick`, `Shutdown` are
`ClientBootstrap` with each step failing; the `Node…` actions are the Godot node,
whose frame takes the input and advances its clock before the bridge may refuse,
and whose projection may fail after the world has moved on. `xr` is how the
runtime reports itself.

## 3. Runs

| Run | Instance | Question and answer |
|---|---|---|
| `server_moving` | 2 clients, 2 rooms, clients move on without leaving | Do handlers, table, sends and what clients are told agree? `HandlerIsMember`, `NewsIsCurrent`, `RelayFromKnownPeer` hold, `RoomMembership` is implemented. Is a break announced in the end to those who stay (`BreakIsAnnounced`)? Yes, under the fairness below |
| `server_room` | 3 clients, 1 room of 2 places | Is the limit safe under competition, does everybody in the room have a connection that holds it, or one that ended in one of the two ways that skip `leave_room` (`MembersAttached`), is a newcomer announced before it is listed (`GreetedBeforeListed`)? Yes |
| `server_doubled` | 3 connections, two with one id | Does the end of the old connection leave the new one registered? Yes (`CurrentConnection`) |
| `ws_delivery` | 2 clients, 2 sends, 1 missed ping allowed | Do sends finish in the order `BloomServer` assumes (`SendsAreOrdered`)? Does every send end (`EverySendEnds`) and every vanished client get dropped (`VanishedIsDropped`), if no client is stalled for ever? Yes |
| `syncer_room` | 1 connection, 3 joins, 2 sends, no trouble | Does a chat arrive at most once although `a` has joined with two ids (`ChatOncePerPeer`), and does a peer understand what it is sent, but an envelope over the limit and a pose that is not finite (`PeersUnderstand`)? Yes |
| `syncer_reconnect` | 2 connections, 2 joins, 2 sends, 1 failure or shutdown | Do applications know whom their syncer sends to (`ToldIsTable`), is a failure told on each transport anew (`FailureIsTold`), is an announced join heard in the end (`AnnouncedIsHeard`), across failures and new transports? Yes |
| `parts` | see below | Do the components that share no state keep their promises, each alone? Yes, the twenty properties of `MCParts` hold |
| `server_stale` | 3 connections, two with one id | Violation: after a reconnect under the same id the old connection's grace period takes the participant out of the room of the new connection |
| `server_ghost` | 2 clients, 2 rooms | Violation: a second `CreateRoom` or `JoinRoom` without a leave makes a member that no disconnect removes |
| `syncer_pose` | 1 connection, 2 joins, 1 send | Violation: the offering side has no handler on its pose channel and drops every pose that arrives |
| `ws_stall` | 2 clients, 1 send | Violation: a client that stops reading is never disconnected, since the periodic ping waits for room in its socket before `last_pong` is looked at |
| `voice_once` | 4 calls | Violation: two frames sent before the task of the first has run add an audio track each |

Why the bounds are enough. Two clients suffice for every property that relates a
sender and a receiver; three are needed to compete for the last place, and for
an old connection, a new one and somebody who watches. Two rooms suffice to mix
rooms up. One pending send when a client speaks (`MaxBacklog = 1`) already lets
requests of several clients interleave with the sends of earlier ones, since a
single join spawns up to four. Two sends are one
list of news to one client, or two sends of different kinds to one or two
clients, and suffice for one to overtake the other; one missed ping allowed
already lets a client miss a ping and recover. The code allows two.

In the syncer's runs two links give an old transport and a new one, and let one
side be rebound before the other; the second send is needed for one to overtake
the other; a rate limit of one refuses the second send of a window. One of the
ids `a` may join with belongs to nobody the connection reaches (`handle` takes any
participant in a `Join`); that is what makes a message be handed to the transport
more than once. Of the three chats one is good, one is refused by the encoder
and one is too long for the parser; of the three poses one is good, one has a
coordinate that is not finite (`SendPose` takes any `f32`, serde writes `null`,
and the peer reports `invalid_pose`) and one is refused by the encoder.

In `parts`: a connection's limiter with a limit of three and a window of two
ticks has windows that are partly expired and messages in the same tick, and seven
ticks are two cooldowns with a window between them. The room table has one
participant more than a room takes and two rooms to mix up. The syncer's limiter
has two sessions, a limit and a window of two and five ticks: two windows and a half, for a
burst across a boundary. Messages have every length up to their limits and one
past each; foreign bytes are every encoding with one thing wrong. The adapter
has two peers, three messages between two polls (two offers and one invalid) and
three contexts. The carriers have three sends per end, so that a poll may leave a
message of the other direction between two it takes. Four calls (`MaxCalls`) allow two
overlapping frames or an explicit call, a failure and a later frame. The client's input buffer holds
two of five events. A request is below the limit of three bytes, at it, less than
a chunk above it, or a chunk above it, in chunks of two, and up to six bytes arrive.

`CHECK_DEADLOCK FALSE` stands where clients may go away for good and room ids
run out: the instance stops there, as the system may.

Findings. The five violations are real courses of the code. `server_stale` needs two
connections with one participant id, which only `ServerOverrides` provides
today: with fresh ids the property is a theorem. `server_ghost` needs only a
client that sends `CreateRoom` twice. `ws_stall` needs a client with full
buffers; as a send to it holds the map of peers, its stall is also everybody's,
which is why `EverySendEnds` assumes that all clients read in the end
(`AllRead`) and not the receiver alone. `syncer_pose` needs nothing but two
peers that have joined and a pose from the answering side. `voice_once` needs two
frames in a row, as `send` looks for the track and a task spawned later sets it;
`OneTrackButForOverlaps` is what remains true. `PROJECT.json` quotes the lines.

Fairness. `FairSpec` asks that a send whose locks are free is made, that the
grace timer fires and that the task of an ended connection goes on
(`WF_vars` each): the runtime polls every woken task, and timers and lock
queues wake theirs. In `WsDelivery` it asks the same of every await: the first
poll, the look-up, a write to a socket that has room, the ticks. Nothing is
asked of clients; the two liveness properties that need clients to read say so
in their antecedent.

The specification of `SyncerPair` asks that spawned sends run, that what is on
the chat channel arrives, that a chat channel the offering side has opened opens
at the other (all three are promises of tokio and SCTP while the connection is
not closed), and that an application in a room polls, with a request or without,
as the frame loop does. No application has to make a request, no channel has to
open in the first place, nothing is asked of the pose channel or of audio.
`AnnouncedIsHeard` gives up when either side changes its transport or the
connection closes.

## 4. Proofs

Each theorem holds for every value of the constants that the named assumptions
allow, so for any number of connections, rooms, participants, messages and
steps. Those whose last column names a run state a property that run checks on
its small instance.

| Theorem | States | Run |
|---|---|---|
| `TypeCorrect` | `Spec => []TypeOK` for the server | `server_moving` |
| `RoomsStayWellFormed` | `Spec => []RoomsWellFormed` for the server | `server_room` |
| `HandlersAreMembers` | `UniqueIds => (Spec => []HandlerIsMember)` | `server_moving` |
| `ImplementsMembership` | `Spec => MembershipSpec`: the server refines `RoomMembership` | `server_moving` |
| `OneCurrentConnection` | `Spec => []CurrentConnection` | `server_doubled` |
| `MembersHearTheTruth` | `UniqueIds => (Spec => []NewsIsCurrent)` | `server_moving` |
| `NoSignalsFromStrangers` | `UniqueIds => (Spec => []RelayFromKnownPeer)` | `server_moving` |
| `OnlyQuietEndsLeaveBehind` | `LeavesFirst => (Spec => []MembersAttached)` | `server_room` |
| `BrokenConnectionsLeave` | `UniqueIds /\ LeavesFirst => (Spec => []AbnormalCloseLeaves)` | without `LeavesFirst` violated: `server_ghost` |
| `EventsPrecedeLists` | `UniqueIds /\ LeavesFirst => (Spec => GreetedBeforeListed)` | `server_room` |
| `QueuesFollowPhases` | `Spec => []TypeOK` for `WsDelivery` | `ws_delivery` |
| `SendsEndInOrder` | `Spec => SendsAreOrdered` | `ws_delivery` |
| `RoomTypeCorrect`, `RoomsAreWellFormed` | invariants of the core alone | `parts` |
| `DissolvedRoomsStayDissolved`, `ListsKeepJoinOrder` | action properties of the core alone | `parts` |
| `ManagerImplementsMembership` | `ManagerSpec => MembershipSpec`: the core refines `RoomMembership` | `parts` |
| `LimiterTypeCorrect`, `LimiterBound`, `LimiterDropsForCause` | invariants of a connection's limiter | `parts` |
| `BurstsAreBounded`, `RefusalsHaveCause` | `BurstBound`, `RefusedForCause` of the syncer's limiter | `parts` |
| `FittingIsServed` | `FittingIsRead` of the handshake | `parts` |
| `BusIsInOrder`, `HubIsLossless` | `BusKeepsOrder`, `HubLosesNothing` of the carriers | `parts` |
| `SecondTrackHasCause` | `OneTrackButForOverlaps` of the audio track | `parts` |
| `RunningBridge`, `InputIsOrdered` | `RunningIsStarted`, `InputOnceInOrder` of the client | `parts` |
| `EncoderMeetsParser`, `ParserMeetsEncoder` | `EncodedIsAccepted`, `AcceptedIsSendable` of the messages | `parts` |
| `OneSessionEach`, `ForgottenMeansClosed` | `OneSessionPerPeer`, `ForgottenIsClosed` of the adapter | `parts` |
| `PairTypeCorrect` | `Spec => []TypeOK` for `SyncerPair` | `syncer_reconnect` |
| `ApplicationsKnowTheTable`, `FailuresAreTold` | `ToldIsTable`, `FailureIsTold` | `syncer_reconnect` |
| `PeersAlwaysUnderstand`, `ChatsAreHeardOnce` | `PeersUnderstand`, `ChatOncePerPeer` | `syncer_room` |

Assumptions on constants, each named, declared in the module that has the
constant and evaluated by TLC in every run of that module:
`MaxParticipantsAssumption` (a room has a place), `ConnAssumption` (ids are
participants, `NoRoom` is no room), `DeliveryAssumption` and `WaitersAssumption`
(a ping may be missed; a connection's task is not a send task),
`LimiterAssumption` and `SyncLimiterAssumption` (a connection's window is not
zero, its limit may be; a syncer's limit is not zero, its window may be),
`HandshakeAssumption` (a request and a chunk have a byte), `EndsAssumption` (two ends),
`NoTrackAssumption`, `MaxPendingAssumption` (input has a place),
`MessageBounds` (limits of lengths are positive), `CodecAssumption` (messages
and foreign bytes are of the form described in `SyncCodec`), `LinksAssumption`
(there is a first connection), `ApplicationsAssumption` (who joins has an id that
parses; a chat has lengths; a pose has a version and is finite or not), `SyncerAssumption`. Two more are hypotheses of
theorems, because the code does not grant them: `UniqueIds` (no two connections
with one id; the run `server_stale` shows what happens without it) and
`LeavesFirst` (clients leave a room before they create or join another; the run
`server_ghost` shows what happens without it).

### The server

*Type correctness.* `TypeOK` says `known \subseteq used`: clients know only ids
that were handed out. That is not inductive, because `known` grows by the rooms
of messages under way; `Announced` adds that those rooms are handed out too.

*Rooms.* `NextIsRoomStep` shows once that every step of the server changes the
table by one operation of `RoomManager` with its precondition, or not at all
(`RoomStep`). `RoomsStayWellFormed` and `ImplementsMembership` then need only
the lemmas of `RoomTable_proofs` on each operation. The core of those is
in `Subsequences_proofs`: the rank of a kept position among the kept positions is a
bijection, hence the shortened list has the same members but one, no duplicate
and no more places. The theorems of the core alone use the same lemmas;
`ListsKeepJoinOrder` also needs that a `Selected` list keeps the order.

*Handlers.* `HandlerIsMember` is strengthened by `IdleRoomless`: a connection
not yet accepted has no room, else `Accept` could bring a stale one to life.

*Connections.* When an entry of the peer map is replaced a Close for the old
connection is pending; it stays in `outbox` until it is delivered, and from then
the connection is in `shut`; `remove_if_same` removes an entry only for the
connection that ends.

*News.* `NewsIsCurrent` speaks of what a client will know once the sends that
wait are made. The invariant `News` says it with `Tells`: the last send in a
stretch of `outbox` that informs a client of a room carries a list in a given set, or
none does and the client's `roster` is in the set. `MembersTold` has the room's
list as the set and all of `outbox` as the stretch, `SendersTold` the lists that
name the sender of a relay and the sends before the relay. To be kept they need
that a client is found under its own id in the map of peers (`Registry`), that
direct sends are the answers to `CreateRoom` and come before all else about
their room (`Lane`; a direct send may overtake, so this is what makes an
overtaking harmless), and that nothing is on its way to a client that has not
come yet (`Absent`).

*Attachment and greetings.* `Attached` says of each member which connection
accounts for it: one in the receive loop or in its grace period
whose `room_id` is the room, or one that ended by a normal Close or a binary frame,
after which nothing calls `leave_room`; a connection that broke off is never the
only one. `Greeting` adds for every list on its way that those
behind its reader have been announced by a send in front of it, with no
goodbye between (`ListsGreeted`), and the same of the table and all of
`outbox` (`MembersGreeted`). It needs that nobody is in two rooms
(`OneRoomEach`), since announcements do not name a room.

*Locks.* `SendsAreOrdered` compares the sends that finish with the order of
spawning. `TypeInv` has the turns: a connection queues for a lock at most once,
and exactly in the phases that await it. `Order` has the sends: those at a lock
were spawned before those not polled yet; at the map there are broadcasts, in
their order; at a sink there are direct sends for it, in their order, and at most the
broadcast that holds the map; and each send that is not finished is at one of these places.

### The smaller parts

*A connection's limiter.* `WindowBound` is about the whole history, while the code keeps a
queue. The invariant says that the queue is the end of the history, that what
it has forgotten is at least a window old (`ForgottenIsOld`), and that a
cooldown ends a window or more after everything let through and within two
windows of the last `Limit` messages (`CooldownFits`).

*The syncer's limiter.* `WindowOf` splits the history of a session in what the
counter counts, what came before, and what is older than a window before the
counter's start: at most `SyncLimit` messages are in the first part, and all but
the last `SyncLimit` of the others in the third. Hence no `2 * SyncLimit + 1`
messages fall into one window's length.

*Handshake.* While a request is read it is not complete, a read starts below the
limit and adds a chunk at most, and a refusal comes from a buffer at the limit
without a complete request (`HandshakeInv`). *Carriers.* The
hub's invariant is what was drained and what waits, joined; for the bus it is
that over the share of each end, a `Selected` of the common list. *Audio track.* Of two calls
that have added a track or still may, the later one is explicit or was sent while
the earlier one was adding: had that one added already, the frame would have found
the track (`VoiceInv`). *Client.* What was used is older
than what is pending, and that is the newest of what was pushed (`NodeInv`).

*Messages.* The encoder's and the parser's checks are compared one by one, by the lemmas on
`FirstError`: the result is the error of a check that fails and before which
none does.

*Adapter.* `poll` folds over the messages that arrived. `FoldLemmas` turns such
a fold into a series of states, over which what one message preserves
(`ShapedIsAccounted`: whoever has a connection is active) is preserved by the poll. No such lemma could be stated
with the operator as a parameter of a lemma; it is a constant of the module and
given by `INSTANCE`.

### Two syncers

The three invariants are stacked; each is kept under the ones before it.

`PairInv` is about one side at a time (`SideOK`): the table lists each session
once, the application's list is the table's order, and a peer that the inbox
remembers as failed has been reported. A drain is a fold over the polled events and the
application's list is a fold over the events told; `Accord` ties the two (the
events of a step, followed from the old order, give the new one) and composes
along concatenations, so that a whole `handle` needs one fact per operation of
the table. `ToldIsTable` and `FailureIsTold` follow.

`TalkInv` is about what travels: every spawned send, message on a channel and
polled event carries what `Encode` made of a message its syncer may send (`Cargo`, `Spawned`), and
no application was told any error but those in `Unreadable`: the two that the
encoder lets happen, each only if the applications have a message that makes it
happen (`Excused`). It rests on
`EncoderMeetsParser`'s lemmas, on `Yields` (what one event makes a syncer tell)
and on `Dispatch` (what a request hands to its transport). `TypeOK` and
`PeersUnderstand` follow.

`OnceInv` follows each chat to one side. The places where it can be (`Stations`:
spawned sends, chat channel, polled queue, of each connection, and what the
application heard) are rows of sets of chats; no chat is at two places, or twice
at one, and each is older than those still to be sent (`OnceIn`). Steps fall into three
kinds: rows shrink (`OnceKept`: losses, closes, rebinds), one row passes a chat to another
(`OncePassed`: a send runs, a message arrives, a queue is read), and a new chat
enters (`OnceFresh`: a request; `Routed` and `SelectedSends` show that of the
messages routed to the participants the transport accepts at most one). `ChatOncePerPeer` follows.

### Only model-checked

`BreakIsAnnounced`, `EverySendEnds`, `VanishedIsDropped` and `AnnouncedIsHeard`:
liveness under fairness is out of the prover's reach. The five runs that end in a
violation show single courses of the code; there is nothing to prove in them.
That the order of `outbox` in `BloomServer` is the one `WsDelivery` produces is
`SendsEndInOrder`, stated with the `Runnable` the two modules share; a refinement of
one by the other is not stated, as `WsDelivery` has sends and connections only.

## 5. Plan

In this order; each item brings its runs, and theorems where named.

1. `RoomTable`, `RoomManager`, `RoomMembership`, `BloomServer`, `WsRateLimiter`
   with their proofs (done).
2. `SendOrder`, `WsDelivery` (done, `SendsEndInOrder` proved).
3. `SyncRateLimiter` (done, proved).
4. `SyncMessages`, `SyncCodec` (done, proved).
5. `ParticipantTable`, `BasicSyncer`, `SyncerPair` (done; all safety proved).
6. `SignalingAdapter` (done, proved).
7. `Client`, `VoiceTrack`, `MemoryTransport`, `Handshake` (done, proved).
8. Proofs for the server's news, relays, greetings and members (done).
9. Left: the safety halves of the liveness properties (a break once noticed stays
   due until it is announced; a join announced stays on its way until heard or
   its transport ends), and the abstract promise of the syncer (a set of
   participants, told change by change) as a specification that `SyncerPair`
   implements.

## 6. Not modelled

- Text: SDP, ICE, JSON and HTTP as strings, the WebSocket upgrade, error wording.
  Invalid text is an outcome (`BadText`, `typed`, an invalid payload), not text.
- The webrtc crate: ICE, SCTP and RTP appear as what their channels promise; the
  exchange of offers that makes a pair of transports is an initial state, and so
  are the constructors that have no peer connection (`new`, `pair_for_tests`).
- `DeliverySink` and the broadcasts of `bloom/core/src/signaling.rs`, which the
  server does not use; the serde-derived types of `bloom/api` beyond the kinds
  of message.
- The `TryFrom` conversions of single payload types, which repeat the parser's
  checks; tracing contexts and logging.
- Bevy's scheduler, poses and the demo motion; Godot's rendering, the mapping of
  transforms, and the meaning of placeholder input events.
- Mocks, recording sinks, `StubSyncer`, tests, scripts, assets and documents.
- A failure of `bridge.on_shutdown` in `ClientBootstrap::shutdown`
  (`client/domain/src/bridge.rs` lines 83 to 104): the bridge it has outside the
  tests, `RuntimeBridgeAdapter`, cannot fail there.
- `send_dummy_audio_frame`, which writes to the track and changes no state.
- Applications that send in the name of anybody but a participant of their own side.
- Loss inside a socket: an abnormal end of the connection, as TCP has it.
