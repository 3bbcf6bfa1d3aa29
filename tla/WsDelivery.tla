----------------------------- MODULE WsDelivery -----------------------------
(***************************************************************************)
(* The locks of the WebSocket server (bloom/ws/src/server.rs): the map of  *)
(* peers and the sink of each connection are behind fair asynchronous      *)
(* mutexes, and a send keeps what it has locked until the socket has taken *)
(* the message.  The tasks of connections queue for the same locks: to     *)
(* register, to ping, to close and to deregister.                          *)
(*                                                                         *)
(* A step is what a task does from one await to the next.  What handlers   *)
(* decide is left to BloomServer: here they spawn any sends they could.    *)
(***************************************************************************)
EXTENDS SendOrder, FiniteSets, Functions

CONSTANTS
  Conn,          \* connections, each accepted at most once
  Participant,   \* ParticipantId
  IdOf,          \* the participant id given to each connection
  MissAllowed,   \* PingConfig.miss_allowed, 2 in the code
  MaxSends       \* bound: handlers spawn no more sends than this

ASSUME DeliveryAssumption ==
  /\ IdOf \in [Conn -> Participant]
  /\ MissAllowed \in Nat \ {0}
  /\ MaxSends \in Nat

VARIABLES
  spawned,     \* the number of sends spawned so far, which numbers them
  ready,       \* spawned sends the runtime has not polled yet
  mapQueue,    \* sends and connections at the lock of peers; the first holds it
  sinkQueue,   \* the same for the lock of each sink
  phase,       \* how far handle_connection has got for each connection
  missed,      \* ticks of the ping timer since the last pong
  link         \* what the other end of each socket does

tasks == <<outbox, spawned, ready>>
locks == <<mapQueue, sinkQueue>>
vars == <<tasks, locks, peers, phase, missed, link>>

Phase == {"new", "inserting", "loop", "pinging", "ponging", "closing", "grace",
          "removing", "gone"}

(***************************************************************************)
(* A stalled client reads nothing and its buffers are full; a mute one has *)
(* vanished while there is room in the buffers; to a broken socket every   *)
(* write fails at once.                                                    *)
(***************************************************************************)
Link == {"reading", "stalled", "mute", "broken"}

Task ==
  [via : {"sink"}, dest : Conn, msg : Nat]
    \cup [via : {"peers"}, dest : Participant, msg : Nat]

\* What waits for a lock is told apart: a connection is not a send.
ASSUME WaitersAssumption == \A c \in Conn : c \notin Task

Init ==
  /\ outbox = <<>>
  /\ peers = [p \in {} |-> {}]
  /\ spawned = 0
  /\ ready = <<>>
  /\ mapQueue = <<>>
  /\ sinkQueue = [c \in Conn |-> <<>>]
  /\ phase = [c \in Conn |-> "new"]
  /\ missed = [c \in Conn |-> 0]
  /\ link = [c \in Conn |-> "reading"]

Become(c, next) == phase' = [phase EXCEPT ![c] = next]

\* The receive loop is over, and last_pong with it.
Quit(c, next) == Become(c, next) /\ missed' = [missed EXCEPT ![c] = 0]

QueueForMap(w) == mapQueue' = Append(mapQueue, w)

QueueForSink(d, w) == sinkQueue' = [sinkQueue EXCEPT ![d] = Append(@, w)]

SpawnAll(sends) ==
  /\ spawned' = spawned + Len(sends)
  /\ outbox' = outbox \o sends
  /\ ready' = ready \o sends
-----------------------------------------------------------------------------
(***************************************************************************)
(* Connections: registration, requests and the end.                        *)
(***************************************************************************)
Accept(c) ==
  /\ phase[c] = "new"
  /\ Become(c, "inserting")
  /\ QueueForMap(c)
  /\ UNCHANGED <<tasks, peers, sinkQueue, missed, link>>

HoldsMap(c) == mapQueue # <<>> /\ Head(mapQueue) = c

\* insert: a replaced connection is sent a Close.
Insert(c) ==
  LET p == IdOf[c] IN
  /\ phase[c] = "inserting"
  /\ HoldsMap(c)
  /\ mapQueue' = Tail(mapQueue)
  /\ peers' = [q \in DOMAIN peers \cup {p} |-> IF q = p THEN c ELSE peers[q]]
  /\ SpawnAll(IF p \in DOMAIN peers
              THEN <<Direct(peers[p], spawned + 1)>>
              ELSE <<>>)
  /\ Become(c, "loop")
  /\ UNCHANGED <<sinkQueue, missed, link>>

\* PeerConnected or PeerDisconnected to each of a list, then RoomParticipants.
RoomNews(list) ==
  [i \in 1 .. 2 * Len(list) |-> SendTo(list[((i - 1) % Len(list)) + 1], spawned + i)]

Lists ==
  {list \in UNION {[1 .. n -> Participant] : n \in 0 .. Cardinality(Participant)} :
     IsInjective(list)}

\* handle_text_message: an answer, a relayed message or news of the room.
Handle(c) ==
  /\ phase[c] = "loop"
  /\ link[c] \in {"reading", "stalled"}
  /\ \E sends \in {<<Direct(c, spawned + 1)>>}
                    \cup {<<SendTo(p, spawned + 1)>> : p \in Participant}
                    \cup {RoomNews(list) : list \in Lists} :
       /\ sends # <<>>
       /\ spawned + Len(sends) <= MaxSends
       /\ SpawnAll(sends)
  /\ UNCHANGED <<locks, peers, phase, missed, link>>

\* A Ping of the client, answered through the sink.
ClientPing(c) ==
  /\ phase[c] = "loop"
  /\ link[c] \in {"reading", "stalled"}
  /\ Become(c, "ponging")
  /\ QueueForSink(c, c)
  /\ UNCHANGED <<tasks, mapQueue, peers, missed, link>>

Pong(c) ==
  /\ phase[c] = "loop"
  /\ link[c] = "reading"
  /\ missed' = [missed EXCEPT ![c] = 0]
  /\ UNCHANGED <<tasks, locks, peers, phase, link>>

(***************************************************************************)
(* An interval of the ping timer goes by.  Only the receive loop listens   *)
(* to the timer: elsewhere the tick is skipped and only time has passed.   *)
(***************************************************************************)
Interval(c) ==
  /\ \/ /\ phase[c] = "loop"
        /\ Become(c, "pinging")
        /\ QueueForSink(c, c)
     \/ /\ phase[c] \in {"pinging", "ponging"}
        /\ missed[c] <= MissAllowed
        /\ UNCHANGED <<phase, sinkQueue>>
  /\ missed' = [missed EXCEPT ![c] = IF @ <= MissAllowed THEN @ + 1 ELSE @]
  /\ UNCHANGED <<tasks, mapQueue, peers, link>>

\* Close with code 1000 or 1001, after which the client is not there.
NormalClose(c) ==
  /\ phase[c] = "loop"
  /\ link[c] \in {"reading", "stalled"}
  /\ Quit(c, "removing")
  /\ QueueForMap(c)
  /\ link' = [link EXCEPT ![c] = "broken"]
  /\ UNCHANGED <<tasks, peers, sinkQueue>>

\* A binary frame is answered with a Close.
BinaryFrame(c) ==
  /\ phase[c] = "loop"
  /\ link[c] \in {"reading", "stalled"}
  /\ Quit(c, "closing")
  /\ QueueForSink(c, c)
  /\ UNCHANGED <<tasks, mapQueue, peers, link>>

\* An error or the end of the stream, noticed by the receive loop.
Notice(c) ==
  /\ phase[c] = "loop"
  /\ link[c] = "broken"
  /\ Quit(c, "grace")
  /\ UNCHANGED <<tasks, locks, peers, link>>

\* handle_abnormal_close, with news for those who remain in the room, if any.
GraceElapsed(c) ==
  /\ phase[c] = "grace"
  /\ \E list \in Lists :
       /\ IdOf[c] \notin Range(list)
       /\ list # <<>> => spawned + 2 * Len(list) <= MaxSends
       /\ SpawnAll(RoomNews(list))
  /\ Become(c, "removing")
  /\ QueueForMap(c)
  /\ UNCHANGED <<peers, sinkQueue, missed, link>>

\* remove_if_same
Remove(c) ==
  /\ phase[c] = "removing"
  /\ HoldsMap(c)
  /\ mapQueue' = Tail(mapQueue)
  /\ peers' = Restrict(peers, {p \in DOMAIN peers : ~(p = IdOf[c] /\ peers[p] = c)})
  /\ Become(c, "gone")
  /\ UNCHANGED <<tasks, sinkQueue, missed, link>>
-----------------------------------------------------------------------------
(***************************************************************************)
(* Sends.                                                                  *)
(***************************************************************************)
\* The first poll of a spawned send, in the order of spawning.
Start ==
  /\ ready # <<>>
  /\ ready' = Tail(ready)
  /\ LET t == Head(ready) IN
     \/ t.via = "sink" /\ QueueForSink(t.dest, t) /\ UNCHANGED mapQueue
     \/ t.via = "peers" /\ QueueForMap(t) /\ UNCHANGED sinkQueue
  /\ UNCHANGED <<outbox, spawned, peers, phase, missed, link>>

Done(t) == \E i \in DOMAIN outbox : outbox[i] = t /\ Finish(i)

LooksUp(t) == \A d \in Conn : t \notin Range(sinkQueue[d])

\* The map unlocked before the sink is locked (for mutation).
LookUpReleasing ==
  /\ mapQueue # <<>>
  /\ LET t == Head(mapQueue) IN
     /\ t \notin Conn
     /\ mapQueue' = Tail(mapQueue)
     /\ \/ \E d \in Reached(t) : QueueForSink(d, t) /\ UNCHANGED outbox
        \/ Reached(t) = {} /\ Done(t) /\ UNCHANGED sinkQueue
  /\ UNCHANGED <<spawned, ready, peers, phase, missed, link>>

\* peers.lock().await.get(&to): the guard lives on while the sink is awaited.
LookUp ==
  /\ mapQueue # <<>>
  /\ LET t == Head(mapQueue) IN
     /\ t \notin Conn
     /\ LooksUp(t)
     /\ \/ \E d \in Reached(t) : QueueForSink(d, t) /\ UNCHANGED <<outbox, mapQueue>>
        \/ /\ Reached(t) = {}
           /\ Done(t)
           /\ mapQueue' = Tail(mapQueue)
           /\ UNCHANGED sinkQueue
  /\ UNCHANGED <<spawned, ready, peers, phase, missed, link>>

\* The map is free again if it was locked for this send.
ReleaseMap(t) ==
  mapQueue' = IF HoldsMap(t) THEN Tail(mapQueue) ELSE mapQueue

CanWrite(d) == sinkQueue[d] # <<>> /\ link[d] # "stalled"

WriteSend(d) ==
  LET t == Head(sinkQueue[d]) IN
  /\ CanWrite(d)
  /\ t # d
  /\ Done(t)
  /\ ReleaseMap(t)
  /\ sinkQueue' = [sinkQueue EXCEPT ![d] = Tail(@)]
  /\ UNCHANGED <<spawned, ready, peers, phase, missed, link>>

\* A ping that counts as a sign of life (for mutation).
WritePingForgiving(c) ==
  /\ CanWrite(c)
  /\ Head(sinkQueue[c]) = c
  /\ phase[c] = "pinging"
  /\ Become(c, "loop")
  /\ missed' = [missed EXCEPT ![c] = 0]
  /\ sinkQueue' = [sinkQueue EXCEPT ![c] = Tail(@)]
  /\ UNCHANGED <<tasks, mapQueue, peers, link>>

(***************************************************************************)
(* The ping is out: either last_pong is too old, or back to the receive    *)
(* loop.  The last pong came within the interval before the first missed   *)
(* tick, so that its age may be anything from missed - 1 to missed         *)
(* intervals.  What has exceeded MissAllowed is not counted any further.   *)
(***************************************************************************)
WritePing(c) ==
  /\ CanWrite(c)
  /\ Head(sinkQueue[c]) = c
  /\ phase[c] = "pinging"
  /\ \/ /\ missed[c] >= MissAllowed
        /\ Quit(c, "closing")
        /\ sinkQueue' = [sinkQueue EXCEPT ![c] = Append(Tail(@), c)]
     \/ /\ missed[c] <= MissAllowed
        /\ Become(c, "loop")
        /\ sinkQueue' = [sinkQueue EXCEPT ![c] = Tail(@)]
        /\ UNCHANGED missed
  /\ UNCHANGED <<tasks, mapQueue, peers, link>>

WritePong(c) ==
  /\ CanWrite(c)
  /\ Head(sinkQueue[c]) = c
  /\ phase[c] = "ponging"
  /\ Become(c, "loop")
  /\ sinkQueue' = [sinkQueue EXCEPT ![c] = Tail(@)]
  /\ UNCHANGED <<tasks, mapQueue, peers, missed, link>>

\* The guard of the sink kept to the end of the task (for mutation).
WriteCloseKeeping(c) ==
  /\ CanWrite(c)
  /\ Head(sinkQueue[c]) = c
  /\ phase[c] = "closing"
  /\ Become(c, "grace")
  /\ UNCHANGED <<tasks, locks, peers, missed, link>>

WriteClose(c) ==
  /\ CanWrite(c)
  /\ Head(sinkQueue[c]) = c
  /\ phase[c] = "closing"
  /\ Become(c, "grace")
  /\ sinkQueue' = [sinkQueue EXCEPT ![c] = Tail(@)]
  /\ UNCHANGED <<tasks, mapQueue, peers, missed, link>>

Write(d) == WriteSend(d) \/ WritePing(d) \/ WritePong(d) \/ WriteClose(d)
-----------------------------------------------------------------------------
\* Clients and networks: a socket is open as long as somebody uses it.
Drift(c, from, to) ==
  /\ phase[c] \notin {"new", "inserting"}
  /\ phase[c] = "gone" => sinkQueue[c] # <<>>
  /\ link[c] \in from
  /\ link' = [link EXCEPT ![c] = to]
  /\ UNCHANGED <<tasks, locks, peers, phase, missed>>

Stall(c) == Drift(c, {"reading"}, "stalled")
Resume(c) == Drift(c, {"stalled"}, "reading")
Vanish(c) == Drift(c, {"reading"}, "mute")
Break(c) == Drift(c, {"reading", "stalled", "mute"}, "broken")

Client(c) ==
  \/ Accept(c) \/ Handle(c) \/ ClientPing(c) \/ Pong(c)
  \/ NormalClose(c) \/ BinaryFrame(c)
  \/ Stall(c) \/ Resume(c) \/ Vanish(c) \/ Break(c)

Server(c) ==
  \/ Insert(c) \/ Interval(c) \/ Notice(c) \/ GraceElapsed(c) \/ Remove(c)
  \/ Write(c)

Next ==
  \/ \E c \in Conn : Client(c) \/ Server(c)
  \/ Start
  \/ LookUp

Spec == Init /\ [][Next]_vars

(***************************************************************************)
(* The runtime polls every task it has woken, an unlocked mutex wakes the  *)
(* next in its queue, timers go off, and a socket with room takes what is  *)
(* written.  Clients owe nothing, not even to read.                        *)
(***************************************************************************)
Fairness ==
  /\ WF_vars(Start)
  /\ WF_vars(LookUp)
  /\ \A c \in Conn :
       /\ WF_vars(Insert(c)) /\ WF_vars(Interval(c)) /\ WF_vars(Notice(c))
       /\ WF_vars(GraceElapsed(c)) /\ WF_vars(Remove(c)) /\ WF_vars(Write(c))

FairSpec == Spec /\ Fairness
-----------------------------------------------------------------------------
\* Every variable has its type; a connection queues for the locks its phase says.
TypeOK ==
  /\ outbox \in Seq(Task)
  /\ DOMAIN peers \subseteq Participant
  /\ peers \in [DOMAIN peers -> Conn]
  /\ spawned \in Nat
  /\ ready \in Seq(Task)
  /\ mapQueue \in Seq(Task \cup Conn)
  /\ \A c \in Conn :
       /\ sinkQueue[c] \in Seq(Task \cup {c})
       /\ c \in Range(mapQueue) <=> phase[c] \in {"inserting", "removing"}
       /\ c \in Range(sinkQueue[c]) <=> phase[c] \in {"pinging", "ponging", "closing"}
  /\ phase \in [Conn -> Phase]
  /\ missed \in [Conn -> 0 .. MissAllowed + 1]
  /\ link \in [Conn -> Link]

(***************************************************************************)
(* A send is done only when SendOrder says it may be: through two locks    *)
(* taken one after the other, with registrations, pings and closes of      *)
(* connections queueing for the same ones, no broadcast overtakes a        *)
(* broadcast and nothing overtakes on its way to a sink.  This is what     *)
(* BloomServer assumes of the order of sends.                              *)
(***************************************************************************)
SendsAreOrdered ==
  [][\A i \in DOMAIN outbox :
       (\A j \in DOMAIN outbox' : outbox'[j] # outbox[i]) => Runnable(i)]_vars

\* In the end no client is stuck with full buffers.
AllRead == \A c \in Conn : <>[](link[c] # "stalled")

Waiting(n) == \E i \in DOMAIN outbox : outbox[i].msg = n

(***************************************************************************)
(* As long as clients read, every send gets done: no order in which sends, *)
(* pings, closes and registrations take the locks blocks them for good.    *)
(* All clients have to read, not only the receiver: a send holds the map   *)
(* while it waits for its sink (server.rs lines 257 to 260).               *)
(***************************************************************************)
EverySendEnds ==
  AllRead => \A n \in 1 .. MaxSends : Waiting(n) ~> ~Waiting(n)

(***************************************************************************)
(* A client that vanished without a trace is found out by the ping timer   *)
(* and its connection ends, also if its task was at something else.        *)
(***************************************************************************)
VanishedIsDropped ==
  AllRead => \A c \in Conn : link[c] = "mute" ~> phase[c] = "gone"

(***************************************************************************)
(* "disconnects_on_missing_pong" (tests/ping_pong.rs line 14): a client    *)
(* that does not read, and so answers no ping, is disconnected as well     *)
(* once the timer has sent its connection to ping it (server.rs line 525). *)
(***************************************************************************)
StalledIsDropped ==
  \A c \in Conn :
    link[c] = "stalled" /\ phase[c] = "pinging" ~>
      link[c] # "stalled" \/ phase[c] \in {"grace", "removing", "gone"}
=============================================================================
