---------------------------- MODULE BloomServer ----------------------------
(***************************************************************************)
(* The Bloom signaling server (bloom/ws around bloom/core): connections,   *)
(* their handlers, the shared room table, the map of registered peers and  *)
(* the send tasks the handlers spawn.                                      *)
(*                                                                         *)
(* The server runs on one thread (main.rs line 6), so whatever a task does *)
(* between two awaits is one step: a handler treats a text message in one  *)
(* step, but what it sends is only spawned, and reaches sockets later, in  *)
(* an order SendOrder allows.  Sockets are prompt here: clients that stop  *)
(* reading, the locks and the ping timer are the subject of WsDelivery.    *)
(*                                                                         *)
(* SDP and ICE payloads are left out, and Offer, Answer and IceCandidate   *)
(* are one message, Relay: their handlers differ in the payload only.      *)
(***************************************************************************)
EXTENDS RoomTable, SendOrder

CONSTANTS
  Conn,         \* connections, each accepted at most once
  IdOf,         \* the participant id given to each connection
  NoRoom,       \* None, as the room_id of a handler
  MaxBacklog,   \* bound: clients are silent while more sends are pending
  LeavesFirst   \* clients leave a room before they create or join another

ASSUME ConnAssumption ==
  /\ IdOf \in [Conn -> Participant]
  /\ NoRoom \notin RoomId
  /\ MaxBacklog \in Nat
  /\ LeavesFirst \in BOOLEAN

VARIABLES
  rooms,     \* the room table of the core
  used,      \* room ids handed out so far
  phase,     \* how far handle_connection has got for each connection
  exit,      \* why a connection ended; Media is Abnormal after a binary frame
  roomOf,    \* WsHandler.room_id
  reply,     \* the code of the Error the last step sent back, if any
  known,     \* rooms whose id a client has received, and may have passed on
  shut,      \* connections whose sink has sent a Close frame
  roster,    \* the last participant list each client received, by room
  greeted    \* whom each client knows from PeerConnected/PeerDisconnected

server == <<rooms, used, phase, exit, roomOf, peers>>
client == <<known, shut, roster, greeted>>
vars == <<server, outbox, reply, client>>

Phase == {"idle", "open", "grace", "deregister", "closed"}
Exit == {"none", "Normal", "Abnormal", "Media"}
Reply == {"none", "RateLimited", "InvalidPayload", "RoomFull", "RoomNotFound",
          "ParticipantNotFound", "Internal"}

Message ==
  [kind : {"RoomCreated"}, room : RoomId]
    \cup [kind : {"PeerConnected", "PeerDisconnected"}, who : Participant]
    \cup [kind : {"RoomParticipants"}, room : RoomId, list : Seq(Participant)]
    \cup [kind : {"Relay"}, from : Participant, room : RoomId]
    \cup [kind : {"Close"}]

\* What SendOrder's tasks are here.
Task ==
  [via : {"sink"}, dest : Conn, msg : Message]
    \cup [via : {"peers"}, dest : Participant, msg : Message]

\* for p in list { broadcast.send_to(p, m) }
ToEach(list, m) == [i \in 1 .. Len(list) |-> SendTo(list[i], m)]

RoomCreated(r) == [kind |-> "RoomCreated", room |-> r]
PeerConnected(p) == [kind |-> "PeerConnected", who |-> p]
PeerDisconnected(p) == [kind |-> "PeerDisconnected", who |-> p]
RoomParticipants(r, list) == [kind |-> "RoomParticipants", room |-> r, list |-> list]
Relay(p, r) == [kind |-> "Relay", from |-> p, room |-> r]
Close == [kind |-> "Close"]

Init ==
  /\ rooms = NoRooms
  /\ used = {}
  /\ phase = [c \in Conn |-> "idle"]
  /\ exit = [c \in Conn |-> "none"]
  /\ roomOf = [c \in Conn |-> NoRoom]
  /\ peers = [p \in {} |-> {}]
  /\ outbox = <<>>
  /\ reply = "none"
  /\ known = {}
  /\ shut = {}
  /\ roster = [c \in Conn |-> [r \in RoomId |-> <<>>]]
  /\ greeted = [c \in Conn |-> {}]
-----------------------------------------------------------------------------
(***************************************************************************)
(* A new connection registers under its id.  If the id is registered       *)
(* already the entry is replaced and the old connection is sent a Close.   *)
(***************************************************************************)
Accept(c) ==
  LET p == IdOf[c] IN
  /\ phase[c] = "idle"
  /\ phase' = [phase EXCEPT ![c] = "open"]
  /\ peers' = [q \in DOMAIN peers \cup {p} |-> IF q = p THEN c ELSE peers[q]]
  /\ outbox' = IF p \in DOMAIN peers
               THEN Append(outbox, Direct(peers[p], Close))
               ELSE outbox
  /\ reply' = "none"
  /\ UNCHANGED <<rooms, used, exit, roomOf, client>>

Speaks(c) == phase[c] = "open" /\ Len(outbox) <= MaxBacklog

Answer(code) ==
  /\ reply' = code
  /\ UNCHANGED <<server, outbox, client>>

\* Over the rate limit: the message is dropped whatever it says.
DropText(c) == Speaks(c) /\ Answer("RateLimited")

\* Not a message, or an id in it that is not a UUID.
BadText(c) == Speaks(c) /\ Answer("InvalidPayload")

\* A room id that RoomId::new may give again (for mutation).
CreateRoomAgain(c) ==
  /\ Speaks(c)
  /\ LeavesFirst => roomOf[c] = NoRoom
  /\ \E r \in RoomId \ DOMAIN rooms :
       /\ rooms' = Created(rooms, r, IdOf[c])
       /\ roomOf' = [roomOf EXCEPT ![c] = r]
       /\ outbox' = Append(outbox, Direct(c, RoomCreated(r)))
  /\ reply' = "none"
  /\ UNCHANGED <<used, phase, exit, peers, client>>

\* The room id of the handler is overwritten: a room it was in keeps it.
CreateRoom(c) ==
  /\ Speaks(c)
  /\ LeavesFirst => roomOf[c] = NoRoom
  /\ \E r \in RoomId \ used :
       /\ rooms' = Created(rooms, r, IdOf[c])
       /\ used' = used \cup {r}
       /\ roomOf' = [roomOf EXCEPT ![c] = r]
       /\ outbox' = Append(outbox, Direct(c, RoomCreated(r)))
  /\ reply' = "none"
  /\ UNCHANGED <<phase, exit, peers, client>>

\* The lists sent before the PeerConnected events (for mutation).
ArriveListed(p, r) ==
  LET list == Joined(rooms, r, p)[r] IN
  /\ rooms' = Joined(rooms, r, p)
  /\ outbox' = outbox \o ToEach(list, RoomParticipants(r, list))
                      \o ToEach(list, PeerConnected(p))

\* join_room for p and the news of it to all members, p included.
Arrive(p, r) ==
  LET list == Joined(rooms, r, p)[r] IN
  /\ rooms' = Joined(rooms, r, p)
  /\ outbox' = outbox \o ToEach(list, PeerConnected(p))
                      \o ToEach(list, RoomParticipants(r, list))

\* The room id stored before join_room has answered (for mutation).
JoinRoomEagerly(c, r) ==
  /\ Speaks(c)
  /\ LeavesFirst => roomOf[c] = NoRoom
  /\ r \in known
  /\ roomOf' = [roomOf EXCEPT ![c] = r]
  /\ \/ r \notin DOMAIN rooms /\ UNCHANGED <<rooms, outbox>>
     \/ /\ r \in DOMAIN rooms
        /\ IsFull(rooms, r, IdOf[c])
        /\ UNCHANGED <<rooms, outbox>>
     \/ /\ r \in DOMAIN rooms
        /\ ~IsFull(rooms, r, IdOf[c])
        /\ Arrive(IdOf[c], r)
  /\ reply' = "none"
  /\ UNCHANGED <<used, phase, exit, peers, client>>

JoinRoom(c, r) ==
  /\ Speaks(c)
  /\ LeavesFirst => roomOf[c] = NoRoom
  /\ r \in known
  /\ \/ r \notin DOMAIN rooms /\ Answer("RoomNotFound")
     \/ /\ r \in DOMAIN rooms
        /\ IsFull(rooms, r, IdOf[c])
        /\ Answer("RoomFull")
     \/ /\ r \in DOMAIN rooms
        /\ ~IsFull(rooms, r, IdOf[c])
        /\ Arrive(IdOf[c], r)
        /\ roomOf' = [roomOf EXCEPT ![c] = r]
        /\ reply' = "none"
        /\ UNCHANGED <<used, phase, exit, peers, client>>

\* Only PeerDisconnected is sent (for mutation).
DepartUnlisted(p, r) ==
  LET rest == ListOf(Left(rooms, r, p), r) IN
  /\ rooms' = Left(rooms, r, p)
  /\ outbox' = outbox \o ToEach(rest, PeerDisconnected(p))

\* leave_room for p and the news of it to those who remain.
Depart(p, r) ==
  LET rest == ListOf(Left(rooms, r, p), r) IN
  /\ rooms' = Left(rooms, r, p)
  /\ outbox' = outbox \o ToEach(rest, PeerDisconnected(p))
                      \o ToEach(rest, RoomParticipants(r, rest))

LeaveRoom(c) ==
  /\ Speaks(c)
  /\ \/ roomOf[c] = NoRoom /\ Answer("InvalidPayload")
     \/ /\ roomOf[c] # NoRoom
        /\ roomOf[c] \notin DOMAIN rooms
        /\ Answer("Internal")
     \/ /\ roomOf[c] # NoRoom
        /\ roomOf[c] \in DOMAIN rooms
        /\ Depart(IdOf[c], roomOf[c])
        /\ roomOf' = [roomOf EXCEPT ![c] = NoRoom]
        /\ reply' = "none"
        /\ UNCHANGED <<used, phase, exit, peers, client>>

\* The receiver looked up in any room (for mutation).
MayRelayAnywhere(r, from, to) ==
  from \in MembersOf(rooms, r) /\ \E s \in RoomId : to \in MembersOf(rooms, s)

\* The membership test of RealCore: both ends in the room of the sender.
MayRelay(r, from, to) == {from, to} \subseteq MembersOf(rooms, r)

Signal(c, to) ==
  /\ Speaks(c)
  /\ \/ roomOf[c] = NoRoom /\ Answer("InvalidPayload")
     \/ /\ roomOf[c] # NoRoom
        /\ ~MayRelay(roomOf[c], IdOf[c], to)
        /\ Answer("ParticipantNotFound")
     \/ /\ roomOf[c] # NoRoom
        /\ MayRelay(roomOf[c], IdOf[c], to)
        /\ outbox' = Append(outbox, SendTo(to, Relay(IdOf[c], roomOf[c])))
        /\ reply' = "none"
        /\ UNCHANGED <<server, client>>
-----------------------------------------------------------------------------
\* The client is gone: nothing more is received on this connection.
Ends(c, why) ==
  /\ phase[c] = "open"
  /\ exit' = [exit EXCEPT ![c] = why]
  /\ roster' = [roster EXCEPT ![c] = [r \in RoomId |-> <<>>]]
  /\ greeted' = [greeted EXCEPT ![c] = {}]
  /\ reply' = "none"
  /\ UNCHANGED <<rooms, used, peers, outbox, known, shut>>

\* A Close frame with code 1000 or 1001: no leave_room, whatever the room.
NormalClose(c) ==
  /\ Ends(c, "Normal")
  /\ phase' = [phase EXCEPT ![c] = "deregister"]
  /\ UNCHANGED roomOf

\* Every close treated as a normal one (for mutation).
AbnormalCloseAtOnce(c) ==
  /\ Ends(c, "Abnormal")
  /\ phase' = [phase EXCEPT ![c] = "deregister"]
  /\ UNCHANGED roomOf

\* Another code or none, an error, end of stream, or pings left unanswered.
AbnormalClose(c) ==
  /\ Ends(c, "Abnormal")
  /\ phase' = [phase EXCEPT ![c] = "grace"]
  /\ UNCHANGED roomOf

\* A binary frame: the room id is cleared so that no leave_room follows.
BinaryFrame(c) ==
  /\ Ends(c, "Media")
  /\ phase' = [phase EXCEPT ![c] = "grace"]
  /\ roomOf' = [roomOf EXCEPT ![c] = NoRoom]

\* ABNORMAL_DISCONNECT_GRACE is over: handle_abnormal_close.
GraceElapsed(c) ==
  /\ phase[c] = "grace"
  /\ phase' = [phase EXCEPT ![c] = "deregister"]
  /\ \/ /\ roomOf[c] \in DOMAIN rooms
        /\ Depart(IdOf[c], roomOf[c])
     \/ /\ roomOf[c] \notin DOMAIN rooms
        /\ UNCHANGED <<rooms, outbox>>
  /\ roomOf' = [roomOf EXCEPT ![c] = NoRoom]
  /\ reply' = "none"
  /\ UNCHANGED <<used, exit, peers, client>>

\* remove in place of remove_if_same (for mutation).
DeregisterAnyway(c) ==
  /\ phase[c] = "deregister"
  /\ phase' = [phase EXCEPT ![c] = "closed"]
  /\ roomOf' = [roomOf EXCEPT ![c] = NoRoom]
  /\ peers' = Restrict(peers, DOMAIN peers \ {IdOf[c]})
  /\ reply' = "none"
  /\ UNCHANGED <<rooms, used, exit, outbox, client>>

\* remove_if_same, after which the handler is dropped with its task.
Deregister(c) ==
  /\ phase[c] = "deregister"
  /\ phase' = [phase EXCEPT ![c] = "closed"]
  /\ roomOf' = [roomOf EXCEPT ![c] = NoRoom]
  /\ \/ /\ \E p \in DOMAIN peers : p = IdOf[c] /\ peers[p] = c
        /\ peers' = Restrict(peers, DOMAIN peers \ {IdOf[c]})
     \/ /\ ~\E p \in DOMAIN peers : p = IdOf[c] /\ peers[p] = c
        /\ UNCHANGED peers
  /\ reply' = "none"
  /\ UNCHANGED <<rooms, used, exit, outbox, client>>
-----------------------------------------------------------------------------
Receives(c) == phase[c] = "open" /\ c \notin shut

\* What the client on connection c makes of a message.
Receive(c, m) ==
  \/ /\ m.kind = "RoomCreated"
     /\ roster' = [roster EXCEPT ![c][m.room] = <<IdOf[c]>>]
     /\ known' = known \cup {m.room}
     /\ UNCHANGED <<shut, greeted>>
  \/ /\ m.kind = "RoomParticipants"
     /\ roster' = [roster EXCEPT ![c][m.room] = m.list]
     /\ UNCHANGED <<known, shut, greeted>>
  \/ /\ m.kind = "PeerConnected"
     /\ greeted' = [greeted EXCEPT ![c] = @ \cup {m.who}]
     /\ UNCHANGED <<known, shut, roster>>
  \/ /\ m.kind = "PeerDisconnected"
     /\ greeted' = [greeted EXCEPT ![c] = @ \ {m.who}]
     /\ UNCHANGED <<known, shut, roster>>
  \/ /\ m.kind = "Close"
     /\ shut' = shut \cup {c}
     /\ UNCHANGED <<known, roster, greeted>>
  \/ m.kind = "Relay" /\ UNCHANGED client

Deliver(i) ==
  LET t == outbox[i] IN
  /\ Runnable(i)
  /\ Finish(i)
  /\ \/ \E c \in Reached(t) : Receives(c) /\ Receive(c, t.msg)
     \/ /\ \A c \in Reached(t) : ~Receives(c)
        /\ UNCHANGED client
  /\ reply' = "none"
  /\ UNCHANGED server

DeliverDirect(c) ==
  \E i \in DOMAIN outbox :
    outbox[i].via = "sink" /\ outbox[i].dest = c /\ Deliver(i)

DeliverBroadcast ==
  \E i \in DOMAIN outbox : outbox[i].via = "peers" /\ Deliver(i)

Speak(c) ==
  \/ DropText(c)
  \/ BadText(c)
  \/ CreateRoom(c)
  \/ \E r \in RoomId : JoinRoom(c, r)
  \/ LeaveRoom(c)
  \/ \E to \in Participant : Signal(c, to)

Next ==
  \/ \E c \in Conn :
       \/ Accept(c) \/ Speak(c)
       \/ NormalClose(c) \/ AbnormalClose(c) \/ BinaryFrame(c)
       \/ GraceElapsed(c) \/ Deregister(c)
       \/ DeliverDirect(c)
  \/ DeliverBroadcast

Spec == Init /\ [][Next]_vars

(***************************************************************************)
(* The runtime polls every task that can run, and the grace period is a    *)
(* timer: both go on whatever the clients do.  Clients owe nothing.        *)
(***************************************************************************)
Fairness ==
  /\ WF_vars(DeliverBroadcast)
  /\ \A c \in Conn : /\ WF_vars(DeliverDirect(c))
                     /\ WF_vars(GraceElapsed(c))
                     /\ WF_vars(Deregister(c))

FairSpec == Spec /\ Fairness
-----------------------------------------------------------------------------
(***************************************************************************)
(* Properties.                                                             *)
(***************************************************************************)
\* Every variable has its type, and rooms are known by ids handed out.
TypeOK ==
  /\ used \subseteq RoomId
  /\ DOMAIN rooms \subseteq used
  /\ rooms \in [DOMAIN rooms -> Seq(Participant)]
  /\ phase \in [Conn -> Phase]
  /\ exit \in [Conn -> Exit]
  /\ roomOf \in [Conn -> used \cup {NoRoom}]
  /\ DOMAIN peers \subseteq Participant
  /\ peers \in [DOMAIN peers -> Conn]
  /\ outbox \in Seq(Task)
  /\ reply \in Reply
  /\ known \subseteq used
  /\ shut \subseteq Conn
  /\ roster \in [Conn -> [RoomId -> Seq(Participant)]]
  /\ greeted \in [Conn -> SUBSET Participant]

\* Ids are fresh UUIDs unless ServerOverrides provides them.
UniqueIds == \A c, d \in Conn : IdOf[c] = IdOf[d] => c = d

\* No room is empty, over MAX_PARTICIPANTS or lists anyone twice, through
\* all the ways in which handlers and grace timers call the RoomManager.
RoomsWellFormed == WellFormed(rooms)

(***************************************************************************)
(* Connections, grace timers and handlers, each with its own copy of the   *)
(* room id, do to the rooms only what RoomMembership allows.               *)
(***************************************************************************)
Membership == INSTANCE RoomMembership
  WITH member <- [r \in RoomId |-> MembersOf(rooms, r)], opened <- used

MembershipSpec == Membership!Spec

(***************************************************************************)
(* A handler that believes it is in a room is in the list of that room.    *)
(* room_id is a copy kept outside the table (handler.rs line 23), set and  *)
(* cleared apart from it; were it stale, signaling would be refused and    *)
(* LeaveRoom answered with Internal.  Needs unique ids.                    *)
(***************************************************************************)
HandlerIsMember ==
  \A c \in Conn :
    phase[c] \in {"open", "grace"} /\ roomOf[c] # NoRoom
      => IdOf[c] \in MembersOf(rooms, roomOf[c])

\* The send at index i, once made, tells connection c who is in room r.
Informs(i, c, r) ==
  LET t == outbox[i] IN
  \/ t = Direct(c, RoomCreated(r))
  \/ /\ t.via = "peers" /\ t.dest = IdOf[c]
     /\ t.msg.kind = "RoomParticipants" /\ t.msg.room = r

NewsAt(i, c) ==
  IF outbox[i].via = "sink" THEN <<IdOf[c]>> ELSE outbox[i].msg.list

IsLatest(i, c, r) ==
  /\ Informs(i, c, r)
  /\ \A j \in DOMAIN outbox : Informs(j, c, r) => j <= i

(***************************************************************************)
(* What a client has been told or is about to be told of a room it is in   *)
(* is true: the newest list on its way to it, or the one it has if none    *)
(* is, is the list of the room.  Joins, leaves and expired grace periods   *)
(* of all members interleave, each with two rounds of separate sends.      *)
(***************************************************************************)
NewsIsCurrent ==
  \A c \in Conn, r \in DOMAIN rooms :
    Receives(c) /\ IdOf[c] \in MembersOf(rooms, r) =>
      /\ \A i \in DOMAIN outbox : IsLatest(i, c, r) => NewsAt(i, c) = rooms[r]
      /\ (\A i \in DOMAIN outbox : ~Informs(i, c, r)) => roster[c][r] = rooms[r]

(***************************************************************************)
(* An Offer, Answer or IceCandidate reaches a client only after a list of  *)
(* participants that names its sender: signaling never comes from a        *)
(* stranger, although room membership is checked when the message is       *)
(* accepted and not when it is sent (real_core.rs, server.rs line 252).    *)
(***************************************************************************)
RelayFromKnownPeer ==
  \A i \in DOMAIN outbox :
    outbox[i].msg.kind = "Relay" /\ Runnable(i) =>
      \A c \in Reached(outbox[i]) :
        Receives(c) => outbox[i].msg.from \in Range(roster[c][outbox[i].msg.room])

(***************************************************************************)
(* No member is forgotten by the ways out that call leave_room: a listed   *)
(* participant has an open connection whose handler holds that room, or    *)
(* one whose break will take it out when the grace period ends, or it is   *)
(* one of those the code never takes out: its connection ended by a normal *)
(* Close or was cut off for a binary frame, which skip leave_room, and it  *)
(* stays listed for good.  For clients that leave before they move on.     *)
(***************************************************************************)
MembersAttached ==
  \A r \in DOMAIN rooms : \A p \in Range(rooms[r]) :
    \E c \in Conn :
      /\ IdOf[c] = p
      /\ \/ phase[c] \in {"open", "grace"} /\ roomOf[c] = r
         \/ exit[c] \in {"Normal", "Media"}

(***************************************************************************)
(* "Should trigger leave once and notify peers" (handler.rs line 341):     *)
(* when an abnormally closed connection is done with, its participant is   *)
(* in no room.                                                             *)
(***************************************************************************)
AbnormalCloseLeaves ==
  \A c \in Conn : phase[c] = "closed" /\ exit[c] = "Abnormal" =>
    \A r \in DOMAIN rooms : IdOf[c] \notin Range(rooms[r])

(***************************************************************************)
(* A list that names a participant behind the reader comes after the       *)
(* PeerConnected of that participant: JoinRoom makes all its PeerConnected *)
(* sends before all its RoomParticipants (handler.rs lines 138 to 146).    *)
(***************************************************************************)
Behind(list, p) ==
  {list[j] : j \in {k \in DOMAIN list : \E i \in 1 .. k - 1 : list[i] = p}}

GreetedBeforeListed ==
  [][\A c \in Conn, r \in RoomId :
       roster'[c][r] # roster[c][r] =>
         Behind(roster'[c][r], IdOf[c]) \subseteq greeted[c]]_vars

(***************************************************************************)
(* With ids provided from outside several connections share one: then at   *)
(* most one of them, the registered one, has not been sent a Close or is   *)
(* not about to be.  The old connection's remove_if_same, which may come   *)
(* long after the new connection's insert, does not unregister the new     *)
(* one (server.rs lines 222 and 240).                                      *)
(***************************************************************************)
CurrentConnection ==
  \A c \in Conn :
    \/ phase[c] # "open" \/ c \in shut
    \/ \E i \in DOMAIN outbox : outbox[i] = Direct(c, Close)
    \/ IdOf[c] \in DOMAIN peers /\ peers[IdOf[c]] = c

(***************************************************************************)
(* When a connection in a room breaks, every other client in the room      *)
(* that stays is told: in the end it holds a list without the lost one.    *)
(***************************************************************************)
BreakIsAnnounced ==
  \A c \in Conn, r \in RoomId : \A d \in Conn \ {c} :
    /\ phase[c] = "grace" /\ roomOf[c] = r
    /\ Receives(d) /\ roomOf[d] = r
    ~> \/ ~Receives(d) \/ roomOf[d] # r
       \/ IdOf[c] \notin Range(roster[d][r])
=============================================================================
