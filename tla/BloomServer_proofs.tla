------------------------ MODULE BloomServer_proofs ------------------------
(***************************************************************************)
(* Theorems about BloomServer for any set of connections, ids and rooms.   *)
(***************************************************************************)
EXTENDS BloomServer, RoomTable_proofs

\* Where TypeOK is not inductive: known grows by the rooms of messages sent.
Announced ==
  \A i \in DOMAIN outbox :
    outbox[i].msg.kind = "RoomCreated" => outbox[i].msg.room \in used

TypeInv == TypeOK /\ Announced

\* Sends are only added behind those that wait already.
OnlyAppends ==
  \A i \in DOMAIN outbox : i \in DOMAIN outbox' /\ outbox'[i] = outbox[i]

LEMMA DirectTask ==
  ASSUME NEW c \in Conn, NEW m \in Message
  PROVE  Direct(c, m) \in Task
BY DEF Direct, Task

LEMMA SendTask ==
  ASSUME NEW p \in Participant, NEW m \in Message
  PROVE  SendTo(p, m) \in Task
BY DEF SendTo, Task

LEMMA ToEachTasks ==
  ASSUME NEW list \in Seq(Participant), NEW m \in Message
  PROVE  /\ ToEach(list, m) \in Seq(Task)
         /\ \A i \in DOMAIN ToEach(list, m) : ToEach(list, m)[i].msg = m
<1>1. Len(list) \in Nat /\ \A i \in 1 .. Len(list) : list[i] \in Participant
  OBVIOUS
<1>2. \A i \in 1 .. Len(list) : SendTo(list[i], m) \in Task
  BY <1>1, SendTask
<1>3. ToEach(list, m) \in Seq(Task)
  BY <1>1, <1>2 DEF ToEach
<1> QED
  BY <1>1, <1>3 DEF ToEach, SendTo

LEMMA Messages ==
  ASSUME NEW p \in Participant, NEW r \in RoomId, NEW list \in Seq(Participant)
  PROVE  /\ RoomCreated(r) \in Message
         /\ PeerConnected(p) \in Message
         /\ PeerDisconnected(p) \in Message
         /\ RoomParticipants(r, list) \in Message
         /\ Relay(p, r) \in Message
         /\ Close \in Message
BY DEF Message, RoomCreated, PeerConnected, PeerDisconnected, RoomParticipants,
       Relay, Close

\* Each message kind carries the fields its receiver reads.
LEMMA MessageFields ==
  ASSUME NEW m \in Message
  PROVE  /\ m.kind \in {"RoomCreated", "RoomParticipants", "Relay"} => m.room \in RoomId
         /\ m.kind = "RoomParticipants" => m.list \in Seq(Participant)
         /\ m.kind \in {"PeerConnected", "PeerDisconnected"} => m.who \in Participant
BY DEF Message

LEMMA TaskFields ==
  ASSUME NEW t \in Task
  PROVE  t.msg \in Message
BY DEF Task

LEMMA AppendedTasks ==
  ASSUME NEW s \in Seq(Task), NEW q \in Seq(Task)
  PROVE  /\ s \o q \in Seq(Task)
         /\ \A i \in DOMAIN s : i \in DOMAIN (s \o q) /\ (s \o q)[i] = s[i]
         /\ \A i \in DOMAIN (s \o q) :
              \/ i \in DOMAIN s /\ (s \o q)[i] = s[i]
              \/ \E j \in DOMAIN q : (s \o q)[i] = q[j]
<1>1. /\ s \o q \in Seq(Task)
      /\ Len(s \o q) = Len(s) + Len(q)
      /\ \A i \in 1 .. Len(s) + Len(q) :
           (s \o q)[i] = IF i <= Len(s) THEN s[i] ELSE q[i - Len(s)]
  BY ConcatProperties
<1>2. Len(s) \in Nat /\ Len(q) \in Nat
  BY LenProperties
<1>3. SUFFICES ASSUME NEW i \in 1 .. Len(s) + Len(q), i > Len(s)
               PROVE  \E j \in DOMAIN q : (s \o q)[i] = q[j]
  BY <1>1, <1>2
<1>4. i - Len(s) \in 1 .. Len(q)
  BY <1>2, <1>3
<1> QED
  BY <1>1, <1>2, <1>3, <1>4

\* What Deliver leaves in the outbox was there before.
LEMMA RemovedTask ==
  ASSUME NEW s \in Seq(Task), NEW i \in DOMAIN s
  PROVE  LET q == SubSeq(s, 1, i - 1) \o SubSeq(s, i + 1, Len(s)) IN
         /\ q \in Seq(Task)
         /\ Len(q) = Len(s) - 1
         /\ \A j \in 1 .. Len(s) - 1 : q[j] = IF j < i THEN s[j] ELSE s[j + 1]
         /\ \A j \in DOMAIN q : \E k \in DOMAIN s : q[j] = s[k]
         /\ \A k \in DOMAIN s \ {i} : \E j \in DOMAIN q : q[j] = s[k]
<1> DEFINE a == SubSeq(s, 1, i - 1)
           b == SubSeq(s, i + 1, Len(s))
<1>1. i \in 1 .. Len(s) /\ Len(s) \in Nat
  BY LenProperties
<1>2. /\ a \in Seq(Task) /\ Len(a) = i - 1
      /\ \A j \in 1 .. i - 1 : a[j] = s[j]
  BY <1>1
<1>3. /\ b \in Seq(Task) /\ Len(b) = Len(s) - i
      /\ \A j \in 1 .. Len(s) - i : b[j] = s[i + j]
  BY <1>1, SubSeqProperties
<1> HIDE DEF a, b
<1>4. /\ a \o b \in Seq(Task)
      /\ Len(a \o b) = Len(s) - 1
      /\ DOMAIN (a \o b) = 1 .. Len(s) - 1
      /\ \A j \in 1 .. Len(s) - 1 :
           (a \o b)[j] = IF j <= i - 1 THEN a[j] ELSE b[j - (i - 1)]
  <2>1. /\ a \o b \in Seq(Task)
        /\ Len(a \o b) = Len(a) + Len(b)
        /\ \A j \in 1 .. Len(a) + Len(b) :
             (a \o b)[j] = IF j <= Len(a) THEN a[j] ELSE b[j - Len(a)]
    BY <1>2, <1>3, ConcatProperties
  <2>2. Len(a) + Len(b) = Len(s) - 1
    BY <1>1, <1>2, <1>3
  <2>3. DOMAIN (a \o b) = 1 .. Len(a \o b)
    BY <2>1, LenProperties
  <2> QED
    BY <1>2, <2>1, <2>2, <2>3
<1>5. \A j \in 1 .. Len(s) - 1 :
        (a \o b)[j] = IF j < i THEN s[j] ELSE s[j + 1]
  <2> TAKE j \in 1 .. Len(s) - 1
  <2>1. CASE j < i
    BY <1>1, <1>2, <1>4, <2>1
  <2>2. CASE ~(j < i)
    <3>1. j - (i - 1) \in 1 .. Len(s) - i
      BY <1>1, <2>2
    <3>2. i + (j - (i - 1)) = j + 1 /\ ~(j <= i - 1)
      BY <1>1, <2>2
    <3>3. (a \o b)[j] = b[j - (i - 1)]
      BY <1>4, <3>2
    <3> DEFINE k == j - (i - 1)
    <3>4. b[k] = s[i + k]
      <4>1. k \in 1 .. Len(s) - i
        BY <3>1
      <4> HIDE DEF k
      <4> QED
        BY <1>3, <4>1
    <3> QED
      BY <2>2, <3>2, <3>3, <3>4
  <2> QED
    BY <2>1, <2>2
<1>6. \A j \in DOMAIN (a \o b) : \E k \in DOMAIN s : (a \o b)[j] = s[k]
  <2> TAKE j \in DOMAIN (a \o b)
  <2>1. j \in 1 .. Len(s) - 1
    BY <1>4
  <2>2. j \in DOMAIN s /\ j + 1 \in DOMAIN s
    BY <1>1, <2>1
  <2> QED
    BY <1>5, <2>1, <2>2
<1>7. \A k \in DOMAIN s \ {i} : \E j \in DOMAIN (a \o b) : (a \o b)[j] = s[k]
  <2> TAKE k \in DOMAIN s \ {i}
  <2>1. CASE k < i
    <3>1. k \in 1 .. Len(s) - 1
      BY <1>1, <2>1
    <3> QED
      BY <1>4, <1>5, <2>1, <3>1
  <2>2. CASE k > i
    <3>1. k - 1 \in 1 .. Len(s) - 1 /\ ~(k - 1 < i) /\ (k - 1) + 1 = k
      BY <1>1, <2>2
    <3> QED
      BY <1>4, <1>5, <3>1
  <2> QED
    BY <1>1, <2>1, <2>2
<1> QED
  BY <1>4, <1>5, <1>6, <1>7 DEF a, b

\* The participant list of a room is one, of an unknown room the empty one.
LEMMA ListTyped ==
  ASSUME NEW t, t \in [DOMAIN t -> Seq(Participant)], NEW r
  PROVE  ListOf(t, r) \in Seq(Participant)
BY DEF ListOf

\* Two rounds of sends to the same participants, as every broadcast makes.
LEMMA TwoRounds ==
  ASSUME TypeInv, NEW list \in Seq(Participant),
         NEW m \in Message, NEW n \in Message,
         m.kind # "RoomCreated", n.kind # "RoomCreated",
         outbox' = outbox \o ToEach(list, m) \o ToEach(list, n)
  PROVE  OnlyAppends /\ outbox' \in Seq(Task) /\ (used' = used => Announced')
<1> DEFINE heads == ToEach(list, m)
           tails == ToEach(list, n)
<1>1. outbox \in Seq(Task) /\ outbox' = outbox \o heads \o tails
  BY DEF TypeInv, TypeOK
<1>2. /\ heads \in Seq(Task) /\ tails \in Seq(Task)
      /\ \A j \in DOMAIN heads : heads[j].msg = m
      /\ \A j \in DOMAIN tails : tails[j].msg = n
  BY ToEachTasks
<1> HIDE DEF heads, tails
<1> DEFINE first == outbox \o heads
<1>3. /\ first \in Seq(Task)
      /\ \A i \in DOMAIN outbox : i \in DOMAIN first /\ first[i] = outbox[i]
      /\ \A i \in DOMAIN first :
           \/ i \in DOMAIN outbox /\ first[i] = outbox[i]
           \/ \E j \in DOMAIN heads : first[i] = heads[j]
  BY <1>1, <1>2, AppendedTasks
<1>4. outbox' = first \o tails
  BY <1>1
<1> HIDE DEF first
<1>5. /\ outbox' \in Seq(Task)
      /\ \A i \in DOMAIN first : i \in DOMAIN outbox' /\ outbox'[i] = first[i]
      /\ \A i \in DOMAIN outbox' :
           \/ i \in DOMAIN first /\ outbox'[i] = first[i]
           \/ \E j \in DOMAIN tails : outbox'[i] = tails[j]
  BY <1>2, <1>3, <1>4, AppendedTasks
<1>6. SUFFICES ASSUME used' = used, NEW i \in DOMAIN outbox',
                      outbox'[i].msg.kind = "RoomCreated"
               PROVE  outbox'[i].msg.room \in used
  BY <1>3, <1>5 DEF Announced, OnlyAppends
<1>7. i \in DOMAIN first /\ outbox'[i] = first[i]
  BY <1>2, <1>5, <1>6
<1>8. i \in DOMAIN outbox /\ outbox'[i] = outbox[i]
  BY <1>2, <1>3, <1>6, <1>7
<1> QED
  BY <1>6, <1>8 DEF TypeInv, Announced

LEMMA ArriveTyped ==
  ASSUME TypeInv, NEW p \in Participant, NEW r \in DOMAIN rooms, Arrive(p, r)
  PROVE  /\ DOMAIN rooms' = DOMAIN rooms
         /\ rooms' \in [DOMAIN rooms' -> Seq(Participant)]
         /\ outbox' \in Seq(Task)
         /\ OnlyAppends
         /\ used' = used => Announced'
<1> DEFINE list == Joined(rooms, r, p)[r]
<1>1. /\ rooms' = Joined(rooms, r, p)
      /\ outbox' = outbox \o ToEach(list, PeerConnected(p))
                          \o ToEach(list, RoomParticipants(r, list))
  BY DEF Arrive
<1>2. rooms \in [DOMAIN rooms -> Seq(Participant)] /\ r \in RoomId
  BY DEF TypeInv, TypeOK
<1>3. /\ DOMAIN rooms' = DOMAIN rooms
      /\ rooms' \in [DOMAIN rooms' -> Seq(Participant)]
  BY <1>1, <1>2, JoinedProperties
<1>4. list \in Seq(Participant)
  BY <1>1, <1>3
<1> HIDE DEF list
<1>5. PeerConnected(p).kind # "RoomCreated" /\ RoomParticipants(r, list).kind # "RoomCreated"
  BY DEF PeerConnected, RoomParticipants
<1> QED
  BY <1>1, <1>2, <1>3, <1>4, <1>5, Messages, TwoRounds

LEMMA DepartTyped ==
  ASSUME TypeInv, NEW p \in Participant, NEW r \in DOMAIN rooms, Depart(p, r)
  PROVE  /\ DOMAIN rooms' \subseteq DOMAIN rooms
         /\ rooms' \in [DOMAIN rooms' -> Seq(Participant)]
         /\ outbox' \in Seq(Task)
         /\ OnlyAppends
         /\ used' = used => Announced'
<1> DEFINE rest == ListOf(Left(rooms, r, p), r)
<1>1. /\ rooms' = Left(rooms, r, p)
      /\ outbox' = outbox \o ToEach(rest, PeerDisconnected(p))
                          \o ToEach(rest, RoomParticipants(r, rest))
  BY DEF Depart
<1>2. rooms \in [DOMAIN rooms -> Seq(Participant)] /\ r \in RoomId
  BY DEF TypeInv, TypeOK
<1>3. /\ DOMAIN rooms' \subseteq DOMAIN rooms
      /\ rooms' \in [DOMAIN rooms' -> Seq(Participant)]
  BY <1>1, <1>2, LeftProperties
<1>4. rest \in Seq(Participant)
  BY <1>1, <1>3, ListTyped
<1> HIDE DEF rest
<1>5. PeerDisconnected(p).kind # "RoomCreated" /\ RoomParticipants(r, rest).kind # "RoomCreated"
  BY DEF PeerDisconnected, RoomParticipants
<1> QED
  BY <1>1, <1>2, <1>3, <1>4, <1>5, Messages, TwoRounds

\* One task more, not the announcement of a room without an id.
LEMMA AppendedTask ==
  ASSUME TypeInv, NEW t \in Task, outbox' = Append(outbox, t), used \subseteq used',
         t.msg.kind = "RoomCreated" => t.msg.room \in used'
  PROVE  OnlyAppends /\ outbox' \in Seq(Task) /\ Announced'
<1>1. outbox \in Seq(Task)
  BY DEF TypeInv, TypeOK
<1>2. /\ outbox' \in Seq(Task)
      /\ DOMAIN outbox' = 1 .. Len(outbox) + 1 /\ Len(outbox) \in Nat
      /\ \A i \in 1 .. Len(outbox) : outbox'[i] = outbox[i]
      /\ outbox'[Len(outbox) + 1] = t
  BY <1>1
<1>3. \A i \in DOMAIN outbox' :
        (i \in DOMAIN outbox /\ outbox'[i] = outbox[i]) \/ outbox'[i] = t
  BY <1>1, <1>2
<1>4. OnlyAppends
  BY <1>1, <1>2 DEF OnlyAppends
<1> QED
  BY <1>2, <1>3, <1>4 DEF TypeInv, Announced

\* What a client makes of a message leaves its books well typed.
LEMMA ReceiveTyped ==
  ASSUME TypeInv, NEW i \in DOMAIN outbox, NEW c \in Conn, Receive(c, outbox[i].msg)
  PROVE  /\ known' \subseteq used
         /\ shut' \subseteq Conn
         /\ roster' \in [Conn -> [RoomId -> Seq(Participant)]]
         /\ greeted' \in [Conn -> SUBSET Participant]
<1> DEFINE m == outbox[i].msg
<1>1. /\ m \in Message
      /\ m.kind = "RoomCreated" => m.room \in used
      /\ <<IdOf[c]>> \in Seq(Participant)
  BY TaskFields, ConnAssumption DEF TypeInv, TypeOK, Announced
<1>2. /\ known \subseteq used
      /\ shut \subseteq Conn
      /\ roster \in [Conn -> [RoomId -> Seq(Participant)]]
      /\ greeted \in [Conn -> SUBSET Participant]
      /\ used \subseteq RoomId
  BY DEF TypeInv, TypeOK
<1>3. Receive(c, m)
  OBVIOUS
<1> HIDE DEF m
<1>4. /\ m.kind \in {"RoomCreated", "RoomParticipants", "Relay"} => m.room \in RoomId
      /\ m.kind = "RoomParticipants" => m.list \in Seq(Participant)
      /\ m.kind \in {"PeerConnected", "PeerDisconnected"} => m.who \in Participant
  BY <1>1, MessageFields
<1>5. CASE m.kind = "RoomCreated"
  <2>1. /\ roster' = [roster EXCEPT ![c][m.room] = <<IdOf[c]>>]
        /\ known' = known \cup {m.room}
        /\ UNCHANGED <<shut, greeted>>
    BY <1>3, <1>5 DEF Receive
  <2> QED
    BY <1>1, <1>2, <1>4, <1>5, <2>1
<1>6. CASE m.kind = "RoomParticipants"
  <2>1. roster' = [roster EXCEPT ![c][m.room] = m.list] /\ UNCHANGED <<known, shut, greeted>>
    BY <1>3, <1>6 DEF Receive
  <2> QED
    BY <1>2, <1>4, <1>6, <2>1
<1>7. CASE m.kind \in {"PeerConnected", "PeerDisconnected"}
  <2>1. /\ \/ greeted' = [greeted EXCEPT ![c] = @ \cup {m.who}]
           \/ greeted' = [greeted EXCEPT ![c] = @ \ {m.who}]
        /\ UNCHANGED <<known, shut, roster>>
    BY <1>3, <1>7 DEF Receive
  <2> QED
    BY <1>2, <1>4, <1>7, <2>1
<1>8. CASE m.kind \in {"Close", "Relay"}
  BY <1>2, <1>3, <1>8 DEF Receive, client
<1> QED
  BY <1>3, <1>5, <1>6, <1>7, <1>8 DEF Receive

\* A task reaches connections: at most one.
LEMMA ReachedConn ==
  ASSUME TypeInv, NEW t \in Task
  PROVE  Reached(t) \subseteq Conn
<1>1. peers \in [DOMAIN peers -> Conn]
  BY DEF TypeInv, TypeOK
<1>2. CASE t.via = "sink"
  BY <1>2 DEF Reached, Task
<1>3. CASE t.via # "sink"
  BY <1>1, <1>3 DEF Reached
<1> QED
  BY <1>2, <1>3

LEMMA TypeStep ==
  ASSUME TypeInv, [Next]_vars
  PROVE  TypeInv'
<1> USE ConnAssumption
<1>1. ASSUME NEW c \in Conn, Accept(c)
      PROVE  TypeInv'
  <2>1. CASE IdOf[c] \in DOMAIN peers
    <3>1. /\ peers[IdOf[c]] \in Conn
          /\ outbox' = Append(outbox, Direct(peers[IdOf[c]], Close))
          /\ Direct(peers[IdOf[c]], Close).msg.kind # "RoomCreated"
          /\ used' = used
      BY <1>1, <2>1 DEF Accept, TypeInv, TypeOK, Direct, Close
    <3>2. Direct(peers[IdOf[c]], Close) \in Task
      BY <3>1, DirectTask DEF Message, Close
    <3>3. outbox' \in Seq(Task) /\ Announced'
      BY <3>1, <3>2, AppendedTask
    <3> QED
      BY <1>1, <3>3 DEF Accept, TypeInv, TypeOK, client, Phase, Reply
  <2>2. CASE IdOf[c] \notin DOMAIN peers
    BY <1>1, <2>2 DEF Accept, TypeInv, TypeOK, Announced, client, Phase, Reply
  <2> QED
    BY <2>1, <2>2
<1>2. ASSUME NEW code \in Reply, Answer(code)
      PROVE  TypeInv'
  BY <1>2 DEF Answer, TypeInv, TypeOK, Announced, server, client
<1>3. ASSUME NEW c \in Conn, CreateRoom(c)
      PROVE  TypeInv'
  <2>1. PICK r \in RoomId \ used :
          /\ rooms' = Created(rooms, r, IdOf[c])
          /\ used' = used \cup {r}
          /\ roomOf' = [roomOf EXCEPT ![c] = r]
          /\ outbox' = Append(outbox, Direct(c, RoomCreated(r)))
    BY <1>3 DEF CreateRoom
  <2>2. /\ DOMAIN rooms' = DOMAIN rooms \cup {r}
        /\ rooms' \in [DOMAIN rooms' -> Seq(Participant)]
    BY <2>1, CreatedProperties DEF TypeInv, TypeOK
  <2>3. /\ Direct(c, RoomCreated(r)) \in Task
        /\ Direct(c, RoomCreated(r)).msg.room = r
    BY DirectTask DEF Direct, Message, RoomCreated
  <2>4. outbox' \in Seq(Task) /\ Announced'
    BY <2>1, <2>3, AppendedTask
  <2>5. roomOf' \in [Conn -> used' \cup {NoRoom}]
    BY <2>1 DEF TypeInv, TypeOK
  <2> QED
    BY <1>3, <2>1, <2>2, <2>4, <2>5 DEF CreateRoom, TypeInv, TypeOK, client, Reply
<1>4. ASSUME NEW c \in Conn, NEW r \in DOMAIN rooms,
             Arrive(IdOf[c], r), roomOf' = [roomOf EXCEPT ![c] = r], reply' = "none",
             UNCHANGED <<used, phase, exit, peers, client>>
      PROVE  TypeInv'
  <2>1. /\ DOMAIN rooms' = DOMAIN rooms
        /\ rooms' \in [DOMAIN rooms' -> Seq(Participant)]
        /\ outbox' \in Seq(Task)
        /\ Announced'
    BY <1>4, ArriveTyped
  <2> QED
    BY <1>4, <2>1 DEF TypeInv, TypeOK, client, Reply
<1>5. ASSUME NEW c \in Conn, NEW r \in DOMAIN rooms,
             Depart(IdOf[c], r), roomOf' = [roomOf EXCEPT ![c] = NoRoom],
             reply' = "none", phase' \in [Conn -> Phase],
             UNCHANGED <<used, exit, peers, client>>
      PROVE  TypeInv'
  <2>1. /\ DOMAIN rooms' \subseteq DOMAIN rooms
        /\ rooms' \in [DOMAIN rooms' -> Seq(Participant)]
        /\ outbox' \in Seq(Task)
        /\ Announced'
    BY <1>5, DepartTyped
  <2> QED
    BY <1>5, <2>1 DEF TypeInv, TypeOK, client, Reply
<1>6. ASSUME NEW c \in Conn, Speak(c)
      PROVE  TypeInv'
  <2>1. CASE DropText(c) \/ BadText(c)
    BY <1>2, <2>1 DEF DropText, BadText, Reply
  <2>2. CASE CreateRoom(c)
    BY <1>3, <2>2
  <2>3. ASSUME NEW r \in RoomId, JoinRoom(c, r)
        PROVE  TypeInv'
    BY <1>2, <1>4, <2>3 DEF JoinRoom, Reply
  <2>4. CASE LeaveRoom(c)
    <3>1. CASE /\ roomOf[c] \in DOMAIN rooms
               /\ Depart(IdOf[c], roomOf[c])
               /\ roomOf' = [roomOf EXCEPT ![c] = NoRoom]
               /\ reply' = "none"
               /\ UNCHANGED <<used, phase, exit, peers, client>>
      BY <1>5, <3>1 DEF TypeInv, TypeOK
    <3>2. CASE Answer("InvalidPayload") \/ Answer("Internal")
      BY <1>2, <3>2 DEF Reply
    <3> QED
      BY <2>4, <3>1, <3>2 DEF LeaveRoom
  <2>5. ASSUME NEW to \in Participant, Signal(c, to)
        PROVE  TypeInv'
    <3>1. CASE \E code \in Reply : Answer(code)
      BY <1>2, <3>1
    <3>2. CASE /\ roomOf[c] # NoRoom
               /\ outbox' = Append(outbox, SendTo(to, Relay(IdOf[c], roomOf[c])))
               /\ reply' = "none"
               /\ UNCHANGED <<server, client>>
      <4>1. IdOf[c] \in Participant /\ roomOf[c] \in RoomId
        BY <3>2 DEF TypeInv, TypeOK
      <4>2. /\ SendTo(to, Relay(IdOf[c], roomOf[c])) \in Task
            /\ SendTo(to, Relay(IdOf[c], roomOf[c])).msg.kind # "RoomCreated"
        <5>1. Relay(IdOf[c], roomOf[c]) \in Message
          BY <4>1 DEF Relay, Message
        <5> QED
          BY <5>1, SendTask DEF SendTo, Relay
      <4>3. used' = used
        BY <3>2 DEF server
      <4>4. outbox' \in Seq(Task) /\ Announced'
        BY <3>2, <4>2, <4>3, AppendedTask
      <4> QED
        BY <3>2, <4>4 DEF TypeInv, TypeOK, server, client, Reply
    <3> QED
      BY <2>5, <3>1, <3>2 DEF Signal, Reply
  <2> QED
    BY <1>6, <2>1, <2>2, <2>3, <2>4, <2>5 DEF Speak
<1>7. ASSUME NEW c \in Conn, NormalClose(c) \/ AbnormalClose(c) \/ BinaryFrame(c)
      PROVE  TypeInv'
  <2>1. /\ roster' = [roster EXCEPT ![c] = [r \in RoomId |-> <<>>]]
        /\ greeted' = [greeted EXCEPT ![c] = {}]
        /\ exit' \in [Conn -> Exit]
        /\ phase' \in [Conn -> Phase]
        /\ roomOf' \in [Conn -> used \cup {NoRoom}]
        /\ reply' = "none"
        /\ UNCHANGED <<rooms, used, peers, outbox, known, shut>>
    <3>1. CASE NormalClose(c)
      BY <3>1 DEF NormalClose, Ends, TypeInv, TypeOK, Phase, Exit
    <3>2. CASE AbnormalClose(c)
      BY <3>2 DEF AbnormalClose, Ends, TypeInv, TypeOK, Phase, Exit
    <3>3. CASE BinaryFrame(c)
      BY <3>3 DEF BinaryFrame, Ends, TypeInv, TypeOK, Phase, Exit
    <3> QED
      BY <1>7, <3>1, <3>2, <3>3
  <2>2. [r \in RoomId |-> <<>>] \in [RoomId -> Seq(Participant)]
    OBVIOUS
  <2> QED
    BY <2>1, <2>2 DEF TypeInv, TypeOK, Announced, Reply
<1>8. ASSUME NEW c \in Conn, GraceElapsed(c)
      PROVE  TypeInv'
  <2>1. phase' \in [Conn -> Phase]
    BY <1>8 DEF GraceElapsed, TypeInv, TypeOK, Phase
  <2>2. CASE roomOf[c] \in DOMAIN rooms
    BY <1>5, <1>8, <2>1, <2>2 DEF GraceElapsed
  <2>3. CASE roomOf[c] \notin DOMAIN rooms
    BY <1>8, <2>1, <2>3 DEF GraceElapsed, TypeInv, TypeOK, Announced, client, Reply
  <2> QED
    BY <2>2, <2>3
<1>9. ASSUME NEW c \in Conn, Deregister(c)
      PROVE  TypeInv'
  <2>1. DOMAIN peers' \subseteq Participant /\ peers' \in [DOMAIN peers' -> Conn]
    BY <1>9 DEF Deregister, TypeInv, TypeOK, Restrict
  <2> QED
    BY <1>9, <2>1 DEF Deregister, TypeInv, TypeOK, Announced, client, Phase, Reply
<1>10. ASSUME NEW i \in DOMAIN outbox, Deliver(i)
       PROVE  TypeInv'
  <2>1. /\ outbox' = SubSeq(outbox, 1, i - 1) \o SubSeq(outbox, i + 1, Len(outbox))
        /\ reply' = "none"
        /\ UNCHANGED server
        /\ \/ \E c \in Reached(outbox[i]) : Receive(c, outbox[i].msg)
           \/ UNCHANGED client
    BY <1>10 DEF Deliver, Finish
  <2>2. outbox \in Seq(Task)
    BY DEF TypeInv, TypeOK
  <2>3. /\ outbox' \in Seq(Task)
        /\ \A j \in DOMAIN outbox' : \E k \in DOMAIN outbox : outbox'[j] = outbox[k]
    BY <2>1, <2>2, RemovedTask
  <2>4. Announced'
    BY <2>1, <2>3 DEF TypeInv, Announced, server
  <2>5. outbox[i] \in Task
    BY <2>2
  <2>6. Reached(outbox[i]) \subseteq Conn
    BY <2>5, ReachedConn
  <2>7. /\ known' \subseteq used
        /\ shut' \subseteq Conn
        /\ roster' \in [Conn -> [RoomId -> Seq(Participant)]]
        /\ greeted' \in [Conn -> SUBSET Participant]
    <3>1. CASE UNCHANGED client
      BY <3>1 DEF TypeInv, TypeOK, client
    <3>2. CASE \E c \in Reached(outbox[i]) : Receive(c, outbox[i].msg)
      BY <2>6, <3>2, ReceiveTyped
    <3> QED
      BY <2>1, <3>1, <3>2
  <2> QED
    BY <2>1, <2>3, <2>4, <2>7 DEF TypeInv, TypeOK, server, Reply
<1>11. CASE UNCHANGED vars
  BY <1>11 DEF vars, server, client, TypeInv, TypeOK, Announced
<1> QED
  BY <1>1, <1>6, <1>7, <1>8, <1>9, <1>10, <1>11 DEF Next, DeliverDirect, DeliverBroadcast

LEMMA TypeInvariant == Spec => []TypeInv
<1>1. Init => TypeInv
  BY ConnAssumption DEF Init, NoRooms, TypeInv, TypeOK, Announced, Phase, Exit, Reply
<1>2. TypeInv /\ [Next]_vars => TypeInv'
  BY TypeStep
<1> QED
  BY <1>1, <1>2, PTL DEF Spec

(***************************************************************************)
(* Every variable of the server keeps its type, and the rooms that         *)
(* handlers, clients and the table refer to all have ids that were handed  *)
(* out by create_room, for any number of connections and rooms.            *)
(***************************************************************************)
THEOREM TypeCorrect == Spec => []TypeOK
<1> QED
  BY TypeInvariant, PTL DEF TypeInv
-----------------------------------------------------------------------------
(***************************************************************************)
(* Whatever the server does, the room table changes by the operations of   *)
(* RoomManager alone, and each keeps to its precondition.                  *)
(***************************************************************************)
RoomStep ==
  \/ UNCHANGED <<rooms, used>>
  \/ \E r \in RoomId \ used, p \in Participant :
       rooms' = Created(rooms, r, p) /\ used' = used \cup {r}
  \/ \E r \in DOMAIN rooms, p \in Participant :
       ~IsFull(rooms, r, p) /\ rooms' = Joined(rooms, r, p) /\ used' = used
  \/ \E r \in DOMAIN rooms, p \in Participant :
       rooms' = Left(rooms, r, p) /\ used' = used

LEMMA NextIsRoomStep ==
  ASSUME [Next]_vars
  PROVE  RoomStep
<1> USE ConnAssumption
<1>1. ASSUME NEW c \in Conn, Speak(c)
      PROVE  RoomStep
  <2>1. ASSUME NEW code, Answer(code)
        PROVE  RoomStep
    BY <2>1 DEF Answer, server, RoomStep
  <2>2. CASE DropText(c) \/ BadText(c)
    BY <2>1, <2>2 DEF DropText, BadText
  <2>3. CASE CreateRoom(c)
    BY <2>3 DEF CreateRoom, RoomStep
  <2>4. ASSUME NEW r \in RoomId, JoinRoom(c, r)
        PROVE  RoomStep
    BY <2>1, <2>4 DEF JoinRoom, Arrive, RoomStep
  <2>5. CASE LeaveRoom(c)
    BY <2>1, <2>5 DEF LeaveRoom, Depart, RoomStep
  <2>6. ASSUME NEW to \in Participant, Signal(c, to)
        PROVE  RoomStep
    BY <2>1, <2>6 DEF Signal, server, RoomStep
  <2> QED
    BY <1>1, <2>2, <2>3, <2>4, <2>5, <2>6 DEF Speak
<1>2. ASSUME NEW c \in Conn,
             Accept(c) \/ NormalClose(c) \/ AbnormalClose(c) \/ BinaryFrame(c)
               \/ Deregister(c)
      PROVE  RoomStep
  BY <1>2 DEF Accept, NormalClose, AbnormalClose, BinaryFrame, Ends, Deregister, RoomStep
<1>3. ASSUME NEW c \in Conn, GraceElapsed(c)
      PROVE  RoomStep
  BY <1>3 DEF GraceElapsed, Depart, RoomStep
<1>4. ASSUME NEW i \in DOMAIN outbox, Deliver(i)
      PROVE  RoomStep
  BY <1>4 DEF Deliver, server, RoomStep
<1>5. CASE UNCHANGED vars
  BY <1>5 DEF vars, server, RoomStep
<1> QED
  BY <1>1, <1>2, <1>3, <1>4, <1>5 DEF Next, DeliverDirect, DeliverBroadcast

(***************************************************************************)
(* No room of the server is ever empty, over MAX_PARTICIPANTS or lists a   *)
(* participant twice, whatever the interleaving of requests and expiring   *)
(* grace periods, and also when connections share an id.                   *)
(***************************************************************************)
THEOREM RoomsStayWellFormed == Spec => []RoomsWellFormed
<1>1. Init => RoomsWellFormed
  BY DEF Init, NoRooms, RoomsWellFormed, WellFormed
<1>2. TypeOK /\ RoomsWellFormed /\ [Next]_vars => RoomsWellFormed'
  <2> SUFFICES ASSUME TypeOK, WellFormed(rooms), [Next]_vars
               PROVE  WellFormed(rooms')
    BY DEF RoomsWellFormed, WellFormed
  <2>1. rooms \in [DOMAIN rooms -> Seq(Participant)]
    BY DEF TypeOK
  <2>2. RoomStep
    BY NextIsRoomStep
  <2>3. CASE UNCHANGED rooms
    BY <2>3
  <2>4. ASSUME NEW r, NEW p \in Participant, rooms' = Created(rooms, r, p)
        PROVE  WellFormed(rooms')
    BY <2>1, <2>4, CreatedProperties
  <2>5. ASSUME NEW r \in DOMAIN rooms, NEW p \in Participant,
               ~IsFull(rooms, r, p), rooms' = Joined(rooms, r, p)
        PROVE  WellFormed(rooms')
    BY <2>1, <2>5, JoinedProperties
  <2>6. ASSUME NEW r \in DOMAIN rooms, NEW p, rooms' = Left(rooms, r, p)
        PROVE  WellFormed(rooms')
    BY <2>1, <2>6, LeftProperties
  <2> QED
    BY <2>2, <2>3, <2>4, <2>5, <2>6 DEF RoomStep
<1> QED
  BY <1>1, <1>2, TypeCorrect, PTL DEF Spec
-----------------------------------------------------------------------------
\* A connection that has not been accepted has no room.
IdleRoomless == \A c \in Conn : phase[c] = "idle" => roomOf[c] = NoRoom

MemberInv == TypeOK /\ IdleRoomless /\ HandlerIsMember

\* Who is in which room after each operation of RoomManager: the room it is
\* about gains or loses one member, every other room keeps its members.
LEMMA MembersAfter ==
  ASSUME TypeOK
  PROVE  /\ \A r \in RoomId \ used, p \in Participant : \A x :
              MembersOf(Created(rooms, r, p), x) =
                IF x = r THEN {p} ELSE MembersOf(rooms, x)
         /\ \A r \in DOMAIN rooms, p \in Participant : \A x :
              MembersOf(Joined(rooms, r, p), x) =
                IF x = r THEN MembersOf(rooms, r) \cup {p} ELSE MembersOf(rooms, x)
         /\ \A r \in DOMAIN rooms, p \in Participant : \A x :
              MembersOf(Left(rooms, r, p), x) =
                IF x = r THEN MembersOf(rooms, r) \ {p} ELSE MembersOf(rooms, x)
<1>1. rooms \in [DOMAIN rooms -> Seq(Participant)]
  BY DEF TypeOK
<1>2. ASSUME NEW r \in RoomId \ used, NEW p \in Participant, NEW x
      PROVE  MembersOf(Created(rooms, r, p), x) =
               IF x = r THEN {p} ELSE MembersOf(rooms, x)
  BY <1>1, CreatedMembers
<1>3. ASSUME NEW r \in DOMAIN rooms, NEW p \in Participant, NEW x
      PROVE  MembersOf(Joined(rooms, r, p), x) =
               IF x = r THEN MembersOf(rooms, r) \cup {p} ELSE MembersOf(rooms, x)
  BY <1>1, JoinedProperties
<1>4. ASSUME NEW r \in DOMAIN rooms, NEW p \in Participant, NEW x
      PROVE  MembersOf(Left(rooms, r, p), x) =
               IF x = r THEN MembersOf(rooms, r) \ {p} ELSE MembersOf(rooms, x)
  BY <1>1, LeftProperties
<1> QED
  BY <1>2, <1>3, <1>4

LEMMA MemberStep ==
  ASSUME UniqueIds, MemberInv, [Next]_vars
  PROVE  IdleRoomless' /\ HandlerIsMember'
<1> USE ConnAssumption DEF IdleRoomless, HandlerIsMember
<1>1. /\ TypeOK /\ IdleRoomless /\ HandlerIsMember
      /\ phase \in [Conn -> Phase]
      /\ roomOf \in [Conn -> used \cup {NoRoom}]
      /\ NoRoom \notin used
  BY DEF MemberInv, TypeOK
<1>2. ASSUME NEW c \in Conn, Accept(c)
      PROVE  IdleRoomless' /\ HandlerIsMember'
  BY <1>1, <1>2 DEF Accept
<1>3. ASSUME NEW code, Answer(code)
      PROVE  IdleRoomless' /\ HandlerIsMember'
  BY <1>1, <1>3 DEF Answer, server
<1>4. ASSUME NEW c \in Conn, CreateRoom(c)
      PROVE  IdleRoomless' /\ HandlerIsMember'
  <2>1. PICK r \in RoomId \ used :
          rooms' = Created(rooms, r, IdOf[c]) /\ roomOf' = [roomOf EXCEPT ![c] = r]
    BY <1>4 DEF CreateRoom
  <2>2. phase' = phase /\ phase[c] = "open"
    BY <1>4 DEF CreateRoom, Speaks
  <2>3. \A x : MembersOf(rooms', x) = IF x = r THEN {IdOf[c]} ELSE MembersOf(rooms, x)
    BY <1>1, <2>1, MembersAfter
  <2> QED
    BY <1>1, <2>1, <2>2, <2>3
<1>5. ASSUME NEW c \in Conn, NEW r \in DOMAIN rooms, phase[c] = "open",
             Arrive(IdOf[c], r), roomOf' = [roomOf EXCEPT ![c] = r], phase' = phase
      PROVE  IdleRoomless' /\ HandlerIsMember'
  <2>1. \A x : MembersOf(rooms', x) =
                 IF x = r THEN MembersOf(rooms, r) \cup {IdOf[c]} ELSE MembersOf(rooms, x)
    BY <1>1, <1>5, MembersAfter DEF Arrive
  <2> QED
    BY <1>1, <1>5, <2>1
<1>6. ASSUME NEW c \in Conn, roomOf[c] \in DOMAIN rooms,
             Depart(IdOf[c], roomOf[c]), roomOf' = [roomOf EXCEPT ![c] = NoRoom],
             \A d \in Conn \ {c} : phase'[d] = phase[d]
      PROVE  IdleRoomless' /\ HandlerIsMember'
  <2>1. \A x : MembersOf(rooms', x) =
                 IF x = roomOf[c] THEN MembersOf(rooms, x) \ {IdOf[c]}
                                  ELSE MembersOf(rooms, x)
    BY <1>1, <1>6, MembersAfter DEF Depart
  <2>2. \A d \in Conn \ {c} : roomOf'[d] = roomOf[d] /\ IdOf[d] # IdOf[c]
    BY <1>1, <1>6 DEF UniqueIds
  <2>3. roomOf'[c] = NoRoom
    BY <1>1, <1>6
  <2> QED
    BY <1>1, <1>6, <2>1, <2>2, <2>3
<1>7. ASSUME NEW c \in Conn, Speak(c)
      PROVE  IdleRoomless' /\ HandlerIsMember'
  <2>1. CASE DropText(c) \/ BadText(c)
    BY <1>3, <2>1 DEF DropText, BadText
  <2>2. CASE CreateRoom(c)
    BY <1>4, <2>2
  <2>3. ASSUME NEW r \in RoomId, JoinRoom(c, r)
        PROVE  IdleRoomless' /\ HandlerIsMember'
    BY <1>3, <1>5, <2>3 DEF JoinRoom, Speaks
  <2>4. CASE LeaveRoom(c)
    BY <1>3, <1>6, <2>4 DEF LeaveRoom
  <2>5. ASSUME NEW to \in Participant, Signal(c, to)
        PROVE  IdleRoomless' /\ HandlerIsMember'
    BY <1>1, <1>3, <2>5 DEF Signal, server
  <2> QED
    BY <1>7, <2>1, <2>2, <2>3, <2>4, <2>5 DEF Speak
<1>8. ASSUME NEW c \in Conn, NormalClose(c) \/ AbnormalClose(c)
      PROVE  IdleRoomless' /\ HandlerIsMember'
  BY <1>1, <1>8 DEF NormalClose, AbnormalClose, Ends
<1>9. ASSUME NEW c \in Conn, BinaryFrame(c)
      PROVE  IdleRoomless' /\ HandlerIsMember'
  BY <1>1, <1>9 DEF BinaryFrame, Ends
<1>10. ASSUME NEW c \in Conn, GraceElapsed(c)
       PROVE  IdleRoomless' /\ HandlerIsMember'
  <2>1. \A d \in Conn \ {c} : phase'[d] = phase[d]
    BY <1>1, <1>10 DEF GraceElapsed
  <2>2. CASE roomOf[c] \in DOMAIN rooms
    BY <1>6, <1>10, <2>1, <2>2 DEF GraceElapsed
  <2>3. CASE roomOf[c] \notin DOMAIN rooms
    BY <1>1, <1>10, <2>3 DEF GraceElapsed
  <2> QED
    BY <2>2, <2>3
<1>11. ASSUME NEW c \in Conn, Deregister(c)
       PROVE  IdleRoomless' /\ HandlerIsMember'
  BY <1>1, <1>11 DEF Deregister
<1>12. ASSUME NEW i \in DOMAIN outbox, Deliver(i)
       PROVE  IdleRoomless' /\ HandlerIsMember'
  BY <1>1, <1>12 DEF Deliver, server
<1>13. CASE UNCHANGED vars
  BY <1>1, <1>13 DEF vars, server
<1> QED
  BY <1>2, <1>7, <1>8, <1>9, <1>10, <1>11, <1>12, <1>13
     DEF Next, DeliverDirect, DeliverBroadcast

(***************************************************************************)
(* With fresh ids the room id a handler keeps for itself never disagrees   *)
(* with the table: a connection that is open or in its grace period and    *)
(* believes to be in a room is listed there, for any number of             *)
(* connections moving between any number of rooms.                         *)
(***************************************************************************)
THEOREM HandlersAreMembers == UniqueIds => (Spec => []HandlerIsMember)
<1> SUFFICES ASSUME UniqueIds PROVE Spec => []HandlerIsMember
  OBVIOUS
<1>1. Init => IdleRoomless /\ HandlerIsMember
  BY DEF Init, IdleRoomless, HandlerIsMember
<1>2. TypeOK /\ IdleRoomless /\ HandlerIsMember /\ [Next]_vars
        => IdleRoomless' /\ HandlerIsMember'
  BY MemberStep DEF MemberInv
<1> QED
  BY <1>1, <1>2, TypeCorrect, PTL DEF Spec
-----------------------------------------------------------------------------
\* RoomMembership counts as this module does.
LEMMA SameCardinality ==
  ASSUME NEW S
  PROVE  Membership!Cardinality(S) = Cardinality(S)
BY DEF Membership!Cardinality, Cardinality

(***************************************************************************)
(* The server implements RoomMembership: a room is opened once under an id *)
(* never used before, gains and loses one member at a time, never exceeds  *)
(* the limit and never comes back once it has emptied, whatever handlers,  *)
(* grace timers and send tasks do in between.                              *)
(***************************************************************************)
THEOREM ImplementsMembership == Spec => MembershipSpec
<1> DEFINE members == [r \in RoomId |-> MembersOf(rooms, r)]
<1>1. Init => Membership!Init
  BY DEF Init, NoRooms, Membership!Init, MembersOf, ListOf, Range
<1>2. TypeOK /\ RoomsWellFormed /\ RoomsWellFormed' /\ TypeOK' /\ [Next]_vars
        => [Membership!Next]_(Membership!vars)
  <2> SUFFICES ASSUME TypeOK, WellFormed(rooms), WellFormed(rooms'), TypeOK',
                      [Next]_vars
               PROVE  [Membership!Next]_(Membership!vars)
    BY DEF RoomsWellFormed, WellFormed
  <2>1. /\ rooms \in [DOMAIN rooms -> Seq(Participant)]
        /\ rooms' \in [DOMAIN rooms' -> Seq(Participant)]
        /\ DOMAIN rooms \subseteq RoomId
    BY DEF TypeOK
  <2>2. RoomStep
    BY NextIsRoomStep
  <2>3. CASE UNCHANGED <<rooms, used>>
    BY <2>3 DEF Membership!vars
  <2>4. ASSUME NEW r \in RoomId \ used, NEW p \in Participant,
               rooms' = Created(rooms, r, p), used' = used \cup {r}
        PROVE  Membership!Open(p, r)
    <3>1. \A x \in RoomId :
            MembersOf(rooms', x) = IF x = r THEN {p} ELSE MembersOf(rooms, x)
      BY <2>4, MembersAfter
    <3>2. members' = [members EXCEPT ![r] = {p}]
      BY <3>1
    <3> QED
      BY <2>4, <3>2 DEF Membership!Open
  <2>5. ASSUME NEW r \in DOMAIN rooms, NEW p \in Participant,
               ~IsFull(rooms, r, p), rooms' = Joined(rooms, r, p), used' = used
        PROVE  Membership!Enter(p, r)
    <3>1. \A x \in RoomId :
            MembersOf(rooms', x) =
              IF x = r THEN MembersOf(rooms, r) \cup {p} ELSE MembersOf(rooms, x)
      BY <2>5, MembersAfter
    <3>2. members' = [members EXCEPT ![r] = @ \cup {p}] /\ r \in RoomId
      BY <2>1, <3>1
    <3>3. /\ DOMAIN rooms' = DOMAIN rooms
          /\ rooms'[r] \in Seq(Participant)
      BY <2>1, <2>5, JoinedProperties
    <3>4. Cardinality(MembersOf(rooms', r)) <= MaxParticipants
      <4>1. Len(rooms'[r]) \in 1 .. MaxParticipants
        BY <3>3 DEF WellFormed
      <4>2. Cardinality(MembersOf(rooms', r)) <= Len(rooms'[r])
        BY <3>3, MembersCounted DEF MembersOf, ListOf
      <4>3. Cardinality(MembersOf(rooms', r)) \in Nat
        <5>1. IsFiniteSet(MembersOf(rooms', r))
          BY <3>3, MembersCounted DEF MembersOf, ListOf
        <5> QED
          BY <5>1, FS_CardinalityType
      <4> QED
        BY <4>1, <4>2, <4>3, MaxParticipantsAssumption
    <3>5. members[r] # {}
      <4>1. rooms[r] \in Seq(Participant) /\ Len(rooms[r]) \in 1 .. MaxParticipants
        BY <2>1 DEF WellFormed
      <4>2. rooms[r][1] \in Range(rooms[r])
        BY <4>1, LenProperties, MaxParticipantsAssumption DEF Range
      <4> QED
        BY <3>2, <4>2 DEF MembersOf, ListOf
    <3> QED
      BY <2>5, <3>1, <3>2, <3>4, <3>5, SameCardinality DEF Membership!Enter
  <2>6. ASSUME NEW r \in DOMAIN rooms, NEW p \in Participant,
               rooms' = Left(rooms, r, p), used' = used
        PROVE  Membership!Exit(p, r)
    <3>1. \A x \in RoomId :
            MembersOf(rooms', x) =
              IF x = r THEN MembersOf(rooms, r) \ {p} ELSE MembersOf(rooms, x)
      BY <2>6, MembersAfter
    <3>2. members' = [members EXCEPT ![r] = @ \ {p}]
      BY <2>1, <3>1
    <3> QED
      BY <2>6, <3>2 DEF Membership!Exit
  <2> QED
    BY <2>1, <2>2, <2>3, <2>4, <2>5, <2>6 DEF RoomStep, Membership!Next
<1> QED
  BY <1>1, <1>2, TypeCorrect, RoomsStayWellFormed, PTL
     DEF Spec, MembershipSpec, Membership!Spec
-----------------------------------------------------------------------------
\* A Close waits to be sent to connection c.
ClosePending(c) == \E i \in DOMAIN outbox : outbox[i] = Direct(c, Close)

Registered(c) == IdOf[c] \in DOMAIN peers /\ peers[IdOf[c]] = c

LEMMA CurrentStep ==
  ASSUME TypeInv, CurrentConnection, [Next]_vars
  PROVE  CurrentConnection'
<1> USE ConnAssumption
<1>1. /\ outbox \in Seq(Task)
      /\ phase \in [Conn -> Phase]
      /\ \A c \in Conn : \/ phase[c] # "open" \/ c \in shut
                         \/ ClosePending(c)
                         \/ Registered(c)
  BY DEF TypeInv, TypeOK, CurrentConnection, ClosePending, Registered
<1>2. SUFFICES \A c \in Conn : \/ phase'[c] # "open" \/ c \in shut'
                               \/ ClosePending(c)'
                               \/ Registered(c)'
  BY DEF CurrentConnection, ClosePending, Registered
<1> DEFINE Current(c) == \/ phase'[c] # "open" \/ c \in shut'
                         \/ ClosePending(c)'
                         \/ Registered(c)'
<1>3. ASSUME NEW c \in Conn, OnlyAppends, ClosePending(c)
      PROVE  ClosePending(c)'
  BY <1>3 DEF OnlyAppends, ClosePending
\* Steps that register nobody and only add sends.
<1>4. ASSUME OnlyAppends, UNCHANGED <<peers, shut>>,
             \A d \in Conn : phase'[d] = phase[d] \/ phase'[d] # "open"
      PROVE  \A d \in Conn : Current(d)
  BY <1>1, <1>3, <1>4 DEF Registered
<1>5. ASSUME UNCHANGED outbox
      PROVE  OnlyAppends
  BY <1>5 DEF OnlyAppends
<1>6. ASSUME NEW c \in Conn, Accept(c)
      PROVE  \A d \in Conn : Current(d)
  <2>1. /\ peers' = [q \in DOMAIN peers \cup {IdOf[c]} |->
                       IF q = IdOf[c] THEN c ELSE peers[q]]
        /\ phase' = [phase EXCEPT ![c] = "open"]
        /\ shut' = shut
    BY <1>6 DEF Accept, client
  <2>2. /\ OnlyAppends
        /\ \A d \in Conn :
             IdOf[c] \in DOMAIN peers /\ peers[IdOf[c]] = d => ClosePending(d)'
    <3>1. CASE IdOf[c] \in DOMAIN peers
      <4>1. PICK e \in Conn : peers[IdOf[c]] = e
        BY <3>1 DEF TypeInv, TypeOK
      <4> DEFINE t == Direct(e, Close)
      <4>2. outbox' = Append(outbox, t)
        BY <1>6, <3>1, <4>1 DEF Accept
      <4>3. t \in Task
        BY DirectTask DEF Message, Close
      <4> HIDE DEF t
      <4>4. /\ OnlyAppends
            /\ Len(outbox) + 1 \in DOMAIN outbox' /\ outbox'[Len(outbox) + 1] = t
        BY <1>1, <4>2, <4>3 DEF OnlyAppends
      <4> QED
        BY <4>1, <4>4 DEF ClosePending, t
    <3>2. CASE IdOf[c] \notin DOMAIN peers
      BY <1>5, <1>6, <3>2 DEF Accept
    <3> QED
      BY <3>1, <3>2
  <2>3. Registered(c)'
    BY <2>1 DEF Registered
  <2>4. ASSUME NEW d \in Conn \ {c}
        PROVE  Current(d)
    <3>1. phase'[d] = phase[d]
      BY <1>1, <2>1
    <3>2. CASE Registered(d)
      BY <2>1, <2>2, <3>2 DEF Registered
    <3> QED
      BY <1>1, <1>3, <2>1, <2>2, <3>1, <3>2
  <2> QED
    BY <2>3, <2>4
<1>7. ASSUME NEW c \in Conn, Speak(c)
      PROVE  \A d \in Conn : Current(d)
  <2>1. OnlyAppends /\ UNCHANGED <<peers, shut, phase>>
    <3>1. ASSUME NEW code, Answer(code)
          PROVE  OnlyAppends /\ UNCHANGED <<peers, shut, phase>>
      BY <1>5, <3>1 DEF Answer, server, client
    <3>2. CASE DropText(c) \/ BadText(c)
      BY <3>1, <3>2 DEF DropText, BadText
    <3>3. CASE CreateRoom(c)
      <4>1. PICK r \in RoomId : outbox' = Append(outbox, Direct(c, RoomCreated(r)))
        BY <3>3 DEF CreateRoom
      <4>2. OnlyAppends
        BY <1>1, <4>1 DEF OnlyAppends
      <4> QED
        BY <3>3, <4>2 DEF CreateRoom, client
    <3>4. ASSUME NEW r \in RoomId, JoinRoom(c, r)
          PROVE  OnlyAppends /\ UNCHANGED <<peers, shut, phase>>
      BY <3>1, <3>4, ArriveTyped DEF JoinRoom, client
    <3>5. CASE LeaveRoom(c)
      BY <3>1, <3>5, DepartTyped DEF LeaveRoom, client
    <3>6. ASSUME NEW to \in Participant, Signal(c, to)
          PROVE  OnlyAppends /\ UNCHANGED <<peers, shut, phase>>
      <4>1. ASSUME NEW t, outbox' = Append(outbox, t), UNCHANGED <<server, client>>
            PROVE  OnlyAppends /\ UNCHANGED <<peers, shut, phase>>
        BY <1>1, <4>1 DEF OnlyAppends, server, client
      <4> QED
        BY <3>1, <3>6, <4>1 DEF Signal
    <3> QED
      BY <1>7, <3>2, <3>3, <3>4, <3>5, <3>6 DEF Speak
  <2> QED
    BY <1>4, <2>1
<1>8. ASSUME NEW c \in Conn, NormalClose(c) \/ AbnormalClose(c) \/ BinaryFrame(c)
      PROVE  \A d \in Conn : Current(d)
  <2>1. UNCHANGED <<outbox, peers, shut>>
    BY <1>8 DEF NormalClose, AbnormalClose, BinaryFrame, Ends
  <2>2. \A d \in Conn : phase'[d] = phase[d] \/ phase'[d] # "open"
    BY <1>1, <1>8 DEF NormalClose, AbnormalClose, BinaryFrame
  <2> QED
    BY <1>4, <1>5, <2>1, <2>2
<1>9. ASSUME NEW c \in Conn, GraceElapsed(c)
      PROVE  \A d \in Conn : Current(d)
  <2>1. OnlyAppends
    BY <1>5, <1>9, DepartTyped DEF GraceElapsed
  <2>2. \A d \in Conn : phase'[d] = phase[d] \/ phase'[d] # "open"
    BY <1>1, <1>9 DEF GraceElapsed
  <2>3. UNCHANGED <<peers, shut>>
    BY <1>9 DEF GraceElapsed, client
  <2> QED
    BY <1>4, <2>1, <2>2, <2>3
<1>10. ASSUME NEW c \in Conn, Deregister(c)
       PROVE  \A d \in Conn : Current(d)
  <2>1. /\ phase[c] = "deregister" /\ phase' = [phase EXCEPT ![c] = "closed"]
        /\ UNCHANGED <<outbox, shut>>
        /\ \/ Registered(c) /\ peers' = Restrict(peers, DOMAIN peers \ {IdOf[c]})
           \/ UNCHANGED peers
    BY <1>10 DEF Deregister, Registered, client
  <2>2. ASSUME NEW d \in Conn \ {c}, Registered(d)
        PROVE  Registered(d)'
    BY <2>1, <2>2 DEF Registered, Restrict
  <2> QED
    BY <1>1, <1>3, <1>5, <2>1, <2>2
<1>11. ASSUME NEW i \in DOMAIN outbox, Deliver(i)
       PROVE  \A d \in Conn : Current(d)
  <2>1. /\ outbox' = SubSeq(outbox, 1, i - 1) \o SubSeq(outbox, i + 1, Len(outbox))
        /\ UNCHANGED <<phase, peers>>
    BY <1>11 DEF Deliver, Finish, server
  <2>2. \A j \in DOMAIN outbox \ {i} : \E k \in DOMAIN outbox' : outbox'[k] = outbox[j]
    <3> DEFINE s == outbox
               q == SubSeq(s, 1, i - 1) \o SubSeq(s, i + 1, Len(s))
    <3>1. s \in Seq(Task) /\ outbox' = q
      BY <1>1, <2>1
    <3> HIDE DEF s
    <3>2. i \in DOMAIN s
      BY DEF s
    <3>3. \A j \in DOMAIN s \ {i} : \E k \in DOMAIN q : q[k] = s[j]
      BY <3>1, <3>2, RemovedTask
    <3> HIDE DEF q
    <3> QED
      BY <3>1, <3>3 DEF s
  <2>3. shut \subseteq shut'
    BY <1>11 DEF Deliver, Receive, client
  <2>4. ASSUME NEW d \in Conn, outbox[i] = Direct(d, Close), phase[d] = "open"
        PROVE  d \in shut'
    <3>1. outbox[i].msg.kind = "Close" /\ Reached(outbox[i]) = {d}
      BY <2>4 DEF Direct, Close, Reached
    <3>2. CASE Receives(d)
      BY <1>11, <3>1, <3>2 DEF Deliver, Receive
    <3>3. CASE ~Receives(d)
      BY <2>3, <2>4, <3>3 DEF Receives
    <3> QED
      BY <3>2, <3>3
  <2>5. ASSUME NEW d \in Conn, ClosePending(d), phase[d] = "open"
        PROVE  d \in shut' \/ ClosePending(d)'
    <3>1. PICK j \in DOMAIN outbox : outbox[j] = Direct(d, Close)
      BY <2>5 DEF ClosePending
    <3>2. CASE j = i
      BY <2>4, <2>5, <3>1, <3>2
    <3>3. CASE j # i
      BY <2>2, <3>1, <3>3 DEF ClosePending
    <3> QED
      BY <3>2, <3>3
  <2> QED
    BY <1>1, <2>1, <2>3, <2>5 DEF Registered
<1>12. CASE UNCHANGED vars
  BY <1>4, <1>5, <1>12 DEF vars, server, client
<1> QED
  BY <1>2, <1>6, <1>7, <1>8, <1>9, <1>10, <1>11, <1>12
     DEF Next, DeliverDirect, DeliverBroadcast

(***************************************************************************)
(* Of the connections that share an id, however many and however their     *)
(* inserts, disconnects and removals interleave, at most one is neither    *)
(* sent a Close nor about to be, and that one is the registered one: a     *)
(* late remove_if_same never unregisters its successor.                    *)
(***************************************************************************)
THEOREM OneCurrentConnection == Spec => []CurrentConnection
<1>1. Init => CurrentConnection
  BY DEF Init, CurrentConnection
<1>2. TypeInv /\ CurrentConnection /\ [Next]_vars => CurrentConnection'
  BY CurrentStep
<1> QED
  BY <1>1, <1>2, TypeInvariant, PTL DEF Spec
=============================================================================
