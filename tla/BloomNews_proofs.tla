-------------------------- MODULE BloomNews_proofs --------------------------
(***************************************************************************)
(* What clients of BloomServer are told of their rooms: theorems about the *)
(* sends that are on their way, for any set of connections, ids and rooms. *)
(* The second half is about clients that leave a room before they create   *)
(* or join another: nobody stays in a room by accident, and nobody is      *)
(* listed to a client before the event that announces it.                  *)
(***************************************************************************)
EXTENDS BloomServer_proofs

\* The send t, once made, tells connection c who is in room r: NewsOf(t, c).
TaskInforms(t, c, r) ==
  \/ t = Direct(c, RoomCreated(r))
  \/ /\ t.via = "peers" /\ t.dest = IdOf[c]
     /\ t.msg.kind = "RoomParticipants" /\ t.msg.room = r

NewsOf(t, c) == IF t.via = "sink" THEN <<IdOf[c]>> ELSE t.msg.list

\* When all sends in front of place n are made, the list of room r that c
\* holds is one of L; own is the list it holds now.
Tells(box, own, c, r, n, L) ==
  /\ \A i \in 1 .. n - 1 :
       /\ TaskInforms(box[i], c, r)
       /\ \A j \in i + 1 .. n - 1 : ~TaskInforms(box[j], c, r)
       => NewsOf(box[i], c) \in L
  /\ (\A i \in 1 .. n - 1 : ~TaskInforms(box[i], c, r)) => own \in L

\* Only the sends in front of the place matter.
LEMMA TellsSame ==
  ASSUME NEW box, NEW box2, NEW own, NEW c, NEW r, NEW n \in Nat, NEW L,
         \A i \in 1 .. n - 1 : box2[i] = box[i],
         Tells(box, own, c, r, n, L)
  PROVE  Tells(box2, own, c, r, n, L)
<1>1. \A i \in 1 .. n - 1 : TaskInforms(box2[i], c, r) <=> TaskInforms(box[i], c, r)
  OBVIOUS
<1>2. \A i \in 1 .. n - 1 : \A j \in i + 1 .. n - 1 : j \in 1 .. n - 1
  OBVIOUS
<1> QED
  BY <1>1, <1>2 DEF Tells

\* Sends about something else make no difference.
LEMMA TellsSkips ==
  ASSUME NEW box, NEW own, NEW c, NEW r, NEW n \in Nat, NEW m \in Nat, NEW L,
         n <= m,
         \A i \in n .. m - 1 : ~TaskInforms(box[i], c, r),
         Tells(box, own, c, r, n, L)
  PROVE  Tells(box, own, c, r, m, L)
<1> DEFINE informs(i) == TaskInforms(box[i], c, r)
<1>1. \A i \in 1 .. m - 1 : informs(i) => i \in 1 .. n - 1
  OBVIOUS
<1>2. \A i \in 1 .. n - 1 : i \in 1 .. m - 1
  OBVIOUS
<1>3. \A i \in 1 .. n - 1 : \A j \in i + 1 .. n - 1 : j \in i + 1 .. m - 1
  OBVIOUS
<1> HIDE DEF informs
<1> QED
  BY <1>1, <1>2, <1>3 DEF Tells, informs

\* The send at place i is made: a list it carries is from now on the own one.
LEMMA TellsRemoved ==
  ASSUME NEW s \in Seq(Task), NEW q \in Seq(Task), NEW i \in 1 .. Len(s),
         \A j \in 1 .. Len(s) - 1 : q[j] = IF j < i THEN s[j] ELSE s[j + 1],
         NEW own, NEW own2, NEW c, NEW r, NEW n \in i + 1 .. Len(s) + 1, NEW L,
         own2 = IF TaskInforms(s[i], c, r) THEN NewsOf(s[i], c) ELSE own,
         TaskInforms(s[i], c, r) => \A j \in 1 .. i - 1 : ~TaskInforms(s[j], c, r),
         Tells(s, own, c, r, n, L)
  PROVE  Tells(q, own2, c, r, n - 1, L)
<1> DEFINE old(j) == TaskInforms(s[j], c, r)
           new(j) == TaskInforms(q[j], c, r)
<1>1. Len(s) \in Nat /\ n \in Nat /\ i \in Nat
  BY LenProperties
<1>2. /\ \A j \in 1 .. i - 1 : q[j] = s[j] /\ (new(j) <=> old(j))
      /\ \A j \in i .. n - 2 : q[j] = s[j + 1] /\ (new(j) <=> old(j + 1))
  <2>1. \A j \in 1 .. i - 1 : j \in 1 .. Len(s) - 1 /\ j < i
    BY <1>1
  <2>2. \A j \in i .. n - 2 : j \in 1 .. Len(s) - 1 /\ ~(j < i)
    BY <1>1
  <2>3. /\ \A j \in 1 .. i - 1 : q[j] = s[j]
        /\ \A j \in i .. n - 2 : q[j] = s[j + 1]
    BY <2>1, <2>2
  <2> QED
    BY <2>3
<1>3. \A j \in i + 1 .. n - 1 : j - 1 \in i .. n - 2 /\ (j - 1) + 1 = j
  BY <1>1
<1>4. \A j \in i + 1 .. n - 1 : new(j - 1) <=> old(j)
  BY <1>2, <1>3
<1>5. old(i) => \A j \in 1 .. i - 1 : ~old(j)
  OBVIOUS
<1>6. /\ \A k \in 1 .. n - 1 :
           old(k) /\ (\A j \in k + 1 .. n - 1 : ~old(j)) => NewsOf(s[k], c) \in L
      /\ (\A k \in 1 .. n - 1 : ~old(k)) => own \in L
  BY DEF Tells
<1> HIDE DEF old, new
<1>7. ASSUME NEW k \in 1 .. n - 2, new(k), \A j \in k + 1 .. n - 2 : ~new(j)
      PROVE  NewsOf(q[k], c) \in L
  <2>1. CASE k < i
    <3>1. k \in 1 .. i - 1 /\ k \in 1 .. n - 1 /\ old(k) /\ q[k] = s[k]
      BY <1>1, <1>2, <1>7, <2>1
    <3>2. ASSUME NEW j \in k + 1 .. n - 1
          PROVE  ~old(j)
      <4>1. CASE j < i
        BY <1>1, <1>2, <1>7, <4>1
      <4>2. CASE j = i
        BY <1>5, <3>1, <4>2
      <4>3. CASE j > i
        <5>1. j \in i + 1 .. n - 1 /\ j - 1 \in k + 1 .. n - 2
          BY <1>1, <2>1, <4>3
        <5> QED
          BY <1>4, <1>7, <5>1
      <4> QED
        BY <1>1, <4>1, <4>2, <4>3
    <3> QED
      BY <1>6, <3>1, <3>2
  <2>2. CASE k >= i
    <3>1. k \in i .. n - 2 /\ k + 1 \in 1 .. n - 1
      BY <1>1, <2>2
    <3>2. old(k + 1) /\ q[k] = s[k + 1]
      BY <1>2, <1>7, <3>1
    <3>3. ASSUME NEW j \in k + 1 + 1 .. n - 1
          PROVE  ~old(j)
      <4>1. j \in i + 1 .. n - 1 /\ j - 1 \in k + 1 .. n - 2
        BY <1>1, <2>2
      <4> QED
        BY <1>4, <1>7, <4>1
    <3> QED
      BY <1>6, <3>1, <3>2, <3>3
  <2> QED
    BY <1>1, <2>1, <2>2
<1>8. ASSUME \A j \in 1 .. n - 2 : ~new(j)
      PROVE  own2 \in L
  <2>1. \A j \in 1 .. n - 1 : j # i => ~old(j)
    <3> TAKE j \in 1 .. n - 1
    <3>1. CASE j < i
      BY <1>1, <1>2, <1>8, <3>1
    <3>2. CASE j > i
      <4>1. j \in i + 1 .. n - 1 /\ j - 1 \in 1 .. n - 2
        BY <1>1, <3>2
      <4> QED
        BY <1>4, <1>8, <4>1
    <3> QED
      BY <1>1, <3>1, <3>2
  <2>2. i \in 1 .. n - 1
    BY <1>1
  <2>3. CASE old(i)
    <3>1. \A j \in i + 1 .. n - 1 : ~old(j)
      BY <1>1, <2>1
    <3> QED
      BY <1>6, <2>2, <2>3, <3>1 DEF old
  <2>4. CASE ~old(i)
    BY <1>6, <2>1, <2>4 DEF old
  <2> QED
    BY <2>3, <2>4
<1>9. (n - 1) - 1 = n - 2
  BY <1>1
<1> QED
  BY <1>7, <1>8, <1>9 DEF Tells, new
-----------------------------------------------------------------------------
(***************************************************************************)
(* With fresh ids a connection is registered from its acceptance until it  *)
(* is deregistered, under its own id, and nobody takes its place.          *)
(***************************************************************************)
Registry ==
  /\ \A p \in DOMAIN peers : IdOf[peers[p]] = p /\ phase[peers[p]] # "idle"
  /\ \A c \in Conn :
       phase[c] \in {"open", "grace", "deregister"} => IdOf[c] \in DOMAIN peers

LEMMA RegistryStep ==
  ASSUME UniqueIds, TypeInv, Registry, [Next]_vars
  PROVE  Registry'
<1> USE ConnAssumption
<1>1. /\ phase \in [Conn -> Phase]
      /\ peers \in [DOMAIN peers -> Conn]
      /\ \A c, d \in Conn : IdOf[c] = IdOf[d] => c = d
  BY DEF TypeInv, TypeOK, UniqueIds
<1>2. ASSUME UNCHANGED <<phase, peers>>
      PROVE  Registry'
  BY <1>2 DEF Registry
<1>3. ASSUME NEW c \in Conn, Accept(c)
      PROVE  Registry'
  BY <1>1, <1>3 DEF Accept, Registry
<1>4. ASSUME NEW c \in Conn, Speak(c)
      PROVE  Registry'
  BY <1>2, <1>4 DEF Speak, DropText, BadText, CreateRoom, JoinRoom, LeaveRoom, Signal,
                    Answer, server
<1>5. ASSUME NEW c \in Conn,
             NormalClose(c) \/ AbnormalClose(c) \/ BinaryFrame(c) \/ GraceElapsed(c)
      PROVE  Registry'
  <2>1. /\ peers' = peers
        /\ phase[c] \in {"open", "grace"}
        /\ \/ phase' = [phase EXCEPT ![c] = "deregister"]
           \/ phase' = [phase EXCEPT ![c] = "grace"]
    BY <1>5 DEF NormalClose, AbnormalClose, BinaryFrame, GraceElapsed, Ends
  <2> QED
    BY <1>1, <2>1 DEF Registry
<1>6. ASSUME NEW c \in Conn, Deregister(c)
      PROVE  Registry'
  <2>1. /\ phase' = [phase EXCEPT ![c] = "closed"]
        /\ \/ peers' = Restrict(peers, DOMAIN peers \ {IdOf[c]})
           \/ UNCHANGED peers
    BY <1>6 DEF Deregister
  <2> QED
    BY <1>1, <2>1 DEF Registry, Restrict
<1>7. ASSUME NEW i \in DOMAIN outbox, Deliver(i)
      PROVE  Registry'
  BY <1>2, <1>7 DEF Deliver, server
<1>8. CASE UNCHANGED vars
  BY <1>2, <1>8 DEF vars, server
<1> QED
  BY <1>3, <1>4, <1>5, <1>6, <1>7, <1>8 DEF Next, DeliverDirect, DeliverBroadcast
-----------------------------------------------------------------------------
(***************************************************************************)
(* What a step is for rooms, sends and clients: nothing, a call of the     *)
(* core with the sends it spawns, a relay or a delivery.                   *)
(***************************************************************************)
NobodyNew ==
  /\ \A c \in Conn : Receives(c)' => Receives(c)
  /\ \A c \in Conn : phase'[c] = "idle" => phase[c] = "idle"

Quiet ==
  /\ UNCHANGED <<rooms, used, outbox>>
  /\ \A c \in Conn : phase'[c] = "idle" => phase[c] = "idle"
  /\ \A c \in Conn :
       Receives(c)' => /\ Receives(c) \/ phase[c] = "idle"
                       /\ roster'[c] = roster[c] /\ greeted'[c] = greeted[c]

Creates(c, r) ==
  /\ r \notin used
  /\ phase[c] = "open"
  /\ LeavesFirst => roomOf[c] = NoRoom
  /\ rooms' = Created(rooms, r, IdOf[c])
  /\ used' = used \cup {r}
  /\ outbox' = Append(outbox, Direct(c, RoomCreated(r)))
  /\ NobodyNew
  /\ UNCHANGED client

Arrives(c, r) ==
  /\ r \in DOMAIN rooms
  /\ phase[c] = "open"
  /\ LeavesFirst => roomOf[c] = NoRoom
  /\ ~IsFull(rooms, r, IdOf[c])
  /\ Arrive(IdOf[c], r)
  /\ NobodyNew
  /\ UNCHANGED <<used, client>>

Departs(c, r) ==
  /\ r \in DOMAIN rooms
  /\ roomOf[c] = r
  /\ phase[c] \in {"open", "grace"}
  /\ Depart(IdOf[c], r)
  /\ NobodyNew
  /\ UNCHANGED <<used, client>>

Relays(c, to) ==
  /\ phase[c] = "open"
  /\ roomOf[c] \in RoomId
  /\ MayRelay(roomOf[c], IdOf[c], to)
  /\ outbox' = Append(outbox, SendTo(to, Relay(IdOf[c], roomOf[c])))
  /\ NobodyNew
  /\ UNCHANGED <<rooms, used, client>>

LEMMA StepKinds ==
  ASSUME UniqueIds, TypeInv, Registry, [Next]_vars
  PROVE  \/ Quiet
         \/ \E c \in Conn, r \in RoomId :
              Creates(c, r) \/ Arrives(c, r) \/ Departs(c, r)
         \/ \E c \in Conn, to \in Participant : Relays(c, to)
         \/ \E i \in DOMAIN outbox : Deliver(i)
<1> DEFINE Kinds == \/ Quiet
                    \/ \E c \in Conn, r \in RoomId :
                         Creates(c, r) \/ Arrives(c, r) \/ Departs(c, r)
                    \/ \E c \in Conn, to \in Participant : Relays(c, to)
                    \/ \E i \in DOMAIN outbox : Deliver(i)
<1> USE ConnAssumption
<1>1. /\ phase \in [Conn -> Phase]
      /\ peers \in [DOMAIN peers -> Conn]
      /\ roomOf \in [Conn -> used \cup {NoRoom}]
      /\ DOMAIN rooms \subseteq RoomId /\ used \subseteq RoomId
      /\ roster \in [Conn -> [RoomId -> Seq(Participant)]]
      /\ greeted \in [Conn -> SUBSET Participant]
  BY DEF TypeInv, TypeOK
<1>2. ASSUME UNCHANGED <<phase, client>>
      PROVE  NobodyNew
  BY <1>2 DEF NobodyNew, Receives, client
<1>3. ASSUME UNCHANGED <<server, outbox, client>>
      PROVE  Quiet
  BY <1>3 DEF Quiet, Receives, server, client
<1>4. ASSUME NEW code, Answer(code)
      PROVE  Quiet
  BY <1>3, <1>4 DEF Answer
<1>5. ASSUME NEW c \in Conn, Accept(c)
      PROVE  Quiet
  <2>1. IdOf[c] \notin DOMAIN peers
    BY <1>1, <1>5 DEF Accept, Registry, UniqueIds
  <2>2. /\ phase' = [phase EXCEPT ![c] = "open"] /\ phase[c] = "idle"
        /\ UNCHANGED <<rooms, used, outbox, client>>
    BY <1>5, <2>1 DEF Accept
  <2> QED
    BY <1>1, <2>2 DEF Quiet, Receives, client
<1>6. ASSUME NEW c \in Conn, Speak(c)
      PROVE  Kinds
  <2>1. CASE DropText(c) \/ BadText(c)
    BY <1>4, <2>1 DEF DropText, BadText
  <2>2. CASE CreateRoom(c)
    <3>1. NobodyNew
      BY <1>2, <2>2 DEF CreateRoom
    <3>2. \E r \in RoomId : Creates(c, r)
      BY <2>2, <3>1 DEF CreateRoom, Creates, Speaks
    <3> QED
      BY <3>2
  <2>3. ASSUME NEW r \in RoomId, JoinRoom(c, r)
        PROVE  Kinds
    <3>1. CASE \E code : Answer(code)
      BY <1>4, <3>1
    <3>2. CASE /\ r \in DOMAIN rooms
               /\ ~IsFull(rooms, r, IdOf[c])
               /\ Arrive(IdOf[c], r)
               /\ UNCHANGED <<used, phase, client>>
      <4>1. Arrives(c, r)
        BY <1>2, <2>3, <3>2 DEF JoinRoom, Speaks, Arrives
      <4> QED
        BY <4>1
    <3> QED
      BY <2>3, <3>1, <3>2 DEF JoinRoom
  <2>4. CASE LeaveRoom(c)
    <3>1. CASE \E code : Answer(code)
      BY <1>4, <3>1
    <3>2. CASE /\ roomOf[c] \in DOMAIN rooms
               /\ Depart(IdOf[c], roomOf[c])
               /\ UNCHANGED <<used, phase, client>>
      <4>1. Departs(c, roomOf[c])
        BY <1>2, <2>4, <3>2 DEF LeaveRoom, Speaks, Departs
      <4> QED
        BY <1>1, <3>2, <4>1
    <3> QED
      BY <2>4, <3>1, <3>2 DEF LeaveRoom
  <2>5. ASSUME NEW to \in Participant, Signal(c, to)
        PROVE  Kinds
    <3>1. CASE \E code : Answer(code)
      BY <1>4, <3>1
    <3>2. CASE /\ roomOf[c] # NoRoom
               /\ MayRelay(roomOf[c], IdOf[c], to)
               /\ outbox' = Append(outbox, SendTo(to, Relay(IdOf[c], roomOf[c])))
               /\ UNCHANGED <<server, client>>
      <4>1. roomOf[c] \in RoomId /\ UNCHANGED <<rooms, used, phase, client>>
        BY <1>1, <3>2 DEF server
      <4>2. Relays(c, to)
        BY <1>2, <2>5, <3>2, <4>1 DEF Signal, Speaks, Relays
      <4> QED
        BY <4>2
    <3> QED
      BY <2>5, <3>1, <3>2 DEF Signal
  <2> QED
    BY <1>6, <2>1, <2>2, <2>3, <2>4, <2>5 DEF Speak
<1>7. ASSUME NEW c \in Conn, NormalClose(c) \/ AbnormalClose(c) \/ BinaryFrame(c)
      PROVE  Quiet
  <2>1. /\ phase[c] = "open"
        /\ phase' = [phase EXCEPT ![c] = "deregister"] \/ phase' = [phase EXCEPT ![c] = "grace"]
        /\ roster' = [roster EXCEPT ![c] = [r \in RoomId |-> <<>>]]
        /\ greeted' = [greeted EXCEPT ![c] = {}]
        /\ UNCHANGED <<rooms, used, outbox, shut>>
    BY <1>7 DEF NormalClose, AbnormalClose, BinaryFrame, Ends
  <2> QED
    BY <1>1, <2>1 DEF Quiet, Receives
<1>8. ASSUME NEW c \in Conn, GraceElapsed(c)
      PROVE  Kinds
  <2>1. /\ phase[c] = "grace"
        /\ phase' = [phase EXCEPT ![c] = "deregister"]
        /\ UNCHANGED <<used, client>>
    BY <1>8 DEF GraceElapsed
  <2>2. NobodyNew
    BY <1>1, <2>1 DEF NobodyNew, Receives, client
  <2>3. CASE roomOf[c] \in DOMAIN rooms
    <3>1. Departs(c, roomOf[c])
      BY <1>8, <2>1, <2>2, <2>3 DEF GraceElapsed, Departs
    <3> QED
      BY <1>1, <2>3, <3>1
  <2>4. CASE roomOf[c] \notin DOMAIN rooms
    <3>1. Quiet
      BY <1>8, <2>1, <2>2, <2>4 DEF GraceElapsed, Quiet, NobodyNew, client
    <3> QED
      BY <3>1
  <2> QED
    BY <2>3, <2>4
<1>9. ASSUME NEW c \in Conn, Deregister(c)
      PROVE  Quiet
  BY <1>1, <1>9 DEF Deregister, Quiet, Receives, client
<1>10. CASE UNCHANGED vars
  BY <1>3, <1>10 DEF vars
<1> QED
  BY <1>5, <1>6, <1>7, <1>8, <1>9, <1>10 DEF Next, DeliverDirect, DeliverBroadcast
-----------------------------------------------------------------------------
\* q is s with a round of m and then one of n to the participants of list.
Rounds(q, s, list, m, n) ==
  /\ q \in Seq(Task)
  /\ Len(s) \in Nat /\ Len(list) \in Nat
  /\ Len(q) = Len(s) + Len(list) + Len(list)
  /\ \A i \in 1 .. Len(s) : q[i] = s[i]
  /\ \A k \in 1 .. Len(list) : q[Len(s) + k] = SendTo(list[k], m)
  /\ \A k \in 1 .. Len(list) : q[Len(s) + Len(list) + k] = SendTo(list[k], n)
  /\ \A i \in Len(s) + 1 .. Len(q) : \E k \in 1 .. Len(list) :
       \/ i = Len(s) + k
       \/ i = Len(s) + Len(list) + k

LEMMA RoundsAt ==
  ASSUME NEW s \in Seq(Task), NEW list \in Seq(Participant),
         NEW m \in Message, NEW n \in Message, NEW q,
         q = s \o ToEach(list, m) \o ToEach(list, n)
  PROVE  Rounds(q, s, list, m, n)
<1> DEFINE a == ToEach(list, m)
           b == ToEach(list, n)
           first == s \o a
<1>1. Len(s) \in Nat /\ Len(list) \in Nat
  BY LenProperties
<1>2. /\ a \in Seq(Task) /\ Len(a) = Len(list)
      /\ b \in Seq(Task) /\ Len(b) = Len(list)
      /\ \A k \in 1 .. Len(list) : a[k] = SendTo(list[k], m) /\ b[k] = SendTo(list[k], n)
  <2>1. a \in Seq(Task) /\ b \in Seq(Task)
    BY ToEachTasks
  <2>2. /\ DOMAIN a = 1 .. Len(list) /\ DOMAIN b = 1 .. Len(list)
        /\ \A k \in 1 .. Len(list) : a[k] = SendTo(list[k], m) /\ b[k] = SendTo(list[k], n)
    BY DEF ToEach
  <2> HIDE DEF a, b
  <2> QED
    BY <1>1, <2>1, <2>2, LenProperties
<1> HIDE DEF a, b
<1>3. /\ first \in Seq(Task) /\ Len(first) = Len(s) + Len(list)
      /\ \A i \in 1 .. Len(s) + Len(list) :
           first[i] = IF i <= Len(s) THEN s[i] ELSE a[i - Len(s)]
  <2>1. /\ first \in Seq(Task) /\ Len(first) = Len(s) + Len(a)
        /\ \A i \in 1 .. Len(s) + Len(a) :
             first[i] = IF i <= Len(s) THEN s[i] ELSE a[i - Len(s)]
    <3>1. s \in Seq(Task) /\ a \in Seq(Task)
      BY <1>2
    <3> QED
      BY <3>1, ConcatProperties
  <2> HIDE DEF first
  <2> QED
    BY <1>2, <2>1
<1>4. q = first \o b
  BY DEF a, b
<1> HIDE DEF first
<1>5. /\ q \in Seq(Task) /\ Len(q) = Len(s) + Len(list) + Len(list)
      /\ \A i \in 1 .. Len(s) + Len(list) + Len(list) :
           q[i] = IF i <= Len(s) + Len(list) THEN first[i] ELSE b[i - (Len(s) + Len(list))]
  <2>0. first \in Seq(Task) /\ b \in Seq(Task)
    BY <1>2, <1>3
  <2>1. /\ first \o b \in Seq(Task) /\ Len(first \o b) = Len(first) + Len(b)
        /\ \A i \in 1 .. Len(first) + Len(b) :
             (first \o b)[i] = IF i <= Len(first) THEN first[i] ELSE b[i - Len(first)]
    BY <2>0, ConcatProperties
  <2> QED
    BY <1>2, <1>3, <1>4, <2>1
<1>6. \A i \in 1 .. Len(s) : q[i] = s[i]
  BY <1>1, <1>3, <1>5
<1>7. ASSUME NEW k \in 1 .. Len(list)
      PROVE  q[Len(s) + k] = SendTo(list[k], m)
  <2>1. /\ Len(s) + k \in 1 .. Len(s) + Len(list)
        /\ Len(s) + k \in 1 .. Len(s) + Len(list) + Len(list)
        /\ ~(Len(s) + k <= Len(s))
        /\ Len(s) + k <= Len(s) + Len(list)
        /\ (Len(s) + k) - Len(s) = k
    BY <1>1
  <2>2. q[Len(s) + k] = first[Len(s) + k]
    BY <1>5, <2>1
  <2>3. first[Len(s) + k] = a[k]
    BY <1>3, <2>1
  <2> QED
    BY <1>2, <2>2, <2>3
<1>8. ASSUME NEW k \in 1 .. Len(list)
      PROVE  q[Len(s) + Len(list) + k] = SendTo(list[k], n)
  <2>1. /\ Len(s) + Len(list) + k \in 1 .. Len(s) + Len(list) + Len(list)
        /\ ~(Len(s) + Len(list) + k <= Len(s) + Len(list))
        /\ (Len(s) + Len(list) + k) - (Len(s) + Len(list)) = k
    BY <1>1
  <2> QED
    BY <1>2, <1>5, <2>1
<1>9. ASSUME NEW i \in Len(s) + 1 .. Len(q)
      PROVE  \E k \in 1 .. Len(list) :
               i = Len(s) + k \/ i = Len(s) + Len(list) + k
  <2>1. CASE i <= Len(s) + Len(list)
    <3>1. i - Len(s) \in 1 .. Len(list) /\ i = Len(s) + (i - Len(s))
      BY <1>1, <1>5, <2>1
    <3> QED
      BY <3>1
  <2>2. CASE i > Len(s) + Len(list)
    <3>1. /\ i - (Len(s) + Len(list)) \in 1 .. Len(list)
          /\ i = Len(s) + Len(list) + (i - (Len(s) + Len(list)))
      BY <1>1, <1>5, <2>2
    <3> QED
      BY <3>1
  <2> QED
    BY <1>1, <1>5, <2>1, <2>2
<1> QED
  BY <1>1, <1>5, <1>6, <1>7, <1>8, <1>9 DEF Rounds

(***************************************************************************)
(* The sends of a join and of a leave: an event to every member the room   *)
(* has afterwards, then the list of these members to each of them.         *)
(***************************************************************************)
Broadcasts(r, m) ==
  LET list == ListOf(rooms', r) IN
  /\ list \in Seq(Participant)
  /\ outbox' = outbox \o ToEach(list, m) \o ToEach(list, RoomParticipants(r, list))

LEMMA ArrivalBroadcasts ==
  ASSUME TypeInv, NEW c \in Conn, NEW r \in RoomId, Arrives(c, r)
  PROVE  /\ Broadcasts(r, PeerConnected(IdOf[c]))
         /\ \A x : MembersOf(rooms', x) =
              IF x = r THEN MembersOf(rooms, r) \cup {IdOf[c]} ELSE MembersOf(rooms, x)
         /\ \A x \in DOMAIN rooms' \ {r} : x \in DOMAIN rooms /\ rooms'[x] = rooms[x]
<1>1. /\ r \in DOMAIN rooms
      /\ rooms' = Joined(rooms, r, IdOf[c])
      /\ outbox' = outbox \o ToEach(rooms'[r], PeerConnected(IdOf[c]))
                          \o ToEach(rooms'[r], RoomParticipants(r, rooms'[r]))
  BY DEF Arrives, Arrive
<1>2. rooms \in [DOMAIN rooms -> Seq(Participant)] /\ IdOf[c] \in Participant
  BY ConnAssumption DEF TypeInv, TypeOK
<1>3. /\ DOMAIN rooms' = DOMAIN rooms
      /\ rooms' \in [DOMAIN rooms -> Seq(Participant)]
      /\ \A x : MembersOf(rooms', x) =
           IF x = r THEN MembersOf(rooms, r) \cup {IdOf[c]} ELSE MembersOf(rooms, x)
  <2> DEFINE joined == Joined(rooms, r, IdOf[c])
  <2>1. /\ DOMAIN joined = DOMAIN rooms
        /\ joined \in [DOMAIN rooms -> Seq(Participant)]
        /\ \A x : MembersOf(joined, x) =
             IF x = r THEN MembersOf(rooms, r) \cup {IdOf[c]} ELSE MembersOf(rooms, x)
    BY <1>1, <1>2, JoinedProperties
  <2> HIDE DEF joined
  <2>2. rooms' = joined
    BY <1>1 DEF joined
  <2> QED
    BY <2>1, <2>2
<1>4. ListOf(rooms', r) = rooms'[r] /\ rooms'[r] \in Seq(Participant)
  BY <1>1, <1>3 DEF ListOf
<1>5. \A x \in DOMAIN rooms' \ {r} : x \in DOMAIN rooms /\ rooms'[x] = rooms[x]
  BY <1>1, <1>3 DEF Joined
<1> QED
  BY <1>1, <1>3, <1>4, <1>5 DEF Broadcasts

LEMMA DepartureBroadcasts ==
  ASSUME TypeInv, NEW c \in Conn, NEW r \in RoomId, Departs(c, r)
  PROVE  /\ Broadcasts(r, PeerDisconnected(IdOf[c]))
         /\ \A x : MembersOf(rooms', x) =
              IF x = r THEN MembersOf(rooms, r) \ {IdOf[c]} ELSE MembersOf(rooms, x)
         /\ \A x \in DOMAIN rooms' \ {r} : x \in DOMAIN rooms /\ rooms'[x] = rooms[x]
<1>1. /\ r \in DOMAIN rooms
      /\ rooms' = Left(rooms, r, IdOf[c])
      /\ outbox' = outbox \o ToEach(ListOf(rooms', r), PeerDisconnected(IdOf[c]))
                          \o ToEach(ListOf(rooms', r), RoomParticipants(r, ListOf(rooms', r)))
  BY DEF Departs, Depart
<1>2. rooms \in [DOMAIN rooms -> Seq(Participant)]
  BY DEF TypeInv, TypeOK
<1>3. /\ rooms' \in [DOMAIN rooms' -> Seq(Participant)]
      /\ \A x : MembersOf(rooms', x) =
           IF x = r THEN MembersOf(rooms, r) \ {IdOf[c]} ELSE MembersOf(rooms, x)
  <2> DEFINE left == Left(rooms, r, IdOf[c])
  <2>1. left \in [DOMAIN left -> Seq(Participant)]
    BY <1>1, <1>2, LeftProperties
  <2>2. ASSUME NEW x
        PROVE  MembersOf(left, x) =
                 IF x = r THEN MembersOf(rooms, r) \ {IdOf[c]} ELSE MembersOf(rooms, x)
    BY <1>1, MembersAfter, ConnAssumption DEF TypeInv
  <2> HIDE DEF left
  <2>3. rooms' = left
    BY <1>1 DEF left
  <2> QED
    BY <2>1, <2>2, <2>3
<1>4. ListOf(rooms', r) \in Seq(Participant)
  BY <1>3, ListTyped
<1>5. \A x \in DOMAIN rooms' \ {r} : x \in DOMAIN rooms /\ rooms'[x] = rooms[x]
  BY <1>1 DEF Left, Restrict
<1> QED
  BY <1>1, <1>3, <1>4, <1>5 DEF Broadcasts

\* Where the sends of a broadcast are, and to whom they go.
LEMMA BroadcastPlaces ==
  ASSUME TypeInv, NEW r \in RoomId, NEW p \in Participant, NEW m,
         m \in {PeerConnected(p), PeerDisconnected(p)}, Broadcasts(r, m)
  PROVE  LET list == ListOf(rooms', r) IN
         /\ outbox \in Seq(Task) /\ list \in Seq(Participant)
         /\ Rounds(outbox', outbox, list, m, RoomParticipants(r, list))
<1> DEFINE list == ListOf(rooms', r)
           n == RoomParticipants(r, list)
<1>1. /\ list \in Seq(Participant) /\ m \in Message /\ n \in Message
      /\ outbox' = outbox \o ToEach(list, m) \o ToEach(list, n)
      /\ outbox \in Seq(Task)
  BY Messages DEF Broadcasts, TypeInv, TypeOK
<1> HIDE DEF list, n
<1>2. Rounds(outbox', outbox, list, m, n)
  BY <1>1, RoundsAt
<1> QED
  BY <1>1, <1>2 DEF list, n

\* Every send of a broadcast goes to a member by the map of peers.
LEMMA BroadcastSends ==
  ASSUME TypeInv, NEW r \in RoomId, NEW p \in Participant, NEW m,
         m \in {PeerConnected(p), PeerDisconnected(p)}, Broadcasts(r, m),
         NEW i \in Len(outbox) + 1 .. Len(outbox')
  PROVE  LET list == ListOf(rooms', r) IN
         \E q \in MembersOf(rooms', r) :
           outbox'[i] \in {SendTo(q, m), SendTo(q, RoomParticipants(r, list))}
<1> DEFINE list == ListOf(rooms', r)
           n == RoomParticipants(r, list)
<1>1. PICK k \in 1 .. Len(list) :
        i = Len(outbox) + k \/ i = Len(outbox) + Len(list) + k
  BY BroadcastPlaces DEF Rounds
<1>2. outbox'[i] \in {SendTo(list[k], m), SendTo(list[k], n)}
  BY <1>1, BroadcastPlaces DEF Rounds
<1>3. list[k] \in MembersOf(rooms', r)
  <2>1. list \in Seq(Participant)
    BY DEF Broadcasts
  <2>2. DOMAIN list = 1 .. Len(list)
    BY <2>1, LenProperties
  <2> QED
    BY <1>1, <2>2 DEF MembersOf, Range
<1> QED
  BY <1>2, <1>3
-----------------------------------------------------------------------------
\* The send t is about room r.
Carries(t, r) ==
  t.msg.kind \in {"RoomCreated", "RoomParticipants", "Relay"} /\ t.msg.room = r

(***************************************************************************)
(* The sends that wait: with fresh ids nobody is sent a Close, so that the *)
(* direct ones are the answers to CreateRoom; each is about a room handed  *)
(* out, and nothing about a room was sent before that answer.              *)
(***************************************************************************)
Lane ==
  /\ \A i \in DOMAIN outbox : outbox[i].via = "sink" <=> outbox[i].msg.kind = "RoomCreated"
  /\ \A i \in DOMAIN outbox : \A r : Carries(outbox[i], r) => r \in used
  /\ \A i, j \in DOMAIN outbox : \A r :
       i < j /\ Carries(outbox[i], r) /\ Carries(outbox[j], r)
         => outbox[j].via # "sink"

\* Sends by the map of peers, about rooms handed out, may always be added.
LEMMA LaneExtended ==
  ASSUME TypeInv, Lane, used \subseteq used', outbox' \in Seq(Task),
         Len(outbox) <= Len(outbox'),
         \A i \in 1 .. Len(outbox) : outbox'[i] = outbox[i],
         \A i \in Len(outbox) + 1 .. Len(outbox') :
           /\ outbox'[i].via = "peers" /\ outbox'[i].msg.kind # "RoomCreated"
           /\ \A r : Carries(outbox'[i], r) => r \in used'
  PROVE  Lane'
<1>1. /\ DOMAIN outbox = 1 .. Len(outbox) /\ Len(outbox) \in Nat
      /\ DOMAIN outbox' = 1 .. Len(outbox') /\ Len(outbox') \in Nat
  BY LenProperties DEF TypeInv, TypeOK
<1>2. \A i \in DOMAIN outbox' :
        \/ i \in DOMAIN outbox /\ outbox'[i] = outbox[i]
        \/ i \in Len(outbox) + 1 .. Len(outbox')
  BY <1>1
<1>3. \A i \in DOMAIN outbox' :
        outbox'[i].via = "sink" <=> outbox'[i].msg.kind = "RoomCreated"
  BY <1>2 DEF Lane
<1>4. ASSUME NEW i \in DOMAIN outbox', NEW r, Carries(outbox'[i], r)
      PROVE  r \in used'
  BY <1>2, <1>4 DEF Lane
<1>5. ASSUME NEW i \in DOMAIN outbox', NEW j \in DOMAIN outbox', NEW r, i < j,
             Carries(outbox'[i], r), Carries(outbox'[j], r), outbox'[j].via = "sink"
      PROVE  FALSE
  <2>1. j \in DOMAIN outbox /\ outbox'[j] = outbox[j]
    BY <1>2, <1>5
  <2>2. i \in DOMAIN outbox /\ outbox'[i] = outbox[i]
    BY <1>1, <1>5, <2>1
  <2> QED
    BY <1>5, <2>1, <2>2 DEF Lane
<1> QED
  BY <1>3, <1>4, <1>5 DEF Lane, Carries

\* One send more, at the end.
LEMMA AppendPlaces ==
  ASSUME TypeInv, NEW t \in Task, outbox' = Append(outbox, t)
  PROVE  /\ outbox \in Seq(Task) /\ outbox' \in Seq(Task)
         /\ Len(outbox) \in Nat /\ Len(outbox') = Len(outbox) + 1
         /\ \A i \in 1 .. Len(outbox) : outbox'[i] = outbox[i]
         /\ outbox'[Len(outbox) + 1] = t
<1>1. outbox \in Seq(Task)
  BY DEF TypeInv, TypeOK
<1> QED
  BY <1>1, AppendProperties, LenProperties

\* One send less, the later ones a place further forward.
LEMMA DeliverPlaces ==
  ASSUME TypeInv, NEW i \in DOMAIN outbox, Deliver(i)
  PROVE  /\ outbox \in Seq(Task) /\ outbox' \in Seq(Task)
         /\ Len(outbox) \in Nat /\ Len(outbox') = Len(outbox) - 1
         /\ DOMAIN outbox' = 1 .. Len(outbox) - 1
         /\ i \in 1 .. Len(outbox)
         /\ \A j \in 1 .. Len(outbox) - 1 :
              outbox'[j] = IF j < i THEN outbox[j] ELSE outbox[j + 1]
<1>1. outbox \in Seq(Task) /\ Len(outbox) \in Nat /\ i \in 1 .. Len(outbox)
  BY LenProperties DEF TypeInv, TypeOK
<1>2. outbox' = SubSeq(outbox, 1, i - 1) \o SubSeq(outbox, i + 1, Len(outbox))
  BY DEF Deliver, Finish
<1>3. /\ outbox' \in Seq(Task)
      /\ Len(outbox') = Len(outbox) - 1
      /\ \A j \in 1 .. Len(outbox) - 1 :
           outbox'[j] = IF j < i THEN outbox[j] ELSE outbox[j + 1]
  BY <1>1, <1>2, RemovedTask
<1> QED
  BY <1>1, <1>3, LenProperties

\* What waits after a delivery waited before it.
LEMMA DeliverShift ==
  ASSUME TypeInv, NEW i \in DOMAIN outbox, Deliver(i)
  PROVE  \A j \in DOMAIN outbox' : \E k \in DOMAIN outbox : outbox'[j] = outbox[k]
<1>1. /\ DOMAIN outbox = 1 .. Len(outbox) /\ Len(outbox) \in Nat
      /\ DOMAIN outbox' = 1 .. Len(outbox) - 1
      /\ \A j \in 1 .. Len(outbox) - 1 :
           outbox'[j] = IF j < i THEN outbox[j] ELSE outbox[j + 1]
  BY DeliverPlaces, LenProperties
<1> TAKE j \in DOMAIN outbox'
<1>2. j \in DOMAIN outbox /\ j + 1 \in DOMAIN outbox
  BY <1>1
<1> QED
  BY <1>1, <1>2

LEMMA LaneStep ==
  ASSUME UniqueIds, TypeInv, TypeInv', Registry, Lane, [Next]_vars
  PROVE  Lane'
<1> USE ConnAssumption
<1>1. /\ outbox \in Seq(Task) /\ DOMAIN rooms \subseteq used
      /\ roomOf \in [Conn -> used \cup {NoRoom}]
      /\ used \subseteq RoomId
  BY DEF TypeInv, TypeOK
<1>2. CASE Quiet
  BY <1>2 DEF Quiet, Lane, Carries
<1>3. ASSUME NEW r \in RoomId, NEW p \in Participant, NEW m,
             m \in {PeerConnected(p), PeerDisconnected(p)}, Broadcasts(r, m),
             r \in DOMAIN rooms, used' = used
      PROVE  Lane'
  <2>1. /\ outbox' \in Seq(Task) /\ Len(outbox) <= Len(outbox')
        /\ \A i \in 1 .. Len(outbox) : outbox'[i] = outbox[i]
    BY <1>3, BroadcastPlaces DEF Rounds
  <2>2. ASSUME NEW i \in Len(outbox) + 1 .. Len(outbox')
        PROVE  /\ outbox'[i].via = "peers" /\ outbox'[i].msg.kind # "RoomCreated"
               /\ \A x : Carries(outbox'[i], x) => x \in used'
    <3> DEFINE list == ListOf(rooms', r)
    <3>1. PICK q : outbox'[i] \in {SendTo(q, m), SendTo(q, RoomParticipants(r, list))}
      BY <1>3, BroadcastSends
    <3>2. CASE outbox'[i] = SendTo(q, m)
      BY <1>3, <3>2 DEF SendTo, PeerConnected, PeerDisconnected, Carries
    <3>3. CASE outbox'[i] = SendTo(q, RoomParticipants(r, list))
      BY <1>1, <1>3, <3>3 DEF SendTo, RoomParticipants, Carries
    <3> QED
      BY <3>1, <3>2, <3>3
  <2> QED
    BY <1>3, <2>1, <2>2, LaneExtended
<1>4. ASSUME NEW c \in Conn, NEW r \in RoomId, Arrives(c, r)
      PROVE  Lane'
  BY <1>3, <1>4, ArrivalBroadcasts DEF Arrives
<1>5. ASSUME NEW c \in Conn, NEW r \in RoomId, Departs(c, r)
      PROVE  Lane'
  BY <1>3, <1>5, DepartureBroadcasts DEF Departs
<1>6. ASSUME NEW c \in Conn, NEW to \in Participant, Relays(c, to)
      PROVE  Lane'
  <2> DEFINE t == SendTo(to, Relay(IdOf[c], roomOf[c]))
  <2>1. /\ outbox' = Append(outbox, t) /\ used' = used
        /\ roomOf[c] \in used
    BY <1>1, <1>6 DEF Relays
  <2>2. t \in Task
    BY <1>1, <2>1, Messages, SendTask DEF Relay, Message
  <2>3. t.via = "peers" /\ t.msg.kind # "RoomCreated" /\ \A x : Carries(t, x) => x \in used'
    BY <2>1 DEF SendTo, Relay, Carries
  <2> HIDE DEF t
  <2>4. /\ outbox' \in Seq(Task) /\ Len(outbox) \in Nat /\ Len(outbox') = Len(outbox) + 1
        /\ \A i \in 1 .. Len(outbox) : outbox'[i] = outbox[i]
        /\ \A i \in Len(outbox) + 1 .. Len(outbox') : outbox'[i] = t
    BY <2>1, <2>2, AppendPlaces
  <2> QED
    BY <2>1, <2>3, <2>4, LaneExtended
<1>7. ASSUME NEW c \in Conn, NEW r \in RoomId, Creates(c, r)
      PROVE  Lane'
  <2> DEFINE t == Direct(c, RoomCreated(r))
  <2>1. /\ outbox' = Append(outbox, t) /\ used' = used \cup {r} /\ r \notin used
    BY <1>7 DEF Creates
  <2>2. t \in Task
    BY Messages, DirectTask DEF RoomCreated, Message
  <2>3. t.via = "sink" /\ t.msg.kind = "RoomCreated" /\ \A x : Carries(t, x) <=> x = r
    BY DEF Direct, RoomCreated, Carries
  <2> HIDE DEF t
  <2>4. /\ Len(outbox) \in Nat
        /\ DOMAIN outbox = 1 .. Len(outbox) /\ DOMAIN outbox' = 1 .. Len(outbox) + 1
        /\ \A i \in DOMAIN outbox : outbox'[i] = outbox[i]
        /\ outbox'[Len(outbox) + 1] = t
    BY <2>1, <2>2, AppendPlaces, LenProperties
  <2>5. \A i \in DOMAIN outbox' : i \in DOMAIN outbox \/ i = Len(outbox) + 1
    BY <2>4
  <2>6. \A i \in DOMAIN outbox' :
          outbox'[i].via = "sink" <=> outbox'[i].msg.kind = "RoomCreated"
    BY <2>3, <2>4, <2>5 DEF Lane
  <2>7. ASSUME NEW i \in DOMAIN outbox', NEW x, Carries(outbox'[i], x)
        PROVE  x \in used'
    BY <2>1, <2>3, <2>4, <2>5, <2>7 DEF Lane
  <2>8. ASSUME NEW i \in DOMAIN outbox', NEW j \in DOMAIN outbox', NEW x, i < j,
               Carries(outbox'[i], x), Carries(outbox'[j], x), outbox'[j].via = "sink"
        PROVE  FALSE
    <3>1. i \in DOMAIN outbox /\ outbox'[i] = outbox[i] /\ x \in used
      BY <2>4, <2>8 DEF Lane
    <3>2. CASE j = Len(outbox) + 1
      BY <2>1, <2>3, <2>4, <2>8, <3>1, <3>2
    <3>3. CASE j \in DOMAIN outbox
      BY <2>4, <2>8, <3>1, <3>3 DEF Lane
    <3> QED
      BY <2>5, <3>2, <3>3
  <2> QED
    BY <2>6, <2>7, <2>8 DEF Lane, Carries
<1>8. ASSUME NEW i \in DOMAIN outbox, Deliver(i)
      PROVE  Lane'
  <2> DEFINE old(j) == IF j < i THEN j ELSE j + 1
  <2>1. \A j \in DOMAIN outbox' : old(j) \in DOMAIN outbox /\ outbox'[j] = outbox[old(j)]
    BY <1>1, <1>8, DeliverPlaces, LenProperties
  <2>2. \A j, k \in DOMAIN outbox' : j < k => old(j) < old(k)
    BY <1>8, DeliverPlaces
  <2>3. used' = used
    BY <1>8 DEF Deliver, server
  <2>4. \A j \in DOMAIN outbox' :
          outbox'[j].via = "sink" <=> outbox'[j].msg.kind = "RoomCreated"
    <3> HIDE DEF old
    <3> QED
      BY <2>1 DEF Lane
  <2>5. ASSUME NEW j \in DOMAIN outbox', NEW x, Carries(outbox'[j], x)
        PROVE  x \in used'
    <3> HIDE DEF old
    <3> QED
      BY <2>1, <2>3, <2>5 DEF Lane
  <2>6. ASSUME NEW j \in DOMAIN outbox', NEW k \in DOMAIN outbox', NEW x, j < k,
               Carries(outbox'[j], x), Carries(outbox'[k], x), outbox'[k].via = "sink"
        PROVE  FALSE
    <3> HIDE DEF old
    <3> QED
      BY <2>1, <2>2, <2>6 DEF Lane
  <2> QED
    BY <2>4, <2>5, <2>6 DEF Lane, Carries
<1> QED
  BY <1>2, <1>4, <1>5, <1>6, <1>7, <1>8, StepKinds
-----------------------------------------------------------------------------
\* Before it is accepted a client with a fresh id is in no room, and nothing
\* is on its way to it.
Absent ==
  \A c \in Conn : phase[c] = "idle" =>
    /\ \A r : IdOf[c] \notin MembersOf(rooms, r)
    /\ \A i \in DOMAIN outbox : outbox[i].via = "peers" => outbox[i].dest # IdOf[c]

LEMMA AbsentStep ==
  ASSUME UniqueIds, TypeInv, TypeInv', Registry, Absent, [Next]_vars
  PROVE  Absent'
<1> USE ConnAssumption
<1>1. /\ outbox \in Seq(Task) /\ outbox' \in Seq(Task) /\ TypeOK
      /\ \A c, d \in Conn : IdOf[c] = IdOf[d] => c = d
      /\ DOMAIN outbox = 1 .. Len(outbox) /\ Len(outbox) \in Nat
      /\ DOMAIN outbox' = 1 .. Len(outbox') /\ Len(outbox') \in Nat
  BY LenProperties DEF TypeInv, TypeOK, UniqueIds
<1>2. CASE Quiet
  BY <1>2 DEF Quiet, Absent
\* Nothing new for those who have not come yet.
<1>3. ASSUME \A d \in Conn : phase'[d] = "idle" => phase[d] = "idle",
             \A d \in Conn : phase[d] = "idle" =>
               /\ \A r : IdOf[d] \notin MembersOf(rooms', r)
               /\ \A i \in DOMAIN outbox' :
                    \/ \E j \in DOMAIN outbox : outbox'[i] = outbox[j]
                    \/ outbox'[i].via = "peers" => outbox'[i].dest # IdOf[d]
      PROVE  Absent'
  BY <1>3 DEF Absent
<1>4. ASSUME NEW c \in Conn, phase[c] # "idle",
             NEW r \in RoomId, NEW m,
             m \in {PeerConnected(IdOf[c]), PeerDisconnected(IdOf[c])}, Broadcasts(r, m),
             \A x : MembersOf(rooms', x) \subseteq MembersOf(rooms, x) \cup {IdOf[c]},
             \A d \in Conn : phase'[d] = "idle" => phase[d] = "idle"
      PROVE  Absent'
  <2>1. ASSUME NEW d \in Conn, phase[d] = "idle", NEW x
        PROVE  IdOf[d] \notin MembersOf(rooms', x)
    BY <1>1, <1>4, <2>1 DEF Absent
  <2>2. ASSUME NEW d \in Conn, phase[d] = "idle", NEW i \in DOMAIN outbox'
        PROVE  \/ \E j \in DOMAIN outbox : outbox'[i] = outbox[j]
               \/ outbox'[i].dest # IdOf[d]
    <3>1. CASE i \in 1 .. Len(outbox)
      <4> DEFINE list == ListOf(rooms', r)
      <4>1. Rounds(outbox', outbox, list, m, RoomParticipants(r, list))
        BY <1>4, BroadcastPlaces
      <4> HIDE DEF list
      <4>2. outbox'[i] = outbox[i] /\ i \in DOMAIN outbox
        BY <1>1, <3>1, <4>1 DEF Rounds
      <4> QED
        BY <4>2
    <3>2. CASE i \in Len(outbox) + 1 .. Len(outbox')
      <4>1. PICK q \in MembersOf(rooms', r) :
              outbox'[i] \in {SendTo(q, m), SendTo(q, RoomParticipants(r, ListOf(rooms', r)))}
        BY <1>4, <3>2, BroadcastSends
      <4>2. outbox'[i].dest = q
        BY <4>1 DEF SendTo
      <4> QED
        BY <2>1, <2>2, <4>2
    <3> QED
      BY <1>1, <3>1, <3>2
  <2> QED
    BY <1>3, <1>4, <2>1, <2>2
<1>5. ASSUME NEW c \in Conn, NEW r \in RoomId, Arrives(c, r)
      PROVE  Absent'
  <2>1. \A x : MembersOf(rooms', x) \subseteq MembersOf(rooms, x) \cup {IdOf[c]}
    BY <1>5, ArrivalBroadcasts
  <2> QED
    BY <1>4, <1>5, <2>1, ArrivalBroadcasts DEF Arrives, NobodyNew
<1>6. ASSUME NEW c \in Conn, NEW r \in RoomId, Departs(c, r)
      PROVE  Absent'
  <2>1. \A x : MembersOf(rooms', x) \subseteq MembersOf(rooms, x) \cup {IdOf[c]}
    BY <1>6, DepartureBroadcasts
  <2> QED
    BY <1>4, <1>6, <2>1, DepartureBroadcasts DEF Departs, NobodyNew
<1>7. ASSUME NEW c \in Conn, NEW t \in Task, outbox' = Append(outbox, t),
             \A d \in Conn : phase[d] = "idle" /\ t.via = "peers" => t.dest # IdOf[d],
             phase[c] # "idle", NobodyNew,
             \A x : MembersOf(rooms', x) \subseteq MembersOf(rooms, x) \cup {IdOf[c]}
      PROVE  Absent'
  <2>1. \A i \in DOMAIN outbox' :
          \/ i \in DOMAIN outbox /\ outbox'[i] = outbox[i]
          \/ outbox'[i] = t
    BY <1>1, <1>7, AppendPlaces
  <2>2. ASSUME NEW d \in Conn, phase[d] = "idle", NEW x
        PROVE  IdOf[d] \notin MembersOf(rooms', x)
    BY <1>1, <1>7, <2>2 DEF Absent
  <2> QED
    BY <1>3, <1>7, <2>1, <2>2 DEF NobodyNew
<1>8. ASSUME NEW c \in Conn, NEW to \in Participant, Relays(c, to)
      PROVE  Absent'
  <2> DEFINE t == SendTo(to, Relay(IdOf[c], roomOf[c]))
  <2>1. t \in Task /\ t.dest = to
    <3>1. Relay(IdOf[c], roomOf[c]) \in Message
      BY <1>8 DEF Relays, Relay, Message
    <3> QED
      BY <3>1, SendTask DEF SendTo
  <2>2. outbox' = Append(outbox, t) /\ to \in MembersOf(rooms, roomOf[c]) /\ rooms' = rooms
    BY <1>8 DEF Relays, MayRelay
  <2> HIDE DEF t
  <2>3. \A d \in Conn : phase[d] = "idle" => t.dest # IdOf[d]
    BY <2>1, <2>2 DEF Absent
  <2> QED
    BY <1>7, <1>8, <2>1, <2>2, <2>3 DEF Relays
<1>9. ASSUME NEW c \in Conn, NEW r \in RoomId, Creates(c, r)
      PROVE  Absent'
  <2>1. /\ Direct(c, RoomCreated(r)) \in Task
        /\ Direct(c, RoomCreated(r)).via # "peers"
    BY Messages, DirectTask DEF Direct, RoomCreated, Message
  <2>2. \A x : MembersOf(rooms', x) \subseteq MembersOf(rooms, x) \cup {IdOf[c]}
    BY <1>1, <1>9, MembersAfter DEF Creates
  <2> QED
    BY <1>7, <1>9, <2>1, <2>2 DEF Creates
<1>10. ASSUME NEW i \in DOMAIN outbox, Deliver(i)
       PROVE  Absent'
  <2>1. \A j \in DOMAIN outbox' : \E k \in DOMAIN outbox : outbox'[j] = outbox[k]
    BY <1>10, DeliverShift
  <2>2. rooms' = rooms /\ phase' = phase
    BY <1>10 DEF Deliver, server
  <2> QED
    BY <1>3, <2>1, <2>2 DEF Absent
<1> QED
  BY <1>2, <1>5, <1>6, <1>8, <1>9, <1>10, StepKinds
-----------------------------------------------------------------------------
(***************************************************************************)
(* NewsIsCurrent, with what it takes to be kept: a member will have heard  *)
(* the list of its room when the sends that wait now are made.             *)
(***************************************************************************)
MembersTold ==
  \A c \in Conn, r \in RoomId :
    Receives(c) /\ r \in DOMAIN rooms /\ IdOf[c] \in MembersOf(rooms, r)
      => Tells(outbox, roster[c][r], c, r, Len(outbox) + 1, {rooms[r]})

\* The lists that name p.
Naming(p) == {list \in Seq(Participant) : p \in Range(list)}

\* The same of relays: their reader will have heard of the sender by then.
SendersTold ==
  \A c \in Conn : \A i \in DOMAIN outbox :
    /\ Receives(c)
    /\ outbox[i].msg.kind = "Relay" /\ outbox[i].dest = IdOf[c]
    => Tells(outbox, roster[c][outbox[i].msg.room], c, outbox[i].msg.room, i,
             Naming(outbox[i].msg.from))

\* What a delivery is for a client that goes on receiving.
LEMMA DeliveryToClient ==
  ASSUME UniqueIds, TypeInv, Registry, Lane, NEW i \in DOMAIN outbox, Deliver(i),
         NEW c \in Conn, Receives(c)', NEW r \in RoomId
  PROVE  /\ Receives(c)
         /\ roster'[c][r] = IF TaskInforms(outbox[i], c, r) THEN NewsOf(outbox[i], c)
                                                            ELSE roster[c][r]
<1> USE ConnAssumption
<1> DEFINE t == outbox[i]
<1>1. /\ UNCHANGED server
      /\ \/ \E d \in Reached(t) : Receives(d) /\ Receive(d, t.msg)
         \/ (\A d \in Reached(t) : ~Receives(d)) /\ UNCHANGED client
  BY DEF Deliver
<1>2. /\ t \in Task /\ t.msg \in Message
      /\ t.via = "sink" <=> t.msg.kind = "RoomCreated"
      /\ roster \in [Conn -> [RoomId -> Seq(Participant)]]
      /\ peers \in [DOMAIN peers -> Conn]
  BY TaskFields DEF TypeInv, TypeOK, Lane
<1>3. phase'[c] = "open" /\ phase[c] = "open" /\ c \notin shut /\ Receives(c)
  BY <1>1 DEF Receives, Receive, server, client
<1>4. Reached(t) \subseteq Conn
  BY <1>2, ReachedConn
<1>5. IdOf[c] \in DOMAIN peers /\ peers[IdOf[c]] = c
  BY <1>2, <1>3 DEF Registry, UniqueIds
<1>6. CASE c \in Reached(t)
  <2>1. Reached(t) = {c} /\ (t.via = "peers" => t.dest = IdOf[c]) /\ (t.via = "sink" => t.dest = c)
    <3>1. CASE t.via = "sink"
      BY <1>6, <3>1 DEF Reached
    <3>2. CASE t.via # "sink"
      BY <1>2, <1>5, <1>6, <3>2 DEF Reached, Registry
    <3> QED
      BY <3>1, <3>2
  <2>2. Receive(c, t.msg)
    BY <1>1, <1>3, <2>1
  <2>3. CASE t.msg.kind = "RoomCreated"
    <3>1. /\ t.via = "sink" /\ t.dest = c
          /\ roster' = [roster EXCEPT ![c][t.msg.room] = <<IdOf[c]>>]
      BY <1>2, <2>1, <2>2, <2>3 DEF Receive
    <3>2. t = Direct(c, RoomCreated(t.msg.room)) /\ t.msg.room \in RoomId
      <4>1. t.msg = RoomCreated(t.msg.room) /\ t.msg.room \in RoomId
        BY <1>2, <2>3 DEF Message, RoomCreated
      <4>2. t = Direct(c, t.msg)
        BY <1>2, <3>1 DEF Task, Direct
      <4> QED
        BY <4>1, <4>2
    <3>3. TaskInforms(t, c, r) <=> t.msg.room = r
      <4>1. TaskInforms(t, c, r) <=> t = Direct(c, RoomCreated(r))
        BY <3>1 DEF TaskInforms
      <4>2. t = Direct(c, RoomCreated(r)) => t.msg.room = r
        BY DEF Direct, RoomCreated
      <4> QED
        BY <3>2, <4>1, <4>2
    <3> QED
      BY <1>2, <1>3, <3>1, <3>2, <3>3 DEF NewsOf
  <2>4. CASE t.msg.kind = "RoomParticipants"
    <3>1. /\ t.via = "peers" /\ t.dest = IdOf[c] /\ t.msg.room \in RoomId
          /\ roster' = [roster EXCEPT ![c][t.msg.room] = t.msg.list]
      BY <1>2, <2>1, <2>2, <2>4, MessageFields DEF Receive, Task
    <3>2. TaskInforms(t, c, r) <=> t.msg.room = r
      BY <2>4, <3>1 DEF TaskInforms, Direct
    <3> QED
      BY <1>2, <1>3, <3>1, <3>2 DEF NewsOf
  <2>5. CASE t.msg.kind \notin {"RoomCreated", "RoomParticipants"}
    <3>1. ~TaskInforms(t, c, r)
      BY <2>5 DEF TaskInforms, Direct, RoomCreated
    <3>2. roster' = roster
      BY <2>2, <2>5 DEF Receive, client
    <3> QED
      BY <1>3, <3>1, <3>2
  <2> QED
    BY <2>3, <2>4, <2>5
<1>7. CASE c \notin Reached(t)
  <2>1. ~TaskInforms(t, c, r)
    BY <1>5, <1>7 DEF TaskInforms, Reached, Direct
  <2>2. roster'[c] = roster[c]
    BY <1>1, <1>2, <1>4, <1>7 DEF Receive, client
  <2> QED
    BY <1>3, <2>1, <2>2
<1> QED
  BY <1>6, <1>7

LEMMA TellsWeaker ==
  ASSUME NEW box, NEW own, NEW c, NEW r, NEW n, NEW L, NEW M, L \subseteq M,
         Tells(box, own, c, r, n, L)
  PROVE  Tells(box, own, c, r, n, M)
BY DEF Tells

\* A send about r that can be made is the first one to tell c of r.
LEMMA FirstToTell ==
  ASSUME UniqueIds, TypeInv, Registry, Lane, NEW i \in DOMAIN outbox, Runnable(i),
         NEW c \in Conn, Receives(c), NEW r \in RoomId, TaskInforms(outbox[i], c, r),
         NEW j \in 1 .. i - 1
  PROVE  ~TaskInforms(outbox[j], c, r)
<1> USE ConnAssumption
<1>1. j \in DOMAIN outbox /\ j < i
  BY LenProperties DEF TypeInv, TypeOK
<1>2. SUFFICES ASSUME TaskInforms(outbox[j], c, r) PROVE FALSE
  OBVIOUS
<1>3. Carries(outbox[i], r) /\ Carries(outbox[j], r)
  BY <1>2 DEF TaskInforms, Carries, Direct, RoomCreated
<1>4. outbox[i].via # "sink"
  BY <1>1, <1>3 DEF Lane
<1>5. outbox[i].via = "peers" /\ outbox[i].dest = IdOf[c]
  BY <1>4 DEF TaskInforms, Direct
<1>6. c \in Reached(outbox[i])
  <2>1. IdOf[c] \in DOMAIN peers /\ peers[IdOf[c]] = c
    BY DEF Registry, UniqueIds, Receives, TypeInv, TypeOK
  <2> QED
    BY <1>5, <2>1 DEF Reached
<1>7. outbox[j].via = "sink" /\ outbox[j].dest = c
  BY <1>2, <1>5 DEF Runnable, TaskInforms, Direct
<1> QED
  BY <1>6, <1>7 DEF Runnable

LEMMA BroadcastTold ==
  ASSUME TypeInv, MembersTold, SendersTold,
         NEW r0 \in RoomId, NEW p \in Participant, NEW m,
         m \in {PeerConnected(p), PeerDisconnected(p)}, Broadcasts(r0, m),
         \A x : x # r0 => MembersOf(rooms', x) = MembersOf(rooms, x),
         \A x \in DOMAIN rooms' \ {r0} : x \in DOMAIN rooms /\ rooms'[x] = rooms[x],
         NobodyNew, UNCHANGED client
  PROVE  MembersTold' /\ SendersTold'
<1> DEFINE list == ListOf(rooms', r0)
           news == RoomParticipants(r0, list)
           len == Len(outbox)
           size == Len(list)
<1>1. /\ len \in Nat /\ size \in Nat /\ list \in Seq(Participant)
      /\ DOMAIN list = 1 .. size
      /\ Len(outbox') = len + size + size /\ DOMAIN outbox' = 1 .. Len(outbox')
      /\ DOMAIN outbox = 1 .. len
      /\ \A i \in 1 .. len : outbox'[i] = outbox[i]
      /\ \A k \in 1 .. size : outbox'[len + k] = SendTo(list[k], m)
      /\ \A k \in 1 .. size : outbox'[len + size + k] = SendTo(list[k], news)
      /\ \A i \in len + 1 .. Len(outbox') : \E k \in 1 .. size :
           i = len + k \/ i = len + size + k
  <2>1. outbox \in Seq(Task) /\ list \in Seq(Participant) /\ Rounds(outbox', outbox, list, m, news)
    BY BroadcastPlaces
  <2> HIDE DEF list, news
  <2>2. DOMAIN list = 1 .. size /\ DOMAIN outbox = 1 .. len
    BY <2>1, LenProperties
  <2>3. outbox' \in Seq(Task)
    BY <2>1 DEF Rounds
  <2>4. DOMAIN outbox' = 1 .. Len(outbox')
    BY <2>3, LenProperties
  <2> QED
    BY <2>1, <2>2, <2>4 DEF Rounds
<1>2. roster' = roster /\ \A c \in Conn : Receives(c)' => Receives(c)
  BY DEF NobodyNew, client
<1> HIDE DEF list, len, size
<1>3. \A q : \A c, r : ~TaskInforms(SendTo(q, m), c, r)
  BY DEF TaskInforms, SendTo, Direct, PeerConnected, PeerDisconnected
<1>4. \A q : \A c, r : TaskInforms(SendTo(q, news), c, r) <=> (q = IdOf[c] /\ r = r0)
  BY DEF TaskInforms, SendTo, Direct, RoomParticipants, news
<1>5. \A q : \A c : NewsOf(SendTo(q, news), c) = list
  BY DEF NewsOf, SendTo, RoomParticipants, news
<1>6. \A q : SendTo(q, m).msg.kind # "Relay" /\ SendTo(q, news).msg.kind # "Relay"
  BY DEF SendTo, PeerConnected, PeerDisconnected, RoomParticipants, news
<1> HIDE DEF news
<1>7. ASSUME NEW c \in Conn, NEW r \in RoomId, Receives(c)',
             r \in DOMAIN rooms', IdOf[c] \in MembersOf(rooms', r)
      PROVE  Tells(outbox', roster'[c][r], c, r, Len(outbox') + 1, {rooms'[r]})
  <2>1. CASE r = r0
    <3>1. PICK k \in 1 .. size : list[k] = IdOf[c]
      BY <1>1, <1>7, <2>1 DEF MembersOf, Range, list
    <3>2. /\ len + size + k \in 1 .. Len(outbox')
          /\ TaskInforms(outbox'[len + size + k], c, r)
      <4>1. outbox'[len + size + k] = SendTo(list[k], news)
        BY <1>1
      <4>2. TaskInforms(SendTo(list[k], news), c, r)
        BY <1>4, <2>1, <3>1
      <4>3. len + size + k \in 1 .. Len(outbox')
        BY <1>1
      <4> QED
        BY <4>1, <4>2, <4>3
    <3>3. ASSUME NEW i \in 1 .. Len(outbox'), TaskInforms(outbox'[i], c, r),
                 \A j \in i + 1 .. Len(outbox') : ~TaskInforms(outbox'[j], c, r)
          PROVE  NewsOf(outbox'[i], c) = rooms'[r]
      <4>1. ~(len + size + k \in i + 1 .. Len(outbox'))
        BY <3>2, <3>3
      <4>2. i >= len + size + k
        BY <1>1, <3>2, <4>1
      <4>3. i \in len + 1 .. Len(outbox')
        BY <1>1, <4>2
      <4>4. PICK l \in 1 .. size : i = len + l \/ i = len + size + l
        BY <1>1, <4>3
      <4>5. outbox'[i] = SendTo(list[l], news)
        BY <1>1, <1>3, <3>3, <4>4
      <4>6. NewsOf(outbox'[i], c) = list
        BY <1>5, <4>5
      <4> QED
        BY <1>7, <2>1, <4>6 DEF list, ListOf
    <3>4. (Len(outbox') + 1) - 1 = Len(outbox')
      BY <1>1
    <3> QED
      BY <3>2, <3>3, <3>4 DEF Tells
  <2>2. CASE r # r0
    <3>1. /\ r \in DOMAIN rooms /\ rooms'[r] = rooms[r]
          /\ IdOf[c] \in MembersOf(rooms, r)
      BY <1>7, <2>2
    <3>2. Tells(outbox, roster[c][r], c, r, len + 1, {rooms[r]})
      BY <1>2, <1>7, <3>1 DEF MembersTold, len
    <3>3. Tells(outbox', roster[c][r], c, r, len + 1, {rooms[r]})
      <4>1. len + 1 \in Nat /\ (len + 1) - 1 = len
        BY <1>1
      <4>2. \A i \in 1 .. (len + 1) - 1 : outbox'[i] = outbox[i]
        BY <1>1, <4>1
      <4> QED
        BY <3>2, <4>1, <4>2, TellsSame
    <3>4. \A i \in len + 1 .. Len(outbox') : ~TaskInforms(outbox'[i], c, r)
      <4> TAKE i \in len + 1 .. Len(outbox')
      <4>1. PICK l \in 1 .. size : i = len + l \/ i = len + size + l
        BY <1>1
      <4>2. outbox'[i] = SendTo(list[l], m) \/ outbox'[i] = SendTo(list[l], news)
        BY <1>1, <4>1
      <4> QED
        BY <1>3, <1>4, <2>2, <4>2
    <3>5. Tells(outbox', roster[c][r], c, r, Len(outbox') + 1, {rooms[r]})
      <4>1. /\ len + 1 \in Nat /\ Len(outbox') + 1 \in Nat
            /\ len + 1 <= Len(outbox') + 1 /\ (Len(outbox') + 1) - 1 = Len(outbox')
        BY <1>1
      <4> QED
        BY <3>3, <3>4, <4>1, TellsSkips
    <3> QED
      BY <1>2, <3>1, <3>5
  <2> QED
    BY <2>1, <2>2
<1>8. ASSUME NEW c \in Conn, NEW i \in DOMAIN outbox', Receives(c)',
             outbox'[i].msg.kind = "Relay", outbox'[i].dest = IdOf[c]
      PROVE  Tells(outbox', roster'[c][outbox'[i].msg.room], c, outbox'[i].msg.room, i,
                   Naming(outbox'[i].msg.from))
  <2>1. i \in 1 .. len
    <3>1. SUFFICES ASSUME i \in len + 1 .. Len(outbox') PROVE FALSE
      BY <1>1
    <3>2. PICK l \in 1 .. size : i = len + l \/ i = len + size + l
      BY <1>1, <3>1
    <3> QED
      BY <1>1, <1>6, <1>8, <3>2
  <2>2. outbox'[i] = outbox[i] /\ i \in DOMAIN outbox /\ i \in Nat
    BY <1>1, <2>1
  <2>3. \A j \in 1 .. i - 1 : outbox'[j] = outbox[j]
    BY <1>1, <2>1
  <2>4. Tells(outbox, roster[c][outbox[i].msg.room], c, outbox[i].msg.room, i,
              Naming(outbox[i].msg.from))
    BY <1>2, <1>8, <2>2 DEF SendersTold
  <2>5. Tells(outbox', roster[c][outbox[i].msg.room], c, outbox[i].msg.room, i,
              Naming(outbox[i].msg.from))
    BY <2>2, <2>3, <2>4, TellsSame
  <2> QED
    BY <1>2, <2>2, <2>5
<1>9. MembersTold'
  BY <1>7 DEF MembersTold
<1>10. SendersTold'
  BY <1>8 DEF SendersTold
<1> QED
  BY <1>9, <1>10

LEMMA CreationTold ==
  ASSUME UniqueIds, TypeInv, MembersTold, SendersTold,
         NEW c0 \in Conn, NEW r0 \in RoomId, Creates(c0, r0)
  PROVE  MembersTold' /\ SendersTold'
<1> USE ConnAssumption
<1> DEFINE t == Direct(c0, RoomCreated(r0))
           len == Len(outbox)
<1>1. t \in Task
  BY Messages, DirectTask DEF RoomCreated, Message
<1>2. outbox' = Append(outbox, t)
  BY DEF Creates
<1>3. /\ len \in Nat /\ DOMAIN outbox = 1 .. len /\ DOMAIN outbox' = 1 .. len + 1
      /\ Len(outbox') = len + 1
      /\ \A i \in 1 .. len : outbox'[i] = outbox[i]
      /\ outbox'[len + 1] = t
  <2> HIDE DEF t
  <2> QED
    BY <1>1, <1>2, AppendPlaces, LenProperties
<1>4. roster' = roster /\ \A c \in Conn : Receives(c)' => Receives(c)
  BY DEF Creates, NobodyNew, client
<1>5. /\ DOMAIN rooms' = DOMAIN rooms \cup {r0}
      /\ \A x \in DOMAIN rooms' : rooms'[x] = IF x = r0 THEN <<IdOf[c0]>> ELSE rooms[x]
      /\ \A x : MembersOf(rooms', x) = IF x = r0 THEN {IdOf[c0]} ELSE MembersOf(rooms, x)
  <2>1. rooms' = Created(rooms, r0, IdOf[c0]) /\ r0 \in RoomId \ used
    BY DEF Creates
  <2>2. /\ DOMAIN rooms' = DOMAIN rooms \cup {r0}
        /\ \A x \in DOMAIN rooms' : rooms'[x] = IF x = r0 THEN <<IdOf[c0]>> ELSE rooms[x]
    BY <2>1 DEF Created
  <2>3. ASSUME NEW x
        PROVE  MembersOf(rooms', x) = IF x = r0 THEN {IdOf[c0]} ELSE MembersOf(rooms, x)
    BY <2>1, MembersAfter DEF TypeInv
  <2> QED
    BY <2>2, <2>3
<1>6. /\ \A c, r : TaskInforms(t, c, r) <=> (c = c0 /\ r = r0)
      /\ \A c : NewsOf(t, c) = <<IdOf[c]>>
      /\ t.msg.kind # "Relay"
  BY DEF TaskInforms, NewsOf, Direct, RoomCreated
<1> HIDE DEF t, len
<1>7. ASSUME NEW c \in Conn, NEW r \in RoomId, Receives(c)',
             r \in DOMAIN rooms', IdOf[c] \in MembersOf(rooms', r)
      PROVE  Tells(outbox', roster'[c][r], c, r, Len(outbox') + 1, {rooms'[r]})
  <2>1. (Len(outbox') + 1) - 1 = len + 1 /\ len + 1 \in 1 .. len + 1
    BY <1>3
  <2>2. CASE r = r0
    <3>1. c = c0
      BY <1>5, <1>7, <2>2 DEF UniqueIds
    <3>2. TaskInforms(outbox'[len + 1], c, r) /\ NewsOf(outbox'[len + 1], c) = rooms'[r]
      BY <1>3, <1>5, <1>6, <1>7, <2>2, <3>1
    <3>3. \A i \in 1 .. len + 1 : i = len + 1 \/ len + 1 \in i + 1 .. len + 1
      BY <1>3
    <3> QED
      BY <2>1, <3>2, <3>3 DEF Tells
  <2>3. CASE r # r0
    <3>1. r \in DOMAIN rooms /\ rooms'[r] = rooms[r] /\ IdOf[c] \in MembersOf(rooms, r)
      BY <1>5, <1>7, <2>3
    <3>2. Tells(outbox, roster[c][r], c, r, len + 1, {rooms[r]})
      BY <1>4, <1>7, <3>1 DEF MembersTold, len
    <3>3. Tells(outbox', roster[c][r], c, r, len + 1, {rooms[r]})
      <4>1. len + 1 \in Nat /\ \A i \in 1 .. (len + 1) - 1 : outbox'[i] = outbox[i]
        BY <1>3
      <4> QED
        BY <3>2, <4>1, TellsSame
    <3>4. Tells(outbox', roster[c][r], c, r, Len(outbox') + 1, {rooms[r]})
      <4>1. /\ len + 1 \in Nat /\ Len(outbox') + 1 \in Nat
            /\ len + 1 <= Len(outbox') + 1
            /\ \A i \in len + 1 .. (Len(outbox') + 1) - 1 : i = len + 1
        BY <1>3
      <4>2. \A i \in len + 1 .. (Len(outbox') + 1) - 1 : ~TaskInforms(outbox'[i], c, r)
        BY <1>3, <1>6, <2>3, <4>1
      <4> QED
        BY <3>3, <4>1, <4>2, TellsSkips
    <3> QED
      BY <1>4, <3>1, <3>4
  <2> QED
    BY <2>2, <2>3
<1>8. ASSUME NEW c \in Conn, NEW i \in DOMAIN outbox', Receives(c)',
             outbox'[i].msg.kind = "Relay", outbox'[i].dest = IdOf[c]
      PROVE  Tells(outbox', roster'[c][outbox'[i].msg.room], c, outbox'[i].msg.room, i,
                   Naming(outbox'[i].msg.from))
  <2>1. i \in 1 .. len
    BY <1>3, <1>6, <1>8
  <2>2. /\ outbox'[i] = outbox[i] /\ i \in DOMAIN outbox /\ i \in Nat
        /\ \A j \in 1 .. i - 1 : outbox'[j] = outbox[j]
    BY <1>3, <2>1
  <2>3. Tells(outbox, roster[c][outbox[i].msg.room], c, outbox[i].msg.room, i,
              Naming(outbox[i].msg.from))
    BY <1>4, <1>8, <2>2 DEF SendersTold
  <2> QED
    BY <1>4, <2>2, <2>3, TellsSame
<1>9. MembersTold'
  BY <1>7 DEF MembersTold
<1>10. SendersTold'
  BY <1>8 DEF SendersTold
<1> QED
  BY <1>9, <1>10

LEMMA RelayTold ==
  ASSUME UniqueIds, TypeInv, MembersTold, SendersTold,
         NEW c0 \in Conn, NEW to \in Participant, Relays(c0, to)
  PROVE  MembersTold' /\ SendersTold'
<1> USE ConnAssumption
<1> DEFINE r0 == roomOf[c0]
           t == SendTo(to, Relay(IdOf[c0], r0))
           len == Len(outbox)
<1>1. t \in Task
  <2>1. Relay(IdOf[c0], r0) \in Message
    BY DEF Relays, Relay, Message
  <2> QED
    BY <2>1, SendTask
<1>2. /\ outbox' = Append(outbox, t) /\ UNCHANGED <<rooms, client>>
      /\ r0 \in RoomId
      /\ IdOf[c0] \in MembersOf(rooms, r0) /\ to \in MembersOf(rooms, r0)
  BY DEF Relays, MayRelay
<1>3. /\ len \in Nat /\ DOMAIN outbox = 1 .. len /\ DOMAIN outbox' = 1 .. len + 1
      /\ Len(outbox') = len + 1
      /\ \A i \in 1 .. len : outbox'[i] = outbox[i]
      /\ outbox'[len + 1] = t
  <2> HIDE DEF t
  <2> QED
    BY <1>1, <1>2, AppendPlaces, LenProperties
<1>4. roster' = roster /\ \A c \in Conn : Receives(c)' => Receives(c)
  BY DEF Relays, NobodyNew, client
<1>5. /\ \A c, r : ~TaskInforms(t, c, r)
      /\ t.dest = to /\ t.msg.room = r0 /\ t.msg.from = IdOf[c0]
  BY DEF TaskInforms, SendTo, Direct, Relay
<1>6. r0 \in DOMAIN rooms /\ rooms[r0] \in Naming(IdOf[c0])
  <2>1. r0 \in DOMAIN rooms /\ IdOf[c0] \in Range(rooms[r0])
    BY <1>2 DEF MembersOf, ListOf, Range
  <2>2. rooms[r0] \in Seq(Participant)
    BY <2>1 DEF TypeInv, TypeOK
  <2> QED
    BY <2>1, <2>2 DEF Naming
<1> HIDE DEF t, len, r0
<1>7. ASSUME NEW c \in Conn, NEW r \in RoomId, Receives(c)',
             r \in DOMAIN rooms', IdOf[c] \in MembersOf(rooms', r)
      PROVE  Tells(outbox', roster'[c][r], c, r, Len(outbox') + 1, {rooms'[r]})
  <2>1. Tells(outbox, roster[c][r], c, r, len + 1, {rooms[r]})
    BY <1>2, <1>4, <1>7 DEF MembersTold, len
  <2>2. Tells(outbox', roster[c][r], c, r, len + 1, {rooms[r]})
    <3>1. len + 1 \in Nat /\ \A i \in 1 .. (len + 1) - 1 : outbox'[i] = outbox[i]
      BY <1>3
    <3> QED
      BY <2>1, <3>1, TellsSame
  <2>3. Tells(outbox', roster[c][r], c, r, Len(outbox') + 1, {rooms[r]})
    <3>1. /\ len + 1 \in Nat /\ Len(outbox') + 1 \in Nat
          /\ len + 1 <= Len(outbox') + 1
          /\ \A i \in len + 1 .. (Len(outbox') + 1) - 1 : i = len + 1
      BY <1>3
    <3>2. \A i \in len + 1 .. (Len(outbox') + 1) - 1 : ~TaskInforms(outbox'[i], c, r)
      BY <1>3, <1>5, <3>1
    <3> QED
      BY <2>2, <3>1, <3>2, TellsSkips
  <2> QED
    BY <1>2, <1>4, <2>3
<1>8. ASSUME NEW c \in Conn, NEW i \in DOMAIN outbox', Receives(c)',
             outbox'[i].msg.kind = "Relay", outbox'[i].dest = IdOf[c]
      PROVE  Tells(outbox', roster'[c][outbox'[i].msg.room], c, outbox'[i].msg.room, i,
                   Naming(outbox'[i].msg.from))
  <2>1. \A j \in 1 .. i - 1 : outbox'[j] = outbox[j]
    BY <1>3
  <2>2. i \in Nat
    BY <1>3
  <2>3. CASE i \in 1 .. len
    <3>1. outbox'[i] = outbox[i] /\ i \in DOMAIN outbox
      BY <1>3, <2>3
    <3>2. Tells(outbox, roster[c][outbox[i].msg.room], c, outbox[i].msg.room, i,
                Naming(outbox[i].msg.from))
      BY <1>4, <1>8, <3>1 DEF SendersTold
    <3> QED
      BY <1>4, <2>1, <2>2, <3>1, <3>2, TellsSame
  <2>4. CASE i = len + 1
    <3>1. outbox'[i] = t /\ IdOf[c] = to
      BY <1>3, <1>5, <1>8, <2>4
    <3>2. Tells(outbox, roster[c][r0], c, r0, len + 1, {rooms[r0]})
      BY <1>2, <1>4, <1>6, <1>8, <3>1 DEF MembersTold, len
    <3>3. Tells(outbox, roster[c][r0], c, r0, len + 1, Naming(IdOf[c0]))
      BY <1>6, <3>2, TellsWeaker
    <3>4. Tells(outbox', roster[c][r0], c, r0, i, Naming(IdOf[c0]))
      BY <2>1, <2>2, <2>4, <3>3, TellsSame
    <3> QED
      BY <1>4, <1>5, <3>1, <3>4
  <2> QED
    BY <1>3, <2>3, <2>4
<1>9. MembersTold'
  BY <1>7 DEF MembersTold
<1>10. SendersTold'
  BY <1>8 DEF SendersTold
<1> QED
  BY <1>9, <1>10

LEMMA DeliveryTold ==
  ASSUME UniqueIds, TypeInv, Registry, Lane, MembersTold, SendersTold,
         NEW i0 \in DOMAIN outbox, Deliver(i0)
  PROVE  MembersTold' /\ SendersTold'
<1> USE ConnAssumption
<1> DEFINE len == Len(outbox)
<1>1. /\ outbox \in Seq(Task) /\ outbox' \in Seq(Task)
      /\ len \in Nat /\ Len(outbox') = len - 1
      /\ DOMAIN outbox = 1 .. len /\ DOMAIN outbox' = 1 .. len - 1
      /\ i0 \in 1 .. len
      /\ \A j \in 1 .. len - 1 : outbox'[j] = IF j < i0 THEN outbox[j] ELSE outbox[j + 1]
  BY DeliverPlaces, LenProperties
<1>2. rooms' = rooms /\ Runnable(i0)
  BY DEF Deliver, server
<1>3. ASSUME NEW c \in Conn, Receives(c)', NEW r \in RoomId
      PROVE  /\ Receives(c)
             /\ roster'[c][r] = IF TaskInforms(outbox[i0], c, r)
                                THEN NewsOf(outbox[i0], c) ELSE roster[c][r]
             /\ TaskInforms(outbox[i0], c, r) =>
                  \A j \in 1 .. i0 - 1 : ~TaskInforms(outbox[j], c, r)
  BY <1>2, <1>3, DeliveryToClient, FirstToTell
<1> HIDE DEF len
\* What is told by the sends in front of a place behind i0 stays told.
<1>4. ASSUME NEW c \in Conn, Receives(c)', NEW r \in RoomId, NEW L,
             NEW n \in i0 + 1 .. len + 1,
             Tells(outbox, roster[c][r], c, r, n, L)
      PROVE  Tells(outbox', roster'[c][r], c, r, n - 1, L)
  BY <1>1, <1>3, <1>4, TellsRemoved DEF len
<1>5. ASSUME NEW c \in Conn, NEW r \in RoomId, Receives(c)',
             r \in DOMAIN rooms', IdOf[c] \in MembersOf(rooms', r)
      PROVE  Tells(outbox', roster'[c][r], c, r, Len(outbox') + 1, {rooms'[r]})
  <2>1. Tells(outbox, roster[c][r], c, r, len + 1, {rooms[r]})
    BY <1>2, <1>3, <1>5 DEF MembersTold, len
  <2>2. len + 1 \in i0 + 1 .. len + 1 /\ (len + 1) - 1 = Len(outbox') + 1
    BY <1>1
  <2> QED
    BY <1>2, <1>4, <1>5, <2>1, <2>2
<1>6. ASSUME NEW c \in Conn, NEW i \in DOMAIN outbox', Receives(c)',
             outbox'[i].msg.kind = "Relay", outbox'[i].dest = IdOf[c]
      PROVE  Tells(outbox', roster'[c][outbox'[i].msg.room], c, outbox'[i].msg.room, i,
                   Naming(outbox'[i].msg.from))
  <2> DEFINE k == IF i < i0 THEN i ELSE i + 1
             r == outbox[k].msg.room
  <2>1. k \in DOMAIN outbox /\ outbox'[i] = outbox[k]
    BY <1>1
  <2>2. r \in RoomId
    <3>1. outbox[k] \in Task
      BY <1>1, <2>1
    <3> HIDE DEF k
    <3> QED
      BY <1>6, <2>1, <3>1, TaskFields, MessageFields
  <2>3. Tells(outbox, roster[c][r], c, r, k, Naming(outbox[k].msg.from))
    <3> HIDE DEF k
    <3> QED
      BY <1>3, <1>6, <2>1, <2>2 DEF SendersTold
  <2>4. CASE i < i0
    <3>1. k = i /\ i \in Nat /\ i \in 1 .. i0 - 1 /\ \A j \in 1 .. i - 1 : outbox'[j] = outbox[j]
      BY <1>1, <2>4
    <3>2. ~TaskInforms(outbox[i0], c, r)
      <4>1. SUFFICES ASSUME TaskInforms(outbox[i0], c, r) PROVE FALSE
        OBVIOUS
      <4>2. outbox[i].via = "peers"
        BY <1>1, <1>6, <2>1, <3>1 DEF Lane, Task
      <4>3. outbox[i0].via = "sink"
        BY <1>2, <3>1, <4>2 DEF Runnable
      <4>4. Carries(outbox[i0], r) /\ Carries(outbox[i], r)
        BY <1>6, <2>1, <3>1, <4>1 DEF TaskInforms, Direct, RoomCreated, Carries
      <4> QED
        BY <1>1, <3>1, <4>3, <4>4 DEF Lane
    <3>3. roster'[c][r] = roster[c][r]
      BY <1>3, <1>6, <2>2, <3>2
    <3>4. Tells(outbox, roster[c][r], c, r, i, Naming(outbox[k].msg.from))
      BY <2>3, <3>1
    <3>5. Tells(outbox', roster[c][r], c, r, i, Naming(outbox[k].msg.from))
      BY <3>1, <3>4, TellsSame
    <3> QED
      BY <2>1, <3>3, <3>5
  <2>5. CASE ~(i < i0)
    <3>1. k \in i0 + 1 .. len + 1 /\ k - 1 = i
      <4>1. k = i + 1
        BY <2>5
      <4>2. len \in Nat /\ i0 \in 1 .. len /\ i \in 1 .. len - 1
        BY <1>1
      <4> HIDE DEF k
      <4> QED
        BY <2>5, <4>1, <4>2
    <3> HIDE DEF k
    <3>2. Tells(outbox', roster'[c][r], c, r, k - 1, Naming(outbox[k].msg.from))
      BY <1>4, <1>6, <2>2, <2>3, <3>1
    <3> QED
      BY <2>1, <3>1, <3>2
  <2> QED
    BY <2>4, <2>5
<1>7. MembersTold'
  BY <1>5 DEF MembersTold
<1>8. SendersTold'
  BY <1>6 DEF SendersTold
<1> QED
  BY <1>7, <1>8

\* Whoever comes is in no room, so that there is nothing it should know.
LEMMA QuietTold ==
  ASSUME TypeInv, Lane, Absent, MembersTold, SendersTold, Quiet
  PROVE  MembersTold' /\ SendersTold'
<1>1. /\ rooms' = rooms /\ outbox' = outbox
      /\ \A c \in Conn : Receives(c)' =>
           (Receives(c) /\ roster'[c] = roster[c]) \/ phase[c] = "idle"
  BY DEF Quiet
<1>2. ASSUME NEW c \in Conn, NEW i \in DOMAIN outbox,
             outbox[i].msg.kind = "Relay", outbox[i].dest = IdOf[c]
      PROVE  phase[c] # "idle"
  <2>1. outbox[i] \in Task
    BY DEF TypeInv, TypeOK
  <2>2. outbox[i].via = "peers"
    BY <1>2, <2>1 DEF Lane, Task
  <2> QED
    BY <1>2, <2>2 DEF Absent
<1>3. MembersTold'
  BY <1>1 DEF MembersTold, Absent
<1>4. SendersTold'
  BY <1>1, <1>2 DEF SendersTold
<1> QED
  BY <1>3, <1>4
-----------------------------------------------------------------------------
News == TypeInv /\ Registry /\ Lane /\ Absent /\ MembersTold /\ SendersTold

LEMMA NewsStep ==
  ASSUME UniqueIds, News, [Next]_vars
  PROVE  News'
<1> USE ConnAssumption DEF News
<1>1. TypeInv'
  BY TypeStep
<1>2. Registry'
  BY RegistryStep
<1>3. Lane'
  BY <1>1, LaneStep
<1>4. Absent'
  BY <1>1, AbsentStep
<1>5. MembersTold' /\ SendersTold'
  <2>1. CASE Quiet
    BY <2>1, QuietTold
  <2>2. ASSUME NEW c \in Conn, NEW r \in RoomId, Creates(c, r)
        PROVE  MembersTold' /\ SendersTold'
    BY <2>2, CreationTold
  <2>3. ASSUME NEW c \in Conn, NEW r \in RoomId, Arrives(c, r)
        PROVE  MembersTold' /\ SendersTold'
    <3>1. Broadcasts(r, PeerConnected(IdOf[c]))
      BY <2>3, ArrivalBroadcasts
    <3>2. \A x : x # r => MembersOf(rooms', x) = MembersOf(rooms, x)
      BY <2>3, ArrivalBroadcasts
    <3>3. \A x \in DOMAIN rooms' \ {r} : x \in DOMAIN rooms /\ rooms'[x] = rooms[x]
      BY <2>3, ArrivalBroadcasts
    <3>4. NobodyNew /\ UNCHANGED client /\ IdOf[c] \in Participant
      BY <2>3 DEF Arrives
    <3> QED
      BY <3>1, <3>2, <3>3, <3>4, BroadcastTold
  <2>4. ASSUME NEW c \in Conn, NEW r \in RoomId, Departs(c, r)
        PROVE  MembersTold' /\ SendersTold'
    <3>1. Broadcasts(r, PeerDisconnected(IdOf[c]))
      BY <2>4, DepartureBroadcasts
    <3>2. \A x : x # r => MembersOf(rooms', x) = MembersOf(rooms, x)
      BY <2>4, DepartureBroadcasts
    <3>3. \A x \in DOMAIN rooms' \ {r} : x \in DOMAIN rooms /\ rooms'[x] = rooms[x]
      BY <2>4, DepartureBroadcasts
    <3>4. NobodyNew /\ UNCHANGED client /\ IdOf[c] \in Participant
      BY <2>4 DEF Departs
    <3> QED
      BY <3>1, <3>2, <3>3, <3>4, BroadcastTold
  <2>5. ASSUME NEW c \in Conn, NEW to \in Participant, Relays(c, to)
        PROVE  MembersTold' /\ SendersTold'
    BY <2>5, RelayTold
  <2>6. ASSUME NEW i \in DOMAIN outbox, Deliver(i)
        PROVE  MembersTold' /\ SendersTold'
    BY <2>6, DeliveryTold
  <2> QED
    BY <2>1, <2>2, <2>3, <2>4, <2>5, <2>6, StepKinds
<1> QED
  BY <1>1, <1>2, <1>3, <1>4, <1>5

LEMMA NewsInvariant == UniqueIds => (Spec => []News)
<1> SUFFICES ASSUME UniqueIds PROVE Spec => []News
  OBVIOUS
<1>1. Init => News
  <2> SUFFICES ASSUME Init PROVE News
    OBVIOUS
  <2>1. TypeInv
    BY ConnAssumption DEF Init, NoRooms, TypeInv, TypeOK, Announced, Phase, Exit, Reply
  <2>2. /\ DOMAIN outbox = {} /\ DOMAIN peers = {} /\ DOMAIN rooms = {}
        /\ \A c \in Conn : phase[c] = "idle"
    BY DEF Init, NoRooms
  <2>3. \A r : MembersOf(rooms, r) = {}
    BY <2>2 DEF MembersOf, ListOf, Range
  <2> QED
    BY <2>1, <2>2, <2>3
       DEF News, Registry, Lane, Absent, MembersTold, SendersTold, Receives
<1>2. News /\ [Next]_vars => News'
  BY NewsStep
<1> QED
  BY <1>1, <1>2, PTL DEF Spec

(***************************************************************************)
(* What a client is about to be told of a room it is in is true, for any   *)
(* number of clients, rooms and sends on their way.  It is not inductive:  *)
(* sends overtake each other, so that one must know what a reader will     *)
(* hold after every prefix of the queue, that a direct answer is the first *)
(* send about its room, and that nobody takes over a registration.         *)
(***************************************************************************)
THEOREM MembersHearTheTruth == UniqueIds => (Spec => []NewsIsCurrent)
<1> SUFFICES ASSUME UniqueIds PROVE Spec => []NewsIsCurrent
  OBVIOUS
<1>1. News => NewsIsCurrent
  <2> SUFFICES ASSUME News,
                      NEW c \in Conn, NEW r \in DOMAIN rooms,
                      Receives(c), IdOf[c] \in MembersOf(rooms, r)
               PROVE  /\ \A i \in DOMAIN outbox : IsLatest(i, c, r) => NewsAt(i, c) = rooms[r]
                      /\ (\A i \in DOMAIN outbox : ~Informs(i, c, r))
                           => roster[c][r] = rooms[r]
    BY DEF NewsIsCurrent
  <2>1. /\ Len(outbox) \in Nat /\ DOMAIN outbox = 1 .. Len(outbox)
        /\ (Len(outbox) + 1) - 1 = Len(outbox)
        /\ r \in RoomId
    BY LenProperties DEF News, TypeInv, TypeOK
  <2>2. Tells(outbox, roster[c][r], c, r, Len(outbox) + 1, {rooms[r]})
    BY <2>1 DEF News, MembersTold
  <2>3. \A i : /\ Informs(i, c, r) <=> TaskInforms(outbox[i], c, r)
               /\ NewsAt(i, c) = NewsOf(outbox[i], c)
    BY DEF Informs, TaskInforms, NewsAt, NewsOf
  <2>4. /\ \A i \in DOMAIN outbox :
             /\ Informs(i, c, r)
             /\ \A j \in i + 1 .. Len(outbox) : ~Informs(j, c, r)
             => NewsAt(i, c) = rooms[r]
        /\ (\A i \in DOMAIN outbox : ~Informs(i, c, r)) => roster[c][r] = rooms[r]
    BY <2>1, <2>2, <2>3 DEF Tells
  <2>5. ASSUME NEW i \in DOMAIN outbox, IsLatest(i, c, r)
        PROVE  NewsAt(i, c) = rooms[r]
    <3>1. \A j \in i + 1 .. Len(outbox) : j \in DOMAIN outbox /\ ~(j <= i)
      BY <2>1
    <3> QED
      BY <2>4, <2>5, <3>1 DEF IsLatest
  <2> QED
    BY <2>4, <2>5
<1> QED
  BY <1>1, NewsInvariant, PTL

(***************************************************************************)
(* A client that is handed an Offer, Answer or IceCandidate already holds  *)
(* a list that names the sender.  The server tests membership when it      *)
(* takes the message in; that this is enough rests on broadcasts not       *)
(* overtaking each other and on answers to CreateRoom going first.         *)
(***************************************************************************)
THEOREM NoSignalsFromStrangers == UniqueIds => (Spec => []RelayFromKnownPeer)
<1> SUFFICES ASSUME UniqueIds PROVE Spec => []RelayFromKnownPeer
  OBVIOUS
<1>1. News => RelayFromKnownPeer
  <2> SUFFICES ASSUME News,
                      NEW i \in DOMAIN outbox, outbox[i].msg.kind = "Relay", Runnable(i),
                      NEW c \in Reached(outbox[i]), Receives(c)
               PROVE  outbox[i].msg.from \in Range(roster[c][outbox[i].msg.room])
    BY DEF RelayFromKnownPeer
  <2> DEFINE r == outbox[i].msg.room
  <2>1. /\ outbox[i] \in Task /\ Len(outbox) \in Nat /\ DOMAIN outbox = 1 .. Len(outbox)
        /\ peers \in [DOMAIN peers -> Conn]
    BY LenProperties DEF News, TypeInv, TypeOK
  <2>2. outbox[i].via = "peers"
    BY <2>1 DEF News, Lane, Task
  <2>3. c \in Conn /\ outbox[i].dest = IdOf[c]
    BY <2>1, <2>2 DEF News, Registry, Reached
  <2>4. \A j \in 1 .. i - 1 : ~TaskInforms(outbox[j], c, r)
    <3> SUFFICES ASSUME NEW j \in 1 .. i - 1, TaskInforms(outbox[j], c, r) PROVE FALSE
      OBVIOUS
    <3>1. outbox[j] = Direct(c, RoomCreated(r))
      BY <2>2 DEF Runnable, TaskInforms
    <3>2. outbox[j].via = "sink" /\ outbox[j].dest = c
      BY <3>1 DEF Direct
    <3> QED
      BY <3>2 DEF Runnable
  <2>5. roster[c][r] \in Naming(outbox[i].msg.from)
    <3>1. Tells(outbox, roster[c][r], c, r, i, Naming(outbox[i].msg.from))
      BY <2>3 DEF News, SendersTold
    <3> QED
      BY <2>4, <3>1 DEF Tells
  <2> QED
    BY <2>5 DEF Naming
<1> QED
  BY <1>1, NewsInvariant, PTL
-----------------------------------------------------------------------------
(***************************************************************************)
(* How a connection ended is known from how far its handler has got: what  *)
(* is deregistered ended in one of the two ways that skip leave_room, or   *)
(* has left.                                                               *)
(***************************************************************************)
ExitKnown ==
  \A c \in Conn :
    /\ phase[c] \in {"idle", "open"} => exit[c] = "none"
    /\ phase[c] = "deregister" => exit[c] \in {"Normal", "Media"} \/ roomOf[c] = NoRoom
    /\ phase[c] \in {"idle", "closed"} => roomOf[c] = NoRoom

\* Connection c accounts for its participant being listed in room r.
Accounts(c, r) == roomOf[c] = r \/ exit[c] \in {"Normal", "Media"}

RoomsAttached ==
  \A r : \A p \in MembersOf(rooms, r) : \E c \in Conn : IdOf[c] = p /\ Accounts(c, r)

Attached == ExitKnown /\ RoomsAttached

LEMMA AttachedStep ==
  ASSUME LeavesFirst, TypeInv, Attached, [Next]_vars
  PROVE  Attached'
<1> USE ConnAssumption
<1>1. /\ TypeOK
      /\ phase \in [Conn -> Phase]
      /\ exit \in [Conn -> Exit]
      /\ roomOf \in [Conn -> used \cup {NoRoom}]
      /\ DOMAIN rooms \subseteq used /\ NoRoom \notin used /\ NoRoom \notin RoomId
      /\ MembersOf(rooms, NoRoom) = {}
  BY DEF TypeInv, TypeOK, MembersOf, ListOf, Range
\* A participant enters a room only through its own connection, which has
\* left; a connection gives up a room only when its participant leaves it.
<1>2. ASSUME NEW c \in Conn,
             \A d \in Conn \ {c} : \A r : Accounts(d, r) => Accounts(d, r)',
             \A r : Accounts(c, r) /\ IdOf[c] \in MembersOf(rooms', r) => Accounts(c, r)',
             \A r : \A p \in MembersOf(rooms', r) :
               p \in MembersOf(rooms, r) \/ (p = IdOf[c] /\ Accounts(c, r)')
      PROVE  RoomsAttached'
  <2>1. ASSUME NEW r, NEW p \in MembersOf(rooms', r)
        PROVE  \E d \in Conn : IdOf[d] = p /\ Accounts(d, r)'
    <3>1. CASE p \in MembersOf(rooms, r)
      <4>1. PICK d \in Conn : IdOf[d] = p /\ Accounts(d, r)
        BY <3>1 DEF Attached, RoomsAttached
      <4> QED
        BY <1>2, <2>1, <4>1
    <3>2. CASE p \notin MembersOf(rooms, r)
      BY <1>2, <2>1, <3>2
    <3> QED
      BY <3>1, <3>2
  <2> QED
    BY <2>1 DEF RoomsAttached, Accounts
<1>3. ASSUME UNCHANGED <<rooms, exit, roomOf>>
      PROVE  RoomsAttached'
  BY <1>3 DEF Attached, RoomsAttached, Accounts
<1>4. ASSUME UNCHANGED <<phase, exit>>, \A c \in Conn : phase[c] # "open" => roomOf'[c] = roomOf[c]
      PROVE  ExitKnown'
  BY <1>4 DEF Attached, ExitKnown
<1>5. ASSUME NEW c \in Conn, Accept(c)
      PROVE  Attached'
  BY <1>1, <1>3, <1>5 DEF Accept, Attached, ExitKnown
<1>6. ASSUME NEW code, Answer(code)
      PROVE  Attached'
  BY <1>3, <1>4, <1>6 DEF Answer, server, Attached
<1>7. ASSUME NEW c \in Conn, CreateRoom(c)
      PROVE  Attached'
  <2>1. PICK r \in RoomId \ used :
          rooms' = Created(rooms, r, IdOf[c]) /\ roomOf' = [roomOf EXCEPT ![c] = r]
    BY <1>7 DEF CreateRoom
  <2>2. UNCHANGED <<phase, exit>> /\ phase[c] = "open" /\ roomOf[c] = NoRoom
    BY <1>7 DEF CreateRoom, Speaks
  <2>3. \A x : MembersOf(rooms', x) = IF x = r THEN {IdOf[c]} ELSE MembersOf(rooms, x)
    BY <1>1, <2>1, MembersAfter
  <2>4. \A x : IdOf[c] \in MembersOf(rooms', x) => x # NoRoom
    BY <1>1, <2>1, <2>3
  <2>5. RoomsAttached'
    BY <1>1, <1>2, <2>1, <2>2, <2>3, <2>4 DEF Accounts
  <2> QED
    BY <1>1, <1>4, <2>1, <2>2, <2>5 DEF Attached
<1>8. ASSUME NEW c \in Conn, NEW r \in DOMAIN rooms, phase[c] = "open", roomOf[c] = NoRoom,
             Arrive(IdOf[c], r), roomOf' = [roomOf EXCEPT ![c] = r], UNCHANGED <<phase, exit>>
      PROVE  Attached'
  <2>1. \A x : MembersOf(rooms', x) =
                 IF x = r THEN MembersOf(rooms, r) \cup {IdOf[c]} ELSE MembersOf(rooms, x)
    BY <1>1, <1>8, MembersAfter DEF Arrive
  <2>2. \A x : IdOf[c] \in MembersOf(rooms', x) => x # NoRoom
    BY <1>1, <1>8, <2>1
  <2>3. RoomsAttached'
    BY <1>1, <1>2, <1>8, <2>1, <2>2 DEF Accounts
  <2> QED
    BY <1>1, <1>4, <1>8, <2>3 DEF Attached
<1>9. ASSUME NEW c \in Conn, roomOf[c] \in DOMAIN rooms,
             Depart(IdOf[c], roomOf[c]), roomOf' = [roomOf EXCEPT ![c] = NoRoom],
             UNCHANGED exit
      PROVE  RoomsAttached'
  <2>1. \A x : MembersOf(rooms', x) =
                 IF x = roomOf[c] THEN MembersOf(rooms, x) \ {IdOf[c]}
                                  ELSE MembersOf(rooms, x)
    BY <1>1, <1>9, MembersAfter DEF Depart
  <2> QED
    BY <1>1, <1>2, <1>9, <2>1 DEF Accounts
<1>10. ASSUME NEW c \in Conn, Speak(c)
       PROVE  Attached'
  <2>1. CASE DropText(c) \/ BadText(c)
    BY <1>6, <2>1 DEF DropText, BadText
  <2>2. CASE CreateRoom(c)
    BY <1>7, <2>2
  <2>3. ASSUME NEW r \in RoomId, JoinRoom(c, r)
        PROVE  Attached'
    BY <1>6, <1>8, <2>3 DEF JoinRoom, Speaks
  <2>4. CASE LeaveRoom(c)
    <3>1. CASE \E code : Answer(code)
      BY <1>6, <3>1
    <3>2. CASE /\ roomOf[c] \in DOMAIN rooms
               /\ Depart(IdOf[c], roomOf[c])
               /\ roomOf' = [roomOf EXCEPT ![c] = NoRoom]
               /\ UNCHANGED <<phase, exit>>
      BY <1>1, <1>4, <1>9, <2>4, <3>2 DEF LeaveRoom, Speaks, Attached
    <3> QED
      BY <2>4, <3>1, <3>2 DEF LeaveRoom
  <2>5. ASSUME NEW to \in Participant, Signal(c, to)
        PROVE  Attached'
    BY <1>3, <1>4, <1>6, <2>5 DEF Signal, server, Attached
  <2> QED
    BY <1>10, <2>1, <2>2, <2>3, <2>4, <2>5 DEF Speak
<1>11. ASSUME NEW c \in Conn, NormalClose(c) \/ AbnormalClose(c) \/ BinaryFrame(c)
       PROVE  Attached'
  <2>1. /\ phase[c] = "open" /\ exit[c] = "none" /\ rooms' = rooms
        /\ \A d \in Conn \ {c} : /\ phase'[d] = phase[d] /\ exit'[d] = exit[d]
                                 /\ roomOf'[d] = roomOf[d]
        /\ \/ phase'[c] = "deregister" /\ exit'[c] = "Normal" /\ roomOf'[c] = roomOf[c]
           \/ phase'[c] = "grace" /\ exit'[c] = "Abnormal" /\ roomOf'[c] = roomOf[c]
           \/ phase'[c] = "grace" /\ exit'[c] = "Media" /\ roomOf'[c] = NoRoom
    BY <1>1, <1>11 DEF NormalClose, AbnormalClose, BinaryFrame, Ends, Attached, ExitKnown
  <2>2. ExitKnown'
    BY <1>1, <2>1 DEF Attached, ExitKnown
  <2>3. RoomsAttached'
    BY <1>1, <1>2, <2>1 DEF Accounts
  <2> QED
    BY <2>2, <2>3 DEF Attached
<1>12. ASSUME NEW c \in Conn, GraceElapsed(c)
       PROVE  Attached'
  <2>1. /\ phase[c] = "grace" /\ phase' = [phase EXCEPT ![c] = "deregister"]
        /\ roomOf' = [roomOf EXCEPT ![c] = NoRoom] /\ UNCHANGED exit
    BY <1>12 DEF GraceElapsed
  <2>2. ExitKnown'
    BY <1>1, <2>1 DEF Attached, ExitKnown
  <2>3. CASE roomOf[c] \in DOMAIN rooms
    BY <1>9, <1>12, <2>1, <2>2, <2>3 DEF GraceElapsed, Attached
  <2>4. CASE roomOf[c] \notin DOMAIN rooms
    <3>1. rooms' = rooms
      BY <1>12, <2>4 DEF GraceElapsed
    <3>2. \A r : \A p \in MembersOf(rooms, r) : r # roomOf[c]
      BY <2>4 DEF MembersOf, ListOf, Range
    <3>3. RoomsAttached'
      BY <1>1, <1>2, <2>1, <3>1, <3>2 DEF Accounts
    <3> QED
      BY <2>2, <3>3 DEF Attached
  <2> QED
    BY <2>3, <2>4
<1>13. ASSUME NEW c \in Conn, Deregister(c)
       PROVE  Attached'
  <2>1. /\ phase[c] = "deregister" /\ phase' = [phase EXCEPT ![c] = "closed"]
        /\ roomOf' = [roomOf EXCEPT ![c] = NoRoom] /\ UNCHANGED <<rooms, exit>>
        /\ exit[c] \in {"Normal", "Media"} \/ roomOf[c] = NoRoom
    BY <1>13 DEF Deregister, Attached, ExitKnown
  <2>2. ExitKnown'
    BY <1>1, <2>1 DEF Attached, ExitKnown
  <2>3. RoomsAttached'
    BY <1>1, <1>2, <2>1 DEF Accounts
  <2> QED
    BY <2>2, <2>3 DEF Attached
<1>14. ASSUME NEW i \in DOMAIN outbox, Deliver(i)
       PROVE  Attached'
  BY <1>3, <1>4, <1>14 DEF Deliver, server, Attached
<1>15. CASE UNCHANGED vars
  BY <1>3, <1>4, <1>15 DEF vars, server, Attached
<1> QED
  BY <1>5, <1>10, <1>11, <1>12, <1>13, <1>14, <1>15 DEF Next, DeliverDirect, DeliverBroadcast

LEMMA AttachedInvariant == LeavesFirst => (Spec => [](TypeInv /\ Attached))
<1> SUFFICES ASSUME LeavesFirst PROVE Spec => [](TypeInv /\ Attached)
  OBVIOUS
<1>1. Init => Attached
  BY DEF Init, NoRooms, Attached, ExitKnown, RoomsAttached, MembersOf, ListOf, Range
<1>2. TypeInv /\ Attached /\ [Next]_vars => Attached'
  BY AttachedStep
<1> QED
  BY <1>1, <1>2, TypeInvariant, PTL DEF Spec

(***************************************************************************)
(* Only the two ways out that skip leave_room leave a participant behind,  *)
(* ids given twice or not: a listed participant has a handler in the room, *)
(* open or in the grace period that ends with leave_room, or a connection  *)
(* that ended by a normal Close or a binary frame, which the code never    *)
(* takes out of the room.                                                  *)
(***************************************************************************)
THEOREM OnlyQuietEndsLeaveBehind == LeavesFirst => (Spec => []MembersAttached)
<1> SUFFICES ASSUME LeavesFirst PROVE Spec => []MembersAttached
  OBVIOUS
<1>1. TypeInv /\ Attached => MembersAttached
  <2> SUFFICES ASSUME TypeInv, Attached,
                      NEW r \in DOMAIN rooms, NEW p \in Range(rooms[r])
               PROVE  \E c \in Conn :
                        /\ IdOf[c] = p
                        /\ \/ phase[c] \in {"open", "grace"} /\ roomOf[c] = r
                           \/ exit[c] \in {"Normal", "Media"}
    BY DEF MembersAttached
  <2>1. p \in MembersOf(rooms, r)
    BY DEF MembersOf, ListOf
  <2>2. PICK c \in Conn : IdOf[c] = p /\ Accounts(c, r)
    BY <2>1 DEF Attached, RoomsAttached
  <2>3. r # NoRoom /\ phase[c] \in Phase
    BY ConnAssumption DEF TypeInv, TypeOK
  <2>4. exit[c] \in {"Normal", "Media"} \/ phase[c] \in {"open", "grace"}
    BY <2>2, <2>3 DEF Accounts, Attached, ExitKnown, Phase
  <2> QED
    BY <2>2, <2>4 DEF Accounts
<1> QED
  BY <1>1, AttachedInvariant, PTL

(***************************************************************************)
(* "Should trigger leave once and notify peers" (handler.rs line 341): for *)
(* clients that leave before they move on, and with fresh ids, the claim   *)
(* that fails in general is true.                                          *)
(***************************************************************************)
THEOREM BrokenConnectionsLeave == UniqueIds /\ LeavesFirst => (Spec => []AbnormalCloseLeaves)
<1> SUFFICES ASSUME UniqueIds, LeavesFirst PROVE Spec => []AbnormalCloseLeaves
  OBVIOUS
<1>1. TypeInv /\ Attached => AbnormalCloseLeaves
  <2> SUFFICES ASSUME TypeInv, Attached,
                      NEW c \in Conn, phase[c] = "closed", exit[c] = "Abnormal",
                      NEW r \in DOMAIN rooms, IdOf[c] \in Range(rooms[r])
               PROVE  FALSE
    BY DEF AbnormalCloseLeaves
  <2>1. IdOf[c] \in MembersOf(rooms, r)
    BY DEF MembersOf, ListOf
  <2>2. PICK d \in Conn : IdOf[d] = IdOf[c] /\ Accounts(d, r)
    BY <2>1 DEF Attached, RoomsAttached
  <2>3. d = c
    BY <2>2 DEF UniqueIds
  <2>4. r \in RoomId /\ roomOf[c] = NoRoom
    BY DEF TypeInv, TypeOK, Attached, ExitKnown
  <2> QED
    BY <2>2, <2>3, <2>4, ConnAssumption DEF Accounts
<1> QED
  BY <1>1, AttachedInvariant, PTL
-----------------------------------------------------------------------------
Hello(p, q) == SendTo(p, PeerConnected(q))
Bye(p, q) == SendTo(p, PeerDisconnected(q))

\* When all sends in front of place n are made, the client of p, which has
\* greeted those in own, has greeted q.
Greets(box, own, p, q, n) ==
  \/ \E i \in 1 .. n - 1 :
       box[i] = Hello(p, q) /\ \A j \in i + 1 .. n - 1 : box[j] # Bye(p, q)
  \/ q \in own /\ \A j \in 1 .. n - 1 : box[j] # Bye(p, q)

\* Sends that say no goodbye make no difference.
LEMMA GreetsSkips ==
  ASSUME NEW box, NEW box2, NEW own, NEW p, NEW q, NEW n \in Nat, NEW m \in Nat,
         n <= m,
         \A i \in 1 .. n - 1 : box2[i] = box[i],
         \A i \in n .. m - 1 : box2[i] # Bye(p, q),
         Greets(box, own, p, q, n)
  PROVE  Greets(box2, own, p, q, m)
<1>1. \A i \in 1 .. m - 1 : i \in 1 .. n - 1 \/ i \in n .. m - 1
  OBVIOUS
<1>2. CASE q \in own /\ \A j \in 1 .. n - 1 : box[j] # Bye(p, q)
  <2>1. \A j \in 1 .. m - 1 : box2[j] # Bye(p, q)
    BY <1>1, <1>2
  <2> QED
    BY <1>2, <2>1 DEF Greets
<1>3. ASSUME NEW i \in 1 .. n - 1, box[i] = Hello(p, q),
             \A j \in i + 1 .. n - 1 : box[j] # Bye(p, q)
      PROVE  Greets(box2, own, p, q, m)
  <2>1. i \in 1 .. m - 1 /\ box2[i] = Hello(p, q)
    BY <1>3
  <2>2. ASSUME NEW j \in i + 1 .. m - 1
        PROVE  box2[j] # Bye(p, q)
    <3>1. CASE j \in 1 .. n - 1
      <4>1. j \in i + 1 .. n - 1
        BY <3>1
      <4> QED
        BY <1>3, <3>1, <4>1
    <3>2. CASE j \in n .. m - 1
      BY <3>2
    <3> QED
      BY <3>1, <3>2
  <2> QED
    BY <2>1, <2>2 DEF Greets
<1> QED
  BY <1>2, <1>3 DEF Greets

LEMMA GreetsSame ==
  ASSUME NEW box, NEW box2, NEW own, NEW p, NEW q, NEW n \in Nat,
         \A i \in 1 .. n - 1 : box2[i] = box[i],
         Greets(box, own, p, q, n)
  PROVE  Greets(box2, own, p, q, n)
<1>1. n <= n /\ \A i \in n .. n - 1 : box2[i] # Bye(p, q)
  OBVIOUS
<1> QED
  BY <1>1, GreetsSkips

LEMMA GreetsAppended ==
  ASSUME NEW box, NEW box2, NEW own, NEW p, NEW q, NEW n \in Nat,
         \A i \in 1 .. n - 1 : box2[i] = box[i],
         box2[n] # Bye(p, q),
         Greets(box, own, p, q, n)
  PROVE  Greets(box2, own, p, q, n + 1)
<1>1. n + 1 \in Nat /\ n <= n + 1 /\ \A i \in n .. (n + 1) - 1 : i = n
  OBVIOUS
<1>2. \A i \in n .. (n + 1) - 1 : box2[i] # Bye(p, q)
  BY <1>1
<1> QED
  BY <1>1, <1>2, GreetsSkips

\* The send at place i is made: from now on its greeting is the own one.
LEMMA GreetsRemoved ==
  ASSUME NEW len \in Nat, NEW s, NEW t, NEW i \in 1 .. len,
         \A j \in 1 .. len - 1 : t[j] = IF j < i THEN s[j] ELSE s[j + 1],
         NEW own, NEW own2, NEW p, NEW q, NEW n \in i + 1 .. len + 1,
         s[i] = Hello(p, q) => q \in own2,
         s[i] # Bye(p, q) /\ q \in own => q \in own2,
         s[i] = Hello(p, q) => \A j \in 1 .. i - 1 : s[j] # Bye(p, q),
         Greets(s, own, p, q, n)
  PROVE  Greets(t, own2, p, q, n - 1)
<1>1. n \in Nat /\ i \in Nat /\ n - 1 \in Nat /\ (n - 1) - 1 = n - 2
  OBVIOUS
<1>2. /\ \A j \in 1 .. i - 1 : j \in 1 .. n - 2 /\ t[j] = s[j]
      /\ \A j \in 1 .. n - 2 : j < i => t[j] = s[j] /\ j \in 1 .. n - 1
      /\ \A j \in 1 .. n - 2 : ~(j < i) => t[j] = s[j + 1] /\ j + 1 \in i + 1 .. n - 1
  <2>1. \A j \in 1 .. n - 2 : j \in 1 .. len - 1
    OBVIOUS
  <2>2. \A j \in 1 .. i - 1 : j \in 1 .. n - 2 /\ j < i
    OBVIOUS
  <2>3. \A j \in 1 .. n - 2 : /\ j < i => j \in 1 .. n - 1
                              /\ ~(j < i) => j + 1 \in i + 1 .. n - 1
    OBVIOUS
  <2> QED
    BY <2>1, <2>2, <2>3
<1>3. CASE q \in own /\ \A j \in 1 .. n - 1 : s[j] # Bye(p, q)
  <2>1. q \in own2
    <3>1. i \in 1 .. n - 1
      BY <1>1
    <3> QED
      BY <1>3, <3>1
  <2>2. ASSUME NEW j \in 1 .. n - 2
        PROVE  t[j] # Bye(p, q)
    <3>1. CASE j < i
      BY <1>2, <1>3, <3>1
    <3>2. CASE ~(j < i)
      <4>1. t[j] = s[j + 1] /\ j + 1 \in 1 .. n - 1
        BY <1>2, <3>2
      <4> QED
        BY <1>3, <4>1
    <3> QED
      BY <3>1, <3>2
  <2> QED
    BY <1>1, <2>1, <2>2 DEF Greets
<1>4. ASSUME NEW k \in 1 .. n - 1, s[k] = Hello(p, q),
             \A j \in k + 1 .. n - 1 : s[j] # Bye(p, q)
      PROVE  Greets(t, own2, p, q, n - 1)
  <2>1. CASE k = i
    <3>1. ASSUME NEW j \in 1 .. n - 2
          PROVE  t[j] # Bye(p, q)
      <4>1. CASE j < i
        <5>1. j \in 1 .. i - 1
          BY <4>1
        <5> QED
          BY <1>2, <1>4, <2>1, <5>1
      <4>2. CASE ~(j < i)
        BY <1>2, <1>4, <2>1, <4>2
      <4> QED
        BY <4>1, <4>2
    <3>2. q \in own2
      BY <1>4, <2>1
    <3> QED
      BY <1>1, <3>1, <3>2 DEF Greets
  <2>2. CASE k < i
    <3>1. k \in 1 .. n - 2 /\ t[k] = Hello(p, q)
      <4>1. k \in 1 .. i - 1
        BY <2>2
      <4> QED
        BY <1>2, <1>4, <4>1
    <3>2. ASSUME NEW j \in k + 1 .. n - 2
          PROVE  t[j] # Bye(p, q)
      <4>1. j \in 1 .. n - 2 /\ j \in k + 1 .. n - 1
        OBVIOUS
      <4>2. CASE j < i
        BY <1>2, <1>4, <4>1, <4>2
      <4>3. CASE ~(j < i)
        <5>1. t[j] = s[j + 1] /\ j + 1 \in k + 1 .. n - 1
          BY <1>2, <4>1, <4>3
        <5> QED
          BY <1>4, <5>1
      <4> QED
        BY <4>2, <4>3
    <3> QED
      BY <1>1, <3>1, <3>2 DEF Greets
  <2>3. CASE k > i
    <3>1. k - 1 \in 1 .. n - 2 /\ t[k - 1] = Hello(p, q)
      <4>1. k - 1 \in 1 .. n - 2 /\ ~(k - 1 < i) /\ (k - 1) + 1 = k
        BY <1>1, <2>3
      <4> QED
        BY <1>2, <1>4, <4>1
    <3>2. ASSUME NEW j \in (k - 1) + 1 .. n - 2
          PROVE  t[j] # Bye(p, q)
      <4>1. j \in 1 .. n - 2 /\ ~(j < i) /\ j + 1 \in k + 1 .. n - 1
        BY <1>1, <2>3
      <4> QED
        BY <1>2, <1>4, <4>1
    <3> QED
      BY <1>1, <3>1, <3>2 DEF Greets
  <2> QED
    BY <1>1, <2>1, <2>2, <2>3
<1> QED
  BY <1>3, <1>4 DEF Greets
-----------------------------------------------------------------------------
\* Who is behind whom in a list, and after a join or a leave.
LEMMA BehindMembers ==
  ASSUME NEW list \in Seq(Participant), NEW x
  PROVE  /\ Behind(list, x) \subseteq Range(list)
         /\ Behind(list, x) # {} => x \in Range(list)
<1>1. Len(list) \in Nat /\ DOMAIN list = 1 .. Len(list)
  BY LenProperties
<1>2. \A k \in DOMAIN list : \A i \in 1 .. k - 1 : i \in DOMAIN list
  BY <1>1
<1> QED
  BY <1>2 DEF Behind, Range

LEMMA BehindSingle ==
  ASSUME NEW p \in Participant, NEW x
  PROVE  Behind(<<p>>, x) = {} /\ Behind(<<>>, x) = {}
BY DEF Behind

LEMMA BehindJoined ==
  ASSUME NEW t, t \in [DOMAIN t -> Seq(Participant)], NEW r \in DOMAIN t,
         NEW p \in Participant, NEW x
  PROVE  Behind(Joined(t, r, p)[r], x) \subseteq Behind(t[r], x) \cup {p}
<1> DEFINE old == t[r]
           new == Append(old, p)
<1>1. Joined(t, r, p)[r] = old \/ Joined(t, r, p)[r] = new
  BY DEF Joined
<1>2. /\ old \in Seq(Participant)
      /\ Len(old) \in Nat /\ DOMAIN old = 1 .. Len(old)
  BY LenProperties
<1> HIDE DEF old
<1>3. /\ DOMAIN new = 1 .. Len(old) + 1
      /\ \A i \in 1 .. Len(old) : new[i] = old[i]
      /\ new[Len(old) + 1] = p
  BY <1>2, AppendProperties, LenProperties
<1> HIDE DEF new
<1>4. ASSUME NEW k \in DOMAIN new, NEW i \in 1 .. k - 1, new[i] = x
      PROVE  new[k] \in Behind(old, x) \cup {p}
  <2>1. CASE k = Len(old) + 1
    BY <1>3, <2>1
  <2>2. CASE k # Len(old) + 1
    <3>1. k \in 1 .. Len(old) /\ i \in 1 .. Len(old)
      BY <1>2, <1>3, <2>2
    <3>2. new[k] = old[k] /\ new[i] = old[i] /\ k \in DOMAIN old
      BY <1>2, <1>3, <3>1
    <3> QED
      BY <1>4, <3>2 DEF Behind
  <2> QED
    BY <2>1, <2>2
<1>5. Behind(new, x) \subseteq Behind(old, x) \cup {p}
  BY <1>4 DEF Behind
<1> QED
  BY <1>1, <1>5 DEF old

LEMMA BehindRetain ==
  ASSUME NEW list \in Seq(Participant), NEW p, NEW x
  PROVE  Behind(Retain(list, p), x) \subseteq Behind(list, x) \ {p}
<1> DEFINE rest == Retain(list, p)
<1>1. PICK f \in [1 .. Len(rest) -> Kept(list, p)] :
        /\ \A n \in 1 .. Len(rest) : rest[n] = list[f[n]]
        /\ \A m, n \in 1 .. Len(rest) : m < n => f[m] < f[n]
  BY RetainIndices
<1>2. rest \in Seq(Participant)
  BY RetainProperties
<1> HIDE DEF rest
<1>3. /\ Len(rest) \in Nat /\ DOMAIN rest = 1 .. Len(rest)
      /\ Len(list) \in Nat /\ DOMAIN list = 1 .. Len(list)
  BY <1>2, LenProperties
<1>4. ASSUME NEW k \in DOMAIN rest, NEW i \in 1 .. k - 1, rest[i] = x
      PROVE  rest[k] \in Behind(list, x) \ {p}
  <2>1. i \in 1 .. Len(rest) /\ k \in 1 .. Len(rest) /\ i < k
    BY <1>3
  <2>2. /\ f[k] \in DOMAIN list /\ f[i] \in DOMAIN list /\ f[i] < f[k]
        /\ rest[k] = list[f[k]] /\ rest[i] = list[f[i]] /\ list[f[k]] # p
    BY <1>1, <2>1 DEF Kept
  <2>3. f[i] \in 1 .. f[k] - 1
    BY <1>3, <2>2
  <2> QED
    BY <1>4, <2>2, <2>3 DEF Behind
<1>5. Behind(rest, x) \subseteq Behind(list, x) \ {p}
  BY <1>4 DEF Behind
<1> QED
  BY <1>5 DEF rest

LEMMA BehindLeft ==
  ASSUME NEW t, t \in [DOMAIN t -> Seq(Participant)], NEW r \in DOMAIN t,
         NEW p \in Participant, NEW x
  PROVE  Behind(ListOf(Left(t, r, p), r), x) \subseteq Behind(t[r], x) \ {p}
<1>1. CASE Retain(t[r], p) = <<>>
  <2>1. ListOf(Left(t, r, p), r) = <<>>
    BY <1>1 DEF ListOf, Left, Restrict
  <2> QED
    BY <2>1, BehindSingle
<1>2. CASE Retain(t[r], p) # <<>>
  <2>1. ListOf(Left(t, r, p), r) = Retain(t[r], p)
    BY <1>2 DEF ListOf, Left
  <2> QED
    BY <2>1, BehindRetain
<1> QED
  BY <1>1, <1>2
-----------------------------------------------------------------------------
\* With fresh ids, and clients that leave first, rooms have no one in common.
OneRoomEach ==
  \A r, s : MembersOf(rooms, r) \cap MembersOf(rooms, s) # {} => r = s

\* Whoever is behind a member in its room will have been announced to it.
MembersGreeted ==
  \A c \in Conn, r \in RoomId :
    Receives(c) /\ r \in DOMAIN rooms =>
      \A q \in Behind(rooms[r], IdOf[c]) :
        Greets(outbox, greeted[c], IdOf[c], q, Len(outbox) + 1)

\* The same of the lists on their way, at the time they arrive.
ListsGreeted ==
  \A c \in Conn : \A i \in DOMAIN outbox :
    /\ Receives(c)
    /\ outbox[i].msg.kind = "RoomParticipants" /\ outbox[i].dest = IdOf[c]
    => \A q \in Behind(outbox[i].msg.list, IdOf[c]) :
         Greets(outbox, greeted[c], IdOf[c], q, i)

LEMMA OneRoomStep ==
  ASSUME UniqueIds, LeavesFirst, TypeInv, Registry, Attached, OneRoomEach, [Next]_vars
  PROVE  OneRoomEach'
<1> USE ConnAssumption
<1>1. rooms \in [DOMAIN rooms -> Seq(Participant)] /\ MembersOf(rooms, NoRoom) = {}
  BY DEF TypeInv, TypeOK, MembersOf, ListOf, Range
<1>2. ASSUME rooms' = rooms
      PROVE  OneRoomEach'
  BY <1>2 DEF OneRoomEach
\* A client that may enter a room is in none.
<1>3. ASSUME NEW c \in Conn, phase[c] = "open", roomOf[c] = NoRoom, NEW x
      PROVE  IdOf[c] \notin MembersOf(rooms, x)
  <2> SUFFICES ASSUME IdOf[c] \in MembersOf(rooms, x) PROVE FALSE
    OBVIOUS
  <2>1. PICK d \in Conn : IdOf[d] = IdOf[c] /\ Accounts(d, x)
    BY DEF Attached, RoomsAttached
  <2>2. d = c
    BY <2>1 DEF UniqueIds
  <2> QED
    BY <1>1, <1>3, <2>1, <2>2 DEF Accounts, Attached, ExitKnown
<1>4. ASSUME NEW c \in Conn, NEW r \in RoomId, Creates(c, r)
      PROVE  OneRoomEach'
  <2>1. \A x : MembersOf(rooms', x) = IF x = r THEN {IdOf[c]} ELSE MembersOf(rooms, x)
    <3>1. rooms' = Created(rooms, r, IdOf[c]) /\ r \in RoomId \ used
      BY <1>4 DEF Creates
    <3> QED
      BY <3>1, MembersAfter DEF TypeInv
  <2>2. \A x : IdOf[c] \notin MembersOf(rooms, x)
    BY <1>3, <1>4 DEF Creates
  <2> QED
    BY <2>1, <2>2 DEF OneRoomEach
<1>5. ASSUME NEW c \in Conn, NEW r \in RoomId, Arrives(c, r)
      PROVE  OneRoomEach'
  <2>1. \A x : MembersOf(rooms', x) =
          IF x = r THEN MembersOf(rooms, r) \cup {IdOf[c]} ELSE MembersOf(rooms, x)
    BY <1>5, ArrivalBroadcasts
  <2>2. \A x : IdOf[c] \notin MembersOf(rooms, x)
    BY <1>3, <1>5 DEF Arrives
  <2> QED
    BY <2>1, <2>2 DEF OneRoomEach
<1>6. ASSUME NEW c \in Conn, NEW r \in RoomId, Departs(c, r)
      PROVE  OneRoomEach'
  <2>1. \A x : MembersOf(rooms', x) =
          IF x = r THEN MembersOf(rooms, r) \ {IdOf[c]} ELSE MembersOf(rooms, x)
    BY <1>6, DepartureBroadcasts
  <2> QED
    BY <2>1 DEF OneRoomEach
<1> QED
  BY <1>2, <1>4, <1>5, <1>6, StepKinds DEF Quiet, Relays, Deliver, server

LEMMA BroadcastGreeted ==
  ASSUME TypeInv, OneRoomEach', MembersGreeted, ListsGreeted,
         NEW r0 \in DOMAIN rooms, NEW p \in Participant, NEW m,
         m \in {PeerConnected(p), PeerDisconnected(p)}, Broadcasts(r0, m),
         \A x \in DOMAIN rooms' \ {r0} : x \in DOMAIN rooms /\ rooms'[x] = rooms[x],
         \A x : \A q \in Behind(ListOf(rooms', r0), x) :
           \/ q = p /\ m = PeerConnected(p)
           \/ q \in Behind(rooms[r0], x) /\ (m = PeerDisconnected(p) => q # p),
         NobodyNew, UNCHANGED client
  PROVE  MembersGreeted' /\ ListsGreeted'
<1> DEFINE list == ListOf(rooms', r0)
           news == RoomParticipants(r0, list)
           len == Len(outbox)
           size == Len(list)
<1>0. r0 \in RoomId
  BY DEF TypeInv, TypeOK
<1>1. /\ len \in Nat /\ size \in Nat /\ list \in Seq(Participant)
      /\ DOMAIN list = 1 .. size
      /\ Len(outbox') = len + size + size /\ DOMAIN outbox' = 1 .. Len(outbox')
      /\ DOMAIN outbox = 1 .. len
      /\ \A i \in 1 .. len : outbox'[i] = outbox[i]
      /\ \A k \in 1 .. size : outbox'[len + k] = SendTo(list[k], m)
      /\ \A k \in 1 .. size : outbox'[len + size + k] = SendTo(list[k], news)
      /\ \A i \in len + 1 .. Len(outbox') : \E k \in 1 .. size :
           i = len + k \/ i = len + size + k
  BY <1>0, BroadcastPlaces, LenProperties DEF Rounds
<1>2. greeted' = greeted /\ \A c \in Conn : Receives(c)' => Receives(c)
  BY DEF NobodyNew, client
<1>3. /\ \A x, q : SendTo(x, m) = Hello(x, p) \/ SendTo(x, m) = Bye(x, p)
      /\ \A x, y, q : SendTo(x, news) # Bye(y, q)
      /\ \A x, y, q : SendTo(x, m) = Bye(y, q) => x = y /\ m = PeerDisconnected(q)
      /\ \A q : m = PeerDisconnected(q) => q = p
      /\ m = PeerConnected(p) => \A q : m # PeerDisconnected(q)
      /\ \A x : SendTo(x, m).msg.kind # "RoomParticipants"
      /\ \A x : SendTo(x, news).msg.list = list /\ SendTo(x, news).dest = x
  BY DEF Hello, Bye, SendTo, PeerConnected, PeerDisconnected, RoomParticipants, news
<1>4. \A x : x \in Range(list) => \E k \in 1 .. size : list[k] = x
  BY <1>1 DEF Range
<1>5. list = ListOf(rooms', r0)
  OBVIOUS
<1> HIDE DEF list, len, size, news
<1>6. ASSUME NEW i \in len + 1 .. Len(outbox'), NEW y, NEW q, outbox'[i] = Bye(y, q)
      PROVE  m = PeerDisconnected(q) /\ y \in Range(list)
  <2>1. PICK k \in 1 .. size : i = len + k \/ i = len + size + k
    BY <1>1
  <2>2. outbox'[i] = SendTo(list[k], m) \/ outbox'[i] = SendTo(list[k], news)
    BY <1>1, <2>1
  <2>3. SendTo(list[k], m) = Bye(y, q)
    BY <1>3, <1>6, <2>2
  <2>4. list[k] = y /\ m = PeerDisconnected(q)
    BY <1>3, <2>3
  <2>5. list[k] \in Range(list)
    BY <1>1 DEF Range
  <2> QED
    BY <2>4, <2>5
\* The old greetings of a client that is not told of q's leave stand.
<1>7. ASSUME NEW c \in Conn, NEW q, NEW n \in len + 1 .. Len(outbox') + 1,
             Greets(outbox, greeted[c], IdOf[c], q, len + 1),
             ~(m = PeerDisconnected(q) /\ IdOf[c] \in Range(list))
      PROVE  Greets(outbox', greeted[c], IdOf[c], q, n)
  <2>1. len + 1 \in Nat /\ n \in Nat /\ len + 1 <= n /\ (len + 1) - 1 = len
    BY <1>1
  <2>2. \A i \in 1 .. (len + 1) - 1 : outbox'[i] = outbox[i]
    BY <1>1, <2>1
  <2>3. \A i \in len + 1 .. n - 1 : outbox'[i] # Bye(IdOf[c], q)
    <3>1. \A i \in len + 1 .. n - 1 : i \in len + 1 .. Len(outbox')
      BY <1>1
    <3> QED
      BY <1>6, <1>7, <3>1
  <2> QED
    BY <1>7, <2>1, <2>2, <2>3, GreetsSkips
\* When the first round is made the members have greeted whom they should.
<1>8. ASSUME NEW c \in Conn, Receives(c)', NEW q \in Behind(list, IdOf[c]),
             NEW n \in len + size + 1 .. Len(outbox') + 1
      PROVE  Greets(outbox', greeted[c], IdOf[c], q, n)
  <2>1. CASE q = p /\ m = PeerConnected(p)
    <3>1. PICK k \in 1 .. size : list[k] = IdOf[c]
      BY <1>1, <1>4, <1>8, BehindMembers
    <3>2. outbox'[len + k] = Hello(IdOf[c], q)
      BY <1>1, <2>1, <3>1 DEF Hello
    <3>3. len + k \in 1 .. n - 1
      BY <1>1, <3>1
    <3>4. \A j \in len + k + 1 .. n - 1 : outbox'[j] # Bye(IdOf[c], q)
      <4>1. \A j \in len + k + 1 .. n - 1 : j \in len + 1 .. Len(outbox')
        BY <1>1
      <4> QED
        BY <1>3, <1>6, <2>1, <4>1
    <3> QED
      BY <3>2, <3>3, <3>4 DEF Greets
  <2>2. CASE q \in Behind(rooms[r0], IdOf[c]) /\ (m = PeerDisconnected(p) => q # p)
    <3>1. Greets(outbox, greeted[c], IdOf[c], q, len + 1)
      BY <1>0, <1>2, <1>8, <2>2 DEF MembersGreeted, len
    <3>2. m # PeerDisconnected(q)
      BY <1>3, <2>2
    <3>3. n \in len + 1 .. Len(outbox') + 1
      BY <1>1
    <3> QED
      BY <1>7, <3>1, <3>2, <3>3
  <2> QED
    BY <1>5, <1>8, <2>1, <2>2
<1>9. ASSUME NEW c \in Conn, NEW r \in RoomId, Receives(c)', r \in DOMAIN rooms',
             NEW q \in Behind(rooms'[r], IdOf[c])
      PROVE  Greets(outbox', greeted'[c], IdOf[c], q, Len(outbox') + 1)
  <2>1. Len(outbox') + 1 \in len + size + 1 .. Len(outbox') + 1
    BY <1>1
  <2>2. CASE r = r0
    <3>1. q \in Behind(list, IdOf[c])
      BY <1>5, <1>9, <2>2 DEF ListOf
    <3> QED
      BY <1>2, <1>8, <1>9, <2>1, <3>1
  <2>3. CASE r # r0
    <3>1. r \in DOMAIN rooms /\ rooms'[r] = rooms[r] /\ rooms[r] \in Seq(Participant)
      BY <1>9, <2>3 DEF TypeInv, TypeOK
    <3>2. IdOf[c] \in MembersOf(rooms', r)
      BY <1>9, <3>1, BehindMembers DEF MembersOf, ListOf
    <3>3. IdOf[c] \notin Range(list)
      BY <1>5, <2>3, <3>2 DEF OneRoomEach, MembersOf
    <3>4. Greets(outbox, greeted[c], IdOf[c], q, len + 1)
      BY <1>2, <1>9, <3>1 DEF MembersGreeted, len
    <3>5. Len(outbox') + 1 \in len + 1 .. Len(outbox') + 1
      BY <1>1
    <3> QED
      BY <1>2, <1>7, <3>3, <3>4, <3>5
  <2> QED
    BY <2>2, <2>3
<1>10. ASSUME NEW c \in Conn, NEW i \in DOMAIN outbox', Receives(c)',
              outbox'[i].msg.kind = "RoomParticipants", outbox'[i].dest = IdOf[c],
              NEW q \in Behind(outbox'[i].msg.list, IdOf[c])
       PROVE  Greets(outbox', greeted'[c], IdOf[c], q, i)
  <2>1. CASE i \in 1 .. len
    <3>1. outbox'[i] = outbox[i] /\ i \in DOMAIN outbox /\ i \in Nat
      BY <1>1, <2>1
    <3>2. Greets(outbox, greeted[c], IdOf[c], q, i)
      BY <1>2, <1>10, <3>1 DEF ListsGreeted
    <3>3. /\ \A j \in 1 .. i - 1 : outbox'[j] = outbox[j]
          /\ \A j \in i .. i - 1 : outbox'[j] # Bye(IdOf[c], q)
      BY <1>1, <2>1
    <3> QED
      BY <1>2, <3>1, <3>2, <3>3, GreetsSkips
  <2>2. CASE i \in len + 1 .. Len(outbox')
    <3>1. PICK k \in 1 .. size : i = len + k \/ i = len + size + k
      BY <1>1, <2>2
    <3>2. i = len + size + k /\ outbox'[i] = SendTo(list[k], news)
      BY <1>1, <1>3, <1>10, <3>1
    <3>3. q \in Behind(list, IdOf[c])
      BY <1>3, <1>10, <3>2
    <3>4. i \in len + size + 1 .. Len(outbox') + 1
      BY <1>1, <3>1, <3>2
    <3> QED
      BY <1>2, <1>8, <1>10, <3>3, <3>4
  <2> QED
    BY <1>1, <2>1, <2>2
<1>11. MembersGreeted'
  BY <1>9 DEF MembersGreeted
<1>12. ListsGreeted'
  BY <1>10 DEF ListsGreeted
<1> QED
  BY <1>11, <1>12

\* A send that neither lists nor announces, and rooms with nobody behind.
LEMMA AppendGreeted ==
  ASSUME TypeInv, MembersGreeted, ListsGreeted,
         NEW t \in Task, outbox' = Append(outbox, t),
         t.msg.kind \notin {"PeerDisconnected", "RoomParticipants"},
         \A x \in DOMAIN rooms' :
           \/ x \in DOMAIN rooms /\ rooms'[x] = rooms[x]
           \/ \A y : Behind(rooms'[x], y) = {},
         NobodyNew, UNCHANGED client
  PROVE  MembersGreeted' /\ ListsGreeted'
<1> DEFINE len == Len(outbox)
<1>1. /\ len \in Nat /\ DOMAIN outbox = 1 .. len /\ DOMAIN outbox' = 1 .. len + 1
      /\ Len(outbox') = len + 1
      /\ \A i \in 1 .. len : outbox'[i] = outbox[i]
      /\ outbox'[len + 1] = t
  BY AppendPlaces, LenProperties
<1>2. greeted' = greeted /\ \A c \in Conn : Receives(c)' => Receives(c)
  BY DEF NobodyNew, client
<1>3. \A y, q : t # Bye(y, q)
  BY DEF Bye, SendTo, PeerDisconnected
<1> HIDE DEF len
<1>4. ASSUME NEW c \in Conn, NEW r \in RoomId, Receives(c)', r \in DOMAIN rooms',
             NEW q \in Behind(rooms'[r], IdOf[c])
      PROVE  Greets(outbox', greeted'[c], IdOf[c], q, Len(outbox') + 1)
  <2>1. r \in DOMAIN rooms /\ rooms'[r] = rooms[r]
    BY <1>4
  <2>2. Greets(outbox, greeted[c], IdOf[c], q, len + 1)
    BY <1>2, <1>4, <2>1 DEF MembersGreeted, len
  <2>3. len + 1 \in Nat /\ \A i \in 1 .. (len + 1) - 1 : outbox'[i] = outbox[i]
    BY <1>1
  <2>4. outbox'[len + 1] # Bye(IdOf[c], q)
    BY <1>1, <1>3
  <2>5. Greets(outbox', greeted[c], IdOf[c], q, (len + 1) + 1)
    BY <2>2, <2>3, <2>4, GreetsAppended
  <2> QED
    BY <1>1, <1>2, <2>5
<1>5. ASSUME NEW c \in Conn, NEW i \in DOMAIN outbox', Receives(c)',
             outbox'[i].msg.kind = "RoomParticipants", outbox'[i].dest = IdOf[c],
             NEW q \in Behind(outbox'[i].msg.list, IdOf[c])
      PROVE  Greets(outbox', greeted'[c], IdOf[c], q, i)
  <2>1. i \in 1 .. len
    BY <1>1, <1>5
  <2>2. outbox'[i] = outbox[i] /\ i \in DOMAIN outbox /\ i \in Nat
    BY <1>1, <2>1
  <2>3. Greets(outbox, greeted[c], IdOf[c], q, i)
    BY <1>2, <1>5, <2>2 DEF ListsGreeted
  <2>4. \A j \in 1 .. i - 1 : outbox'[j] = outbox[j]
    BY <1>1, <2>1
  <2>5. Greets(outbox', greeted[c], IdOf[c], q, i)
    BY <2>2, <2>3, <2>4, GreetsSame
  <2> QED
    BY <1>2, <2>5
<1>6. MembersGreeted'
  BY <1>4 DEF MembersGreeted
<1>7. ListsGreeted'
  BY <1>5 DEF ListsGreeted
<1> QED
  BY <1>6, <1>7

\* What a delivery is for the greetings of a client that goes on receiving.
LEMMA DeliveryGreets ==
  ASSUME UniqueIds, TypeInv, Registry, Lane, NEW i \in DOMAIN outbox, Deliver(i),
         NEW c \in Conn, Receives(c)', NEW q
  PROVE  /\ Receives(c)
         /\ outbox[i] = Hello(IdOf[c], q) => q \in greeted'[c]
         /\ outbox[i] # Bye(IdOf[c], q) /\ q \in greeted[c] => q \in greeted'[c]
<1> USE ConnAssumption
<1> DEFINE t == outbox[i]
<1>1. /\ UNCHANGED server
      /\ \/ \E d \in Reached(t) : Receives(d) /\ Receive(d, t.msg)
         \/ (\A d \in Reached(t) : ~Receives(d)) /\ UNCHANGED client
  BY DEF Deliver
<1>2. /\ t \in Task /\ t.msg \in Message
      /\ t.via = "sink" <=> t.msg.kind = "RoomCreated"
      /\ greeted \in [Conn -> SUBSET Participant]
      /\ peers \in [DOMAIN peers -> Conn]
  BY TaskFields DEF TypeInv, TypeOK, Lane
<1>3. phase'[c] = "open" /\ phase[c] = "open" /\ c \notin shut /\ Receives(c)
  BY <1>1 DEF Receives, Receive, server, client
<1>4. Reached(t) \subseteq Conn
  BY <1>2, ReachedConn
<1>5. IdOf[c] \in DOMAIN peers /\ peers[IdOf[c]] = c
  BY <1>2, <1>3 DEF Registry, UniqueIds
<1>6. /\ Hello(IdOf[c], q).msg.kind = "PeerConnected" /\ Hello(IdOf[c], q).msg.who = q
      /\ Hello(IdOf[c], q).via = "peers" /\ Hello(IdOf[c], q).dest = IdOf[c]
  BY DEF Hello, SendTo, PeerConnected
<1>7. CASE c \in Reached(t)
  <2>1. Reached(t) = {c} /\ (t.via = "peers" => t.dest = IdOf[c])
    <3>1. CASE t.via = "sink"
      BY <1>7, <3>1 DEF Reached
    <3>2. CASE t.via # "sink"
      BY <1>2, <1>5, <1>7, <3>2 DEF Reached, Registry
    <3> QED
      BY <3>1, <3>2
  <2>2. Receive(c, t.msg)
    BY <1>1, <1>3, <2>1
  <2>3. CASE t.msg.kind = "PeerConnected"
    <3>1. greeted' = [greeted EXCEPT ![c] = @ \cup {t.msg.who}]
      BY <2>2, <2>3 DEF Receive
    <3> QED
      BY <1>2, <1>3, <1>6, <3>1
  <2>4. CASE t.msg.kind = "PeerDisconnected"
    <3>1. greeted' = [greeted EXCEPT ![c] = @ \ {t.msg.who}]
      BY <2>2, <2>4 DEF Receive
    <3>2. t = Bye(IdOf[c], t.msg.who)
      <4>1. t.via = "peers" /\ t.dest = IdOf[c] /\ t = SendTo(IdOf[c], t.msg)
        BY <1>2, <2>1, <2>4 DEF Task, SendTo
      <4>2. t.msg = PeerDisconnected(t.msg.who)
        BY <1>2, <2>4 DEF Message, PeerDisconnected
      <4> QED
        BY <4>1, <4>2 DEF Bye
    <3> QED
      BY <1>2, <1>3, <1>6, <2>4, <3>1, <3>2
  <2>5. CASE t.msg.kind \notin {"PeerConnected", "PeerDisconnected"}
    <3>1. greeted' = greeted
      BY <2>2, <2>5 DEF Receive, client
    <3> QED
      BY <1>3, <1>6, <2>5, <3>1
  <2> QED
    BY <2>3, <2>4, <2>5
<1>8. CASE c \notin Reached(t)
  <2>1. t # Hello(IdOf[c], q)
    BY <1>5, <1>6, <1>8 DEF Reached
  <2>2. greeted'[c] = greeted[c]
    BY <1>1, <1>2, <1>4, <1>8 DEF Receive, client
  <2> QED
    BY <1>3, <2>1, <2>2
<1> QED
  BY <1>7, <1>8

LEMMA DeliveryGreeted ==
  ASSUME UniqueIds, TypeInv, Registry, Lane, MembersGreeted, ListsGreeted,
         NEW i0 \in DOMAIN outbox, Deliver(i0)
  PROVE  MembersGreeted' /\ ListsGreeted'
<1> DEFINE len == Len(outbox)
<1>1. /\ outbox \in Seq(Task) /\ len \in Nat /\ Len(outbox') = len - 1
      /\ DOMAIN outbox = 1 .. len /\ DOMAIN outbox' = 1 .. len - 1
      /\ i0 \in 1 .. len
      /\ \A j \in 1 .. len - 1 : outbox'[j] = IF j < i0 THEN outbox[j] ELSE outbox[j + 1]
  BY DeliverPlaces, LenProperties
<1>2. rooms' = rooms /\ Runnable(i0)
  BY DEF Deliver, server
<1> HIDE DEF len
<1>3. \A p, q : Hello(p, q).via = "peers" /\ Bye(p, q).via = "peers"
  BY DEF Hello, Bye, SendTo
<1>4. ASSUME NEW c \in Conn, Receives(c)', NEW q,
             NEW n \in i0 + 1 .. len + 1,
             Greets(outbox, greeted[c], IdOf[c], q, n)
      PROVE  Greets(outbox', greeted'[c], IdOf[c], q, n - 1)
  <2>1. /\ outbox[i0] = Hello(IdOf[c], q) => q \in greeted'[c]
        /\ outbox[i0] # Bye(IdOf[c], q) /\ q \in greeted[c] => q \in greeted'[c]
    BY <1>4, DeliveryGreets
  <2>2. outbox[i0] = Hello(IdOf[c], q) => \A j \in 1 .. i0 - 1 : outbox[j] # Bye(IdOf[c], q)
    BY <1>2, <1>3 DEF Runnable
  <2> QED
    BY <1>1, <1>4, <2>1, <2>2, GreetsRemoved
<1>5. ASSUME NEW c \in Conn, NEW r \in RoomId, Receives(c)', r \in DOMAIN rooms',
             NEW q \in Behind(rooms'[r], IdOf[c])
      PROVE  Greets(outbox', greeted'[c], IdOf[c], q, Len(outbox') + 1)
  <2>1. Receives(c)
    BY <1>5, DeliveryGreets
  <2>2. Greets(outbox, greeted[c], IdOf[c], q, len + 1)
    BY <1>2, <1>5, <2>1 DEF MembersGreeted, len
  <2>3. len + 1 \in i0 + 1 .. len + 1 /\ (len + 1) - 1 = Len(outbox') + 1
    BY <1>1
  <2> QED
    BY <1>4, <1>5, <2>2, <2>3
<1>6. ASSUME NEW c \in Conn, NEW i \in DOMAIN outbox', Receives(c)',
             outbox'[i].msg.kind = "RoomParticipants", outbox'[i].dest = IdOf[c],
             NEW q \in Behind(outbox'[i].msg.list, IdOf[c])
      PROVE  Greets(outbox', greeted'[c], IdOf[c], q, i)
  <2>1. Receives(c)
    BY <1>6, DeliveryGreets
  <2>2. CASE i < i0
    <3>1. /\ outbox'[i] = outbox[i] /\ i \in DOMAIN outbox /\ i \in 1 .. i0 - 1
          /\ \A j \in 1 .. i - 1 : outbox'[j] = outbox[j]
      BY <1>1, <2>2
    <3>2. Greets(outbox, greeted[c], IdOf[c], q, i)
      BY <1>6, <2>1, <3>1 DEF ListsGreeted
    <3>3. outbox[i].via = "peers"
      <4>1. outbox[i] \in Task
        BY <1>1, <3>1
      <4> QED
        BY <1>6, <3>1, <4>1 DEF Lane, Task
    <3>4. outbox[i0] # Bye(IdOf[c], q)
      BY <1>2, <1>3, <3>1, <3>3 DEF Runnable
    <3>5. q \in greeted[c] => q \in greeted'[c]
      BY <1>6, <3>4, DeliveryGreets
    <3>6. Greets(outbox, greeted'[c], IdOf[c], q, i)
      BY <3>2, <3>5 DEF Greets
    <3>7. i \in Nat /\ \A j \in i .. i - 1 : outbox'[j] # Bye(IdOf[c], q)
      BY <1>1
    <3> QED
      BY <3>1, <3>6, <3>7, GreetsSkips
  <2>3. CASE ~(i < i0)
    <3>1. outbox'[i] = outbox[i + 1] /\ i + 1 \in DOMAIN outbox
      BY <1>1, <2>3
    <3>2. Greets(outbox, greeted[c], IdOf[c], q, i + 1)
      BY <1>6, <2>1, <3>1 DEF ListsGreeted
    <3>3. i + 1 \in i0 + 1 .. len + 1 /\ (i + 1) - 1 = i
      <4>1. i \in 1 .. len - 1 /\ len \in Nat /\ i0 \in 1 .. len
        BY <1>1
      <4> QED
        BY <2>3, <4>1
    <3> QED
      BY <1>4, <1>6, <3>2, <3>3
  <2> QED
    BY <2>2, <2>3
<1>7. MembersGreeted'
  BY <1>5 DEF MembersGreeted
<1>8. ListsGreeted'
  BY <1>6 DEF ListsGreeted
<1> QED
  BY <1>7, <1>8

LEMMA QuietGreeted ==
  ASSUME TypeInv, Lane, Absent, MembersGreeted, ListsGreeted, Quiet
  PROVE  MembersGreeted' /\ ListsGreeted'
<1>1. /\ rooms' = rooms /\ outbox' = outbox
      /\ \A c \in Conn : Receives(c)' =>
           (Receives(c) /\ greeted'[c] = greeted[c]) \/ phase[c] = "idle"
  BY DEF Quiet
<1>2. ASSUME NEW c \in Conn, NEW i \in DOMAIN outbox,
             outbox[i].msg.kind = "RoomParticipants", outbox[i].dest = IdOf[c]
      PROVE  phase[c] # "idle"
  <2>1. outbox[i] \in Task
    BY DEF TypeInv, TypeOK
  <2>2. outbox[i].via = "peers"
    BY <1>2, <2>1 DEF Lane, Task
  <2> QED
    BY <1>2, <2>2 DEF Absent
<1>3. ASSUME NEW c \in Conn, NEW r \in DOMAIN rooms, phase[c] = "idle"
      PROVE  Behind(rooms[r], IdOf[c]) = {}
  <2>1. rooms[r] \in Seq(Participant) /\ IdOf[c] \notin Range(rooms[r])
    BY <1>3 DEF TypeInv, TypeOK, Absent, MembersOf, ListOf
  <2> QED
    BY <2>1, BehindMembers
<1>4. MembersGreeted'
  BY <1>1, <1>3 DEF MembersGreeted
<1>5. ListsGreeted'
  BY <1>1, <1>2 DEF ListsGreeted
<1> QED
  BY <1>4, <1>5
-----------------------------------------------------------------------------
Greeting == News /\ Attached /\ OneRoomEach /\ MembersGreeted /\ ListsGreeted

LEMMA GreetingStep ==
  ASSUME UniqueIds, LeavesFirst, Greeting, [Next]_vars
  PROVE  Greeting'
<1> USE ConnAssumption DEF Greeting
<1>1. News' /\ Attached' /\ OneRoomEach'
  BY NewsStep, AttachedStep, OneRoomStep DEF News
<1>2. TypeInv /\ Registry /\ Lane /\ Absent /\ TypeOK
  BY DEF News, TypeInv
<1>3. rooms \in [DOMAIN rooms -> Seq(Participant)]
  BY <1>2 DEF TypeOK
<1>4. ASSUME NEW c \in Conn, NEW r \in RoomId, Creates(c, r)
      PROVE  MembersGreeted' /\ ListsGreeted'
  <2> DEFINE t == Direct(c, RoomCreated(r))
  <2>1. t \in Task /\ t.msg.kind = "RoomCreated"
    BY Messages, DirectTask DEF Direct, RoomCreated, Message
  <2>2. \A x \in DOMAIN rooms' :
          \/ x \in DOMAIN rooms /\ rooms'[x] = rooms[x]
          \/ rooms'[x] = <<IdOf[c]>>
    BY <1>4 DEF Creates, Created
  <2>3. \A x \in DOMAIN rooms' :
          \/ x \in DOMAIN rooms /\ rooms'[x] = rooms[x]
          \/ \A y : Behind(rooms'[x], y) = {}
    BY <2>2, BehindSingle
  <2>4. outbox' = Append(outbox, t) /\ NobodyNew /\ UNCHANGED client
    BY <1>4 DEF Creates
  <2> HIDE DEF t
  <2> QED
    BY <1>2, <2>1, <2>3, <2>4, AppendGreeted
<1>5. ASSUME NEW c \in Conn, NEW r \in RoomId, Arrives(c, r)
      PROVE  MembersGreeted' /\ ListsGreeted'
  <2>1. r \in DOMAIN rooms /\ rooms' = Joined(rooms, r, IdOf[c]) /\ NobodyNew /\ UNCHANGED client
    BY <1>5 DEF Arrives, Arrive
  <2>2. Broadcasts(r, PeerConnected(IdOf[c]))
    BY <1>2, <1>5, ArrivalBroadcasts
  <2>3. \A x \in DOMAIN rooms' \ {r} : x \in DOMAIN rooms /\ rooms'[x] = rooms[x]
    BY <1>2, <1>5, ArrivalBroadcasts
  <2>4. ListOf(rooms', r) = Joined(rooms, r, IdOf[c])[r]
    BY <2>1 DEF ListOf, Joined
  <2>5. ASSUME NEW x, NEW q \in Behind(ListOf(rooms', r), x)
        PROVE  q = IdOf[c] \/ q \in Behind(rooms[r], x)
    BY <1>3, <2>1, <2>4, <2>5, BehindJoined
  <2>6. PeerConnected(IdOf[c]) # PeerDisconnected(IdOf[c])
    BY DEF PeerConnected, PeerDisconnected
  <2> QED
    BY <1>1, <1>2, <2>1, <2>2, <2>3, <2>5, <2>6, BroadcastGreeted
<1>6. ASSUME NEW c \in Conn, NEW r \in RoomId, Departs(c, r)
      PROVE  MembersGreeted' /\ ListsGreeted'
  <2>1. r \in DOMAIN rooms /\ rooms' = Left(rooms, r, IdOf[c]) /\ NobodyNew /\ UNCHANGED client
    BY <1>6 DEF Departs, Depart
  <2>2. Broadcasts(r, PeerDisconnected(IdOf[c]))
    BY <1>2, <1>6, DepartureBroadcasts
  <2>3. \A x \in DOMAIN rooms' \ {r} : x \in DOMAIN rooms /\ rooms'[x] = rooms[x]
    BY <1>2, <1>6, DepartureBroadcasts
  <2>4. ASSUME NEW x, NEW q \in Behind(ListOf(rooms', r), x)
        PROVE  q \in Behind(rooms[r], x) /\ q # IdOf[c]
    BY <1>3, <2>1, <2>4, BehindLeft
  <2> QED
    BY <1>1, <1>2, <2>1, <2>2, <2>3, <2>4, BroadcastGreeted
<1>7. ASSUME NEW c \in Conn, NEW to \in Participant, Relays(c, to)
      PROVE  MembersGreeted' /\ ListsGreeted'
  <2> DEFINE t == SendTo(to, Relay(IdOf[c], roomOf[c]))
  <2>1. t \in Task /\ t.msg.kind = "Relay"
    <3>1. Relay(IdOf[c], roomOf[c]) \in Message
      BY <1>7 DEF Relays, Relay, Message
    <3> QED
      BY <3>1, SendTask DEF SendTo, Relay
  <2>2. outbox' = Append(outbox, t) /\ rooms' = rooms /\ NobodyNew /\ UNCHANGED client
    BY <1>7 DEF Relays
  <2> HIDE DEF t
  <2> QED
    BY <1>2, <2>1, <2>2, AppendGreeted
<1>8. ASSUME NEW i \in DOMAIN outbox, Deliver(i)
      PROVE  MembersGreeted' /\ ListsGreeted'
  BY <1>2, <1>8, DeliveryGreeted
<1>9. ASSUME Quiet
      PROVE  MembersGreeted' /\ ListsGreeted'
  BY <1>2, <1>9, QuietGreeted
<1>10. MembersGreeted' /\ ListsGreeted'
  BY <1>2, <1>4, <1>5, <1>6, <1>7, <1>8, <1>9, StepKinds
<1> QED
  BY <1>1, <1>10

LEMMA GreetingInvariant == UniqueIds /\ LeavesFirst => (Spec => []Greeting)
<1> SUFFICES ASSUME UniqueIds, LeavesFirst PROVE Spec => []Greeting
  OBVIOUS
<1>1. Init => OneRoomEach /\ MembersGreeted /\ ListsGreeted
  BY DEF Init, NoRooms, OneRoomEach, MembersGreeted, ListsGreeted, MembersOf, ListOf, Range
<1>2. Greeting /\ [Next]_vars => Greeting'
  BY GreetingStep
<1>3. News /\ Attached /\ OneRoomEach /\ MembersGreeted /\ ListsGreeted => Greeting
  BY DEF Greeting
<1>4. Spec => []News
  BY NewsInvariant
<1>5. Spec => []Attached
  BY AttachedInvariant, PTL
<1> QED
  BY <1>1, <1>2, <1>3, <1>4, <1>5, PTL DEF Spec

\* A list a client holds is forgotten when it goes, or replaced by a delivery.
LEMMA RosterSteps ==
  ASSUME [Next]_vars
  PROVE  \/ UNCHANGED roster
         \/ \E c \in Conn : roster' = [roster EXCEPT ![c] = [r \in RoomId |-> <<>>]]
         \/ \E i \in DOMAIN outbox : Deliver(i)
<1>1. ASSUME NEW c \in Conn, Speak(c)
      PROVE  UNCHANGED roster
  BY <1>1 DEF Speak, DropText, BadText, CreateRoom, JoinRoom, LeaveRoom, Signal, Answer, client
<1>2. ASSUME NEW c \in Conn, Accept(c) \/ GraceElapsed(c) \/ Deregister(c)
      PROVE  UNCHANGED roster
  BY <1>2 DEF Accept, GraceElapsed, Deregister, client
<1>3. ASSUME NEW c \in Conn, NormalClose(c) \/ AbnormalClose(c) \/ BinaryFrame(c)
      PROVE  roster' = [roster EXCEPT ![c] = [r \in RoomId |-> <<>>]]
  BY <1>3 DEF NormalClose, AbnormalClose, BinaryFrame, Ends
<1> QED
  BY <1>1, <1>2, <1>3 DEF Next, DeliverDirect, DeliverBroadcast, vars, client

(***************************************************************************)
(* A list names nobody behind its reader of whom the reader has not been   *)
(* told by a PeerConnected: whatever the number of members that come and   *)
(* go, the two rounds of sends that a join makes stay in order.            *)
(***************************************************************************)
THEOREM EventsPrecedeLists ==
  UniqueIds /\ LeavesFirst => (Spec => GreetedBeforeListed)
<1> SUFFICES ASSUME UniqueIds, LeavesFirst PROVE Spec => GreetedBeforeListed
  OBVIOUS
<1> USE ConnAssumption
<1>1. ASSUME Greeting, [Next]_vars, NEW c \in Conn, NEW r \in RoomId,
             roster'[c][r] # roster[c][r]
      PROVE  Behind(roster'[c][r], IdOf[c]) \subseteq greeted[c]
  <2>1. /\ TypeInv /\ Registry /\ Lane /\ ListsGreeted
        /\ roster \in [Conn -> [RoomId -> Seq(Participant)]]
    BY <1>1 DEF Greeting, News, TypeInv, TypeOK
  <2>2. ASSUME NEW d \in Conn, roster' = [roster EXCEPT ![d] = [x \in RoomId |-> <<>>]]
        PROVE  Behind(roster'[c][r], IdOf[c]) \subseteq greeted[c]
    <3>1. roster'[c][r] = <<>>
      BY <1>1, <2>1, <2>2
    <3> QED
      BY <3>1, BehindSingle
  <2>3. ASSUME NEW i \in DOMAIN outbox, Deliver(i)
        PROVE  Behind(roster'[c][r], IdOf[c]) \subseteq greeted[c]
    <3> DEFINE t == outbox[i]
    <3>1. PICK d \in Reached(t) : Receives(d) /\ Receive(d, t.msg)
      BY <1>1, <2>3 DEF Deliver, client
    <3>2. t \in Task /\ t.msg \in Message /\ d \in Conn
      BY <2>1, <3>1, ReachedConn, TaskFields DEF TypeInv, TypeOK
    <3>3. d = c
      BY <1>1, <2>1, <3>1, <3>2 DEF Receive, client
    <3>4. CASE t.msg.kind = "RoomCreated"
      <4>1. roster' = [roster EXCEPT ![c][t.msg.room] = <<IdOf[c]>>]
        BY <3>1, <3>3, <3>4 DEF Receive
      <4>2. roster'[c][r] = <<IdOf[c]>>
        BY <1>1, <2>1, <4>1
      <4> QED
        BY <4>2, BehindSingle
    <3>5. CASE t.msg.kind = "RoomParticipants"
      <4>1. roster' = [roster EXCEPT ![c][t.msg.room] = t.msg.list]
        BY <3>1, <3>3, <3>5 DEF Receive
      <4>2. roster'[c][r] = t.msg.list
        BY <1>1, <2>1, <4>1
      <4>3. t.via = "peers"
        BY <2>1, <3>2, <3>5 DEF Lane, Task
      <4>4. t.dest = IdOf[c]
        BY <2>1, <3>1, <3>3, <4>3 DEF Reached, Registry
      <4>5. ASSUME NEW q \in Behind(t.msg.list, IdOf[c])
            PROVE  q \in greeted[c]
        <5>1. Greets(outbox, greeted[c], IdOf[c], q, i)
          BY <2>1, <3>1, <3>3, <3>5, <4>4, <4>5 DEF ListsGreeted
        <5>2. \A j \in 1 .. i - 1 : outbox[j].via # "peers"
          BY <2>3, <4>3 DEF Deliver, Runnable
        <5>3. Hello(IdOf[c], q).via = "peers"
          BY DEF Hello, SendTo
        <5> QED
          BY <5>1, <5>2, <5>3 DEF Greets
      <4> QED
        BY <4>2, <4>5
    <3>6. CASE t.msg.kind \notin {"RoomCreated", "RoomParticipants"}
      BY <1>1, <3>1, <3>6 DEF Receive, client
    <3> QED
      BY <3>4, <3>5, <3>6
  <2> QED
    BY <1>1, <2>2, <2>3, RosterSteps
<1>2. Greeting /\ [Next]_vars =>
        [\A c \in Conn, r \in RoomId :
           roster'[c][r] # roster[c][r] =>
             Behind(roster'[c][r], IdOf[c]) \subseteq greeted[c]]_vars
  BY <1>1
<1> QED
  BY <1>2, GreetingInvariant, PTL DEF Spec, GreetedBeforeListed
=============================================================================
