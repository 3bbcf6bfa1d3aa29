------------------------- MODULE WsDelivery_proofs -------------------------
(***************************************************************************)
(* The locks of the WebSocket server, for any number of connections and    *)
(* sends: types and turns in the queues, and the order in which sends end. *)
(***************************************************************************)
EXTENDS WsDelivery, SequenceTheorems, TLAPS

\* An x comes before a y in q.
Precedes(q, x, y) == \E i, j \in DOMAIN q : i < j /\ q[i] = x /\ q[j] = y

LEMMA InRange ==
  ASSUME NEW S, NEW q \in Seq(S)
  PROVE  /\ DOMAIN q = 1 .. Len(q) /\ Len(q) \in Nat
         /\ Range(q) \subseteq S
         /\ \A i \in 1 .. Len(q) : q[i] \in Range(q)
         /\ \A x \in Range(q) : \E i \in 1 .. Len(q) : q[i] = x
         /\ \A x, y : Precedes(q, x, y) => x \in Range(q) /\ y \in Range(q)
BY LenProperties DEF Range, Precedes

\* The first of a queue has its turn.
LEMMA Served ==
  ASSUME NEW S, NEW q \in Seq(S), q # <<>>
  PROVE  /\ Head(q) \in S /\ Head(q) \in Range(q)
         /\ Tail(q) \in Seq(S)
         /\ Range(q) = Range(Tail(q)) \cup {Head(q)}
         /\ \A y \in Range(Tail(q)) : Precedes(q, Head(q), y)
         /\ \A x, y : Precedes(Tail(q), x, y) => Precedes(q, x, y)
<1> DEFINE rest == Tail(q)
<1>1. /\ rest \in Seq(S) /\ Len(rest) = Len(q) - 1 /\ Head(q) \in S
      /\ \A i \in 1 .. Len(rest) : rest[i] = q[i + 1]
  BY HeadTailProperties
<1>2. /\ DOMAIN q = 1 .. Len(q) /\ Len(q) \in Nat /\ Len(q) # 0
      /\ DOMAIN rest = 1 .. Len(q) - 1
  BY <1>1, LenProperties, EmptySeq
<1>3. Head(q) = q[1] /\ 1 \in DOMAIN q
  BY <1>2
<1> HIDE DEF rest
<1>4. \A i \in DOMAIN rest : i + 1 \in DOMAIN q /\ 1 < i + 1 /\ rest[i] = q[i + 1]
  BY <1>1, <1>2
<1>5. \A i \in DOMAIN q : i # 1 => i - 1 \in DOMAIN rest /\ rest[i - 1] = q[i]
  <2> TAKE i \in DOMAIN q
  <2> HAVE i # 1
  <2>1. i - 1 \in DOMAIN rest /\ (i - 1) + 1 = i
    BY <1>2
  <2> QED
    BY <1>4, <2>1
<1>6. Range(q) = Range(rest) \cup {Head(q)}
  BY <1>3, <1>4, <1>5 DEF Range
<1>7. \A y \in Range(rest) : Precedes(q, Head(q), y)
  BY <1>3, <1>4 DEF Range, Precedes
<1>8. ASSUME NEW x, NEW y, Precedes(rest, x, y)
      PROVE  Precedes(q, x, y)
  <2>1. PICK i \in DOMAIN rest, j \in DOMAIN rest : i < j /\ rest[i] = x /\ rest[j] = y
    BY <1>8 DEF Precedes
  <2>2. i + 1 < j + 1
    BY <1>2, <2>1
  <2> QED
    BY <1>4, <2>1, <2>2 DEF Precedes
<1> QED
  BY <1>1, <1>6, <1>7, <1>8 DEF rest

\* One after another: q, then s.
LEMMA Joined ==
  ASSUME NEW S, NEW q \in Seq(S), NEW s \in Seq(S)
  PROVE  /\ q \o s \in Seq(S)
         /\ Range(q \o s) = Range(q) \cup Range(s)
         /\ \A x, y : Precedes(q \o s, x, y) =>
              \/ Precedes(q, x, y) \/ Precedes(s, x, y)
              \/ x \in Range(q) /\ y \in Range(s)
<1> DEFINE both == q \o s
<1>1. /\ both \in Seq(S) /\ Len(both) = Len(q) + Len(s)
      /\ \A i \in 1 .. Len(q) + Len(s) : both[i] = IF i <= Len(q) THEN q[i] ELSE s[i - Len(q)]
  BY ConcatProperties
<1>2. /\ DOMAIN q = 1 .. Len(q) /\ Len(q) \in Nat
      /\ DOMAIN s = 1 .. Len(s) /\ Len(s) \in Nat
      /\ DOMAIN both = 1 .. Len(q) + Len(s)
  BY <1>1, LenProperties
<1> HIDE DEF both
<1>3. \A i \in DOMAIN both :
        \/ i \in DOMAIN q /\ both[i] = q[i]
        \/ i - Len(q) \in DOMAIN s /\ both[i] = s[i - Len(q)] /\ i > Len(q)
  BY <1>1, <1>2
<1>4. \A i \in DOMAIN q : i \in DOMAIN both /\ both[i] = q[i]
  BY <1>1, <1>2
<1>5. \A i \in DOMAIN s : i + Len(q) \in DOMAIN both /\ both[i + Len(q)] = s[i]
  <2> TAKE i \in DOMAIN s
  <2>1. i + Len(q) \in DOMAIN both /\ ~(i + Len(q) <= Len(q)) /\ (i + Len(q)) - Len(q) = i
    BY <1>2
  <2> QED
    BY <1>1, <1>2, <2>1
<1>6. Range(both) = Range(q) \cup Range(s)
  BY <1>3, <1>4, <1>5 DEF Range
<1>7. ASSUME NEW x, NEW y, Precedes(both, x, y)
      PROVE  \/ Precedes(q, x, y) \/ Precedes(s, x, y)
             \/ x \in Range(q) /\ y \in Range(s)
  <2>1. PICK i \in DOMAIN both, j \in DOMAIN both : i < j /\ both[i] = x /\ both[j] = y
    BY <1>7 DEF Precedes
  <2>2. CASE j \in DOMAIN q /\ both[j] = q[j]
    <3>1. i \in DOMAIN q /\ both[i] = q[i]
      BY <1>2, <1>4, <2>1, <2>2
    <3> QED
      BY <2>1, <2>2, <3>1 DEF Precedes
  <2>3. CASE j - Len(q) \in DOMAIN s /\ both[j] = s[j - Len(q)] /\ j > Len(q)
    <3>1. CASE i \in DOMAIN q /\ both[i] = q[i]
      BY <2>1, <2>3, <3>1 DEF Range
    <3>2. CASE i - Len(q) \in DOMAIN s /\ both[i] = s[i - Len(q)] /\ i > Len(q)
      <4>1. i - Len(q) < j - Len(q)
        BY <1>2, <2>1
      <4> QED
        BY <2>1, <2>3, <3>2, <4>1 DEF Precedes
    <3> QED
      BY <1>3, <2>1, <3>1, <3>2
  <2> QED
    BY <1>3, <2>1, <2>2, <2>3
<1> QED
  BY <1>1, <1>6, <1>7 DEF both

\* Someone more at the end of a queue.
LEMMA Queued ==
  ASSUME NEW S, NEW q \in Seq(S), NEW z \in S
  PROVE  /\ Append(q, z) \in Seq(S) /\ Append(q, z) # <<>>
         /\ Range(Append(q, z)) = Range(q) \cup {z}
         /\ Head(Append(q, z)) = IF q = <<>> THEN z ELSE Head(q)
         /\ \A x, y : Precedes(Append(q, z), x, y) =>
              Precedes(q, x, y) \/ (x \in Range(q) /\ y = z)
<1>1. /\ Append(q, z) \in Seq(S) /\ Len(Append(q, z)) = Len(q) + 1
      /\ \A i \in 1 .. Len(q) : Append(q, z)[i] = q[i]
      /\ Append(q, z)[Len(q) + 1] = z
  BY AppendProperties
<1>2. /\ DOMAIN q = 1 .. Len(q) /\ Len(q) \in Nat
      /\ DOMAIN Append(q, z) = 1 .. Len(q) + 1
  BY <1>1, LenProperties
<1>3. Append(q, z) # <<>>
  BY <1>1, <1>2, EmptySeq
<1>4. \A i \in DOMAIN Append(q, z) :
        (i \in DOMAIN q /\ Append(q, z)[i] = q[i]) \/ i = Len(q) + 1
  BY <1>1, <1>2
<1>5. Len(q) + 1 \in DOMAIN Append(q, z) /\ DOMAIN q \subseteq DOMAIN Append(q, z)
  BY <1>2
<1>6. Range(Append(q, z)) = Range(q) \cup {z}
  BY <1>1, <1>2, <1>4, <1>5 DEF Range
<1>7. Head(Append(q, z)) = IF q = <<>> THEN z ELSE Head(q)
  <2>1. Head(Append(q, z)) = Append(q, z)[1]
    BY <1>1, <1>3
  <2>2. CASE q = <<>>
    BY <1>1, <2>1, <2>2, EmptySeq
  <2>3. CASE q # <<>>
    BY <1>1, <1>2, <2>1, <2>3
  <2> QED
    BY <2>2, <2>3
<1>8. ASSUME NEW x, NEW y, Precedes(Append(q, z), x, y)
      PROVE  Precedes(q, x, y) \/ (x \in Range(q) /\ y = z)
  <2>1. PICK i \in DOMAIN Append(q, z), j \in DOMAIN Append(q, z) :
          i < j /\ Append(q, z)[i] = x /\ Append(q, z)[j] = y
    BY <1>8 DEF Precedes
  <2>2. i \in DOMAIN q /\ Append(q, z)[i] = q[i]
    BY <1>1, <1>2, <2>1
  <2> QED
    BY <1>1, <1>4, <2>1, <2>2 DEF Precedes, Range
<1> QED
  BY <1>1, <1>3, <1>6, <1>7, <1>8

\* One is taken out.
LEMMA TakenOut ==
  ASSUME NEW S, NEW s \in Seq(S), NEW i \in DOMAIN s
  PROVE  LET q == SubSeq(s, 1, i - 1) \o SubSeq(s, i + 1, Len(s)) IN
         /\ q \in Seq(S)
         /\ Range(q) \subseteq Range(s)
         /\ \A j \in DOMAIN s : j # i => s[j] \in Range(q)
         /\ \A x, y : Precedes(q, x, y) => Precedes(s, x, y)
         /\ s[i] \in Range(q) => Precedes(s, s[i], s[i])
<1> DEFINE a == SubSeq(s, 1, i - 1)
           b == SubSeq(s, i + 1, Len(s))
           q == a \o b
<1>1. DOMAIN s = 1 .. Len(s) /\ Len(s) \in Nat /\ i \in 1 .. Len(s)
  BY LenProperties
<1>2. /\ a \in Seq(S) /\ Len(a) = i - 1
      /\ \A j \in 1 .. i - 1 : a[j] = s[j]
  BY <1>1
<1>3. /\ b \in Seq(S) /\ Len(b) = Len(s) - i
      /\ \A j \in 1 .. Len(s) - i : b[j] = s[j + i]
  BY <1>1
<1>4. /\ q \in Seq(S) /\ Len(q) = Len(a) + Len(b)
      /\ \A j \in 1 .. Len(a) + Len(b) : q[j] = IF j <= Len(a) THEN a[j] ELSE b[j - Len(a)]
  <2> HIDE DEF a, b
  <2> QED
    BY <1>2, <1>3, ConcatProperties
<1>5. DOMAIN q = 1 .. Len(s) - 1
  <2> HIDE DEF q, a, b
  <2> QED
    BY <1>1, <1>2, <1>3, <1>4, LenProperties
<1> HIDE DEF q, a, b
<1>6. ASSUME NEW j \in DOMAIN q
      PROVE  q[j] = IF j < i THEN s[j] ELSE s[j + 1]
  <2>1. CASE j < i
    BY <1>1, <1>2, <1>3, <1>4, <1>5, <2>1
  <2>2. CASE ~(j < i)
    <3>1. j - (i - 1) \in 1 .. Len(s) - i /\ (j - (i - 1)) + i = j + 1 /\ ~(j <= i - 1)
      BY <1>1, <1>5, <2>2
    <3>2. q[j] = b[j - (i - 1)]
      <4>1. Len(a) = i - 1 /\ j \in 1 .. Len(a) + Len(b)
        BY <1>1, <1>2, <1>3, <1>5
      <4> QED
        BY <1>4, <3>1, <4>1
    <3> DEFINE k == j - (i - 1)
    <3>3. b[k] = s[k + i]
      <4>1. k \in 1 .. Len(s) - i
        BY <3>1
      <4> HIDE DEF k
      <4> QED
        BY <1>3, <4>1
    <3> QED
      BY <2>2, <3>1, <3>2, <3>3
  <2> QED
    BY <2>1, <2>2
<1> DEFINE at == [j \in DOMAIN q |-> IF j < i THEN j ELSE j + 1]
<1>7. /\ \A j \in DOMAIN q : at[j] \in DOMAIN s /\ at[j] # i /\ q[j] = s[at[j]]
      /\ \A j, k \in DOMAIN q : j < k => at[j] < at[k]
  BY <1>1, <1>5, <1>6
<1>8. ASSUME NEW k \in DOMAIN s, k # i
      PROVE  \E j \in DOMAIN q : at[j] = k
  <2>1. CASE k < i
    <3>1. k \in DOMAIN q
      BY <1>1, <1>5, <2>1
    <3> QED
      BY <2>1, <3>1
  <2>2. CASE k > i
    <3>1. k - 1 \in DOMAIN q /\ ~(k - 1 < i) /\ (k - 1) + 1 = k
      BY <1>1, <1>5, <2>2
    <3> QED
      BY <3>1
  <2> QED
    BY <1>1, <1>8, <2>1, <2>2
<1> HIDE DEF at
<1>9. Range(q) \subseteq Range(s) /\ \A j \in DOMAIN s : j # i => s[j] \in Range(q)
  BY <1>7, <1>8 DEF Range
<1>10. \A x, y : Precedes(q, x, y) => Precedes(s, x, y)
  BY <1>7 DEF Precedes
<1>11. ASSUME s[i] \in Range(q)
       PROVE  Precedes(s, s[i], s[i])
  <2>1. PICK j \in DOMAIN q : s[i] = q[j]
    BY <1>11 DEF Range
  <2>2. at[j] < i \/ i < at[j]
    BY <1>1, <1>7
  <2> QED
    BY <1>7, <2>1, <2>2 DEF Precedes
<1> QED
  BY <1>4, <1>9, <1>10, <1>11 DEF q, a, b
-----------------------------------------------------------------------------
(***************************************************************************)
(* Types, and the turns of connections: each queues at most once for a     *)
(* lock, and only while its phase says so.                                 *)
(***************************************************************************)
Waiter == Task \cup Conn

Shape ==
  /\ outbox \in Seq(Task)
  /\ DOMAIN peers \subseteq Participant
  /\ peers \in [DOMAIN peers -> Conn]
  /\ spawned \in Nat
  /\ ready \in Seq(Task)
  /\ mapQueue \in Seq(Waiter)
  /\ sinkQueue \in [Conn -> Seq(Waiter)]
  /\ phase \in [Conn -> Phase]
  /\ missed \in [Conn -> 0 .. MissAllowed + 1]
  /\ link \in [Conn -> Link]

MapTurns ==
  \A c \in Conn :
    /\ c \in Range(mapQueue) <=> phase[c] \in {"inserting", "removing"}
    /\ ~Precedes(mapQueue, c, c)

SinkTurns ==
  \A c \in Conn :
    /\ Range(sinkQueue[c]) \subseteq Task \cup {c}
    /\ c \in Range(sinkQueue[c]) <=> phase[c] \in {"pinging", "ponging", "closing"}
    /\ ~Precedes(sinkQueue[c], c, c)

TypeInv == Shape /\ MapTurns /\ SinkTurns

LEMMA TypeInvIsTyped ==
  ASSUME TypeInv
  PROVE  TypeOK
<1>1. ASSUME NEW c \in Conn
      PROVE  sinkQueue[c] \in Seq(Task \cup {c})
  <2>1. sinkQueue[c] \in Seq(Waiter)
    BY DEF TypeInv, Shape
  <2>2. /\ Len(sinkQueue[c]) \in Nat
        /\ sinkQueue[c] \in [1 .. Len(sinkQueue[c]) -> Waiter]
        /\ \A i \in 1 .. Len(sinkQueue[c]) : sinkQueue[c][i] \in Task \cup {c}
    BY <2>1, InRange, LenProperties DEF TypeInv, SinkTurns
  <2>3. sinkQueue[c] \in [1 .. Len(sinkQueue[c]) -> Task \cup {c}]
    BY <2>2
  <2> QED
    BY <2>2, <2>3
<1> QED
  BY <1>1 DEF TypeOK, TypeInv, Shape, MapTurns, SinkTurns, Waiter

\* Who is reached by a send, and is a connection, is a task of its own.
LEMMA ReachedConn ==
  ASSUME Shape, NEW t \in Task
  PROVE  Reached(t) \subseteq Conn /\ t \notin Conn
BY WaitersAssumption DEF Shape, Reached, Task

\* Waiter w queues up at q, which becomes q2.
Joins(q, q2, w) ==
  /\ q2 \in Seq(Waiter) /\ q2 # <<>>
  /\ Range(q2) = Range(q) \cup {w}
  /\ Head(q2) = IF q = <<>> THEN w ELSE Head(q)
  /\ \A x, y : Precedes(q2, x, y) => Precedes(q, x, y) \/ (x \in Range(q) /\ y = w)

\* The first at q is done, and q becomes q2.
Leaves(q, q2) ==
  /\ q # <<>> /\ q2 \in Seq(Waiter)
  /\ Head(q) \in Waiter
  /\ Range(q) = Range(q2) \cup {Head(q)}
  /\ \A y \in Range(q2) : Precedes(q, Head(q), y)
  /\ \A x, y : Precedes(q2, x, y) => Precedes(q, x, y)

LEMMA Joining ==
  ASSUME NEW q \in Seq(Waiter), NEW w \in Waiter
  PROVE  Joins(q, Append(q, w), w)
BY Queued DEF Joins

LEMMA Leaving ==
  ASSUME NEW q \in Seq(Waiter), q # <<>>
  PROVE  Leaves(q, Tail(q))
BY Served DEF Leaves

LEMMA MapStep ==
  ASSUME TypeInv, [Next]_vars
  PROVE  mapQueue' \in Seq(Waiter) /\ MapTurns'
<1> USE WaitersAssumption
<1> DEFINE Turn(c) == phase[c] \in {"inserting", "removing"}
<1>1. /\ mapQueue \in Seq(Waiter) /\ phase \in [Conn -> Phase]
      /\ \A c \in Conn : /\ c \in Range(mapQueue) <=> Turn(c)
                         /\ ~Precedes(mapQueue, c, c)
  BY DEF TypeInv, Shape, MapTurns
<1>2. ASSUME mapQueue' = mapQueue, \A c \in Conn : Turn(c)' <=> Turn(c)
      PROVE  mapQueue' \in Seq(Waiter) /\ MapTurns'
  BY <1>1, <1>2 DEF MapTurns
<1>3. ASSUME NEW c \in Conn, mapQueue' = Append(mapQueue, c), ~Turn(c), Turn(c)',
             \A d \in Conn \ {c} : phase'[d] = phase[d]
      PROVE  mapQueue' \in Seq(Waiter) /\ MapTurns'
  <2>1. Joins(mapQueue, mapQueue', c)
    BY <1>1, <1>3, Joining DEF Waiter
  <2> QED
    BY <1>1, <1>3, <2>1 DEF MapTurns, Joins
<1>4. ASSUME NEW c \in Conn, HoldsMap(c), mapQueue' = Tail(mapQueue), ~Turn(c)',
             \A d \in Conn \ {c} : phase'[d] = phase[d]
      PROVE  mapQueue' \in Seq(Waiter) /\ MapTurns'
  <2>1. Leaves(mapQueue, mapQueue') /\ Head(mapQueue) = c
    BY <1>1, <1>4, Leaving DEF HoldsMap
  <2> QED
    BY <1>1, <1>4, <2>1 DEF MapTurns, Leaves
<1>5. ASSUME NEW t \in Task, mapQueue' = Append(mapQueue, t), phase' = phase
      PROVE  mapQueue' \in Seq(Waiter) /\ MapTurns'
  <2>1. Joins(mapQueue, mapQueue', t)
    BY <1>1, <1>5, Joining DEF Waiter
  <2> QED
    BY <1>1, <1>5, <2>1 DEF MapTurns, Joins
<1>6. ASSUME NEW t, t \notin Conn, HoldsMap(t), mapQueue' = Tail(mapQueue), phase' = phase
      PROVE  mapQueue' \in Seq(Waiter) /\ MapTurns'
  <2>1. Leaves(mapQueue, mapQueue') /\ Head(mapQueue) = t
    BY <1>1, <1>6, Leaving DEF HoldsMap
  <2> QED
    BY <1>1, <1>6, <2>1 DEF MapTurns, Leaves
<1>7. ASSUME NEW c \in Conn, Client(c)
      PROVE  mapQueue' \in Seq(Waiter) /\ MapTurns'
  <2>1. CASE Accept(c)
    BY <1>1, <1>3, <2>1 DEF Accept, Become, QueueForMap
  <2>2. CASE NormalClose(c)
    BY <1>1, <1>3, <2>2 DEF NormalClose, Quit, Become, QueueForMap
  <2>3. CASE Handle(c) \/ Pong(c) \/ Stall(c) \/ Resume(c) \/ Vanish(c) \/ Break(c)
    BY <1>2, <2>3 DEF Handle, Pong, Stall, Resume, Vanish, Break, Drift, locks
  <2>4. CASE ClientPing(c) \/ BinaryFrame(c)
    BY <1>1, <1>2, <2>4 DEF ClientPing, BinaryFrame, Quit, Become
  <2> QED
    BY <1>7, <2>1, <2>2, <2>3, <2>4 DEF Client
<1>8. ASSUME NEW c \in Conn, Server(c)
      PROVE  mapQueue' \in Seq(Waiter) /\ MapTurns'
  <2>1. CASE Insert(c)
    BY <1>1, <1>4, <2>1 DEF Insert, Become
  <2>2. CASE Remove(c)
    BY <1>1, <1>4, <2>2 DEF Remove, Become
  <2>3. CASE GraceElapsed(c)
    BY <1>1, <1>3, <2>3 DEF GraceElapsed, Become, QueueForMap
  <2>4. CASE Interval(c)
    BY <1>1, <1>2, <2>4 DEF Interval, Become
  <2>5. CASE Notice(c)
    BY <1>1, <1>2, <2>5 DEF Notice, Quit, Become, locks
  <2>6. CASE WritePing(c) \/ WritePong(c) \/ WriteClose(c)
    BY <1>1, <1>2, <2>6 DEF WritePing, WritePong, WriteClose, Quit, Become
  <2>7. CASE WriteSend(c)
    <3> DEFINE t == Head(sinkQueue[c])
    <3>1. t \in Task \cup {c} /\ t # c
      <4>1. sinkQueue[c] \in Seq(Waiter) /\ sinkQueue[c] # <<>>
        BY <2>7 DEF WriteSend, CanWrite, TypeInv, Shape
      <4>2. t \in Range(sinkQueue[c])
        BY <4>1, Served
      <4> QED
        BY <2>7, <4>2 DEF WriteSend, TypeInv, SinkTurns
    <3>2. t \notin Conn /\ phase' = phase
      BY <2>7, <3>1 DEF WriteSend
    <3>3. \/ HoldsMap(t) /\ mapQueue' = Tail(mapQueue)
          \/ mapQueue' = mapQueue
      BY <2>7 DEF WriteSend, ReleaseMap
    <3> QED
      BY <1>2, <1>6, <3>2, <3>3
  <2> QED
    BY <1>8, <2>1, <2>2, <2>3, <2>4, <2>5, <2>6, <2>7 DEF Server, Write
<1>9. CASE Start
  <2>1. Head(ready) \in Task
    BY <1>9, HeadTailProperties DEF Start, TypeInv, Shape
  <2> QED
    BY <1>2, <1>5, <1>9, <2>1 DEF Start, QueueForMap
<1>10. CASE LookUp
  BY <1>2, <1>6, <1>10 DEF LookUp, HoldsMap
<1>11. CASE UNCHANGED vars
  BY <1>2, <1>11 DEF vars, locks
<1> QED
  BY <1>7, <1>8, <1>9, <1>10, <1>11 DEF Next

LEMMA SinkStep ==
  ASSUME TypeInv, [Next]_vars
  PROVE  sinkQueue' \in [Conn -> Seq(Waiter)] /\ SinkTurns'
<1> USE WaitersAssumption
<1> DEFINE Turn(c) == phase[c] \in {"pinging", "ponging", "closing"}
           Fine(c, q) == /\ q \in Seq(Waiter)
                         /\ Range(q) \subseteq Task \cup {c}
                         /\ c \in Range(q) <=> Turn(c)'
                         /\ ~Precedes(q, c, c)
           Same(c) == \A d \in Conn \ {c} : phase'[d] = phase[d]
           Becomes(c, q) == sinkQueue' = [sinkQueue EXCEPT ![c] = q]
<1>1. /\ sinkQueue \in [Conn -> Seq(Waiter)] /\ phase \in [Conn -> Phase]
      /\ \A c \in Conn : /\ sinkQueue[c] \in Seq(Waiter)
                         /\ Range(sinkQueue[c]) \subseteq Task \cup {c}
                         /\ c \in Range(sinkQueue[c]) <=> Turn(c)
                         /\ ~Precedes(sinkQueue[c], c, c)
  BY DEF TypeInv, Shape, SinkTurns
<1>2. ASSUME sinkQueue' = sinkQueue, \A c \in Conn : Turn(c)' <=> Turn(c)
      PROVE  sinkQueue' \in [Conn -> Seq(Waiter)] /\ SinkTurns'
  BY <1>1, <1>2 DEF SinkTurns
<1>3. ASSUME NEW c \in Conn, NEW q, Becomes(c, q), Same(c), Fine(c, q)
      PROVE  sinkQueue' \in [Conn -> Seq(Waiter)] /\ SinkTurns'
  <2>1. sinkQueue' \in [Conn -> Seq(Waiter)] /\ sinkQueue'[c] = q
    BY <1>1, <1>3
  <2>2. \A d \in Conn \ {c} : sinkQueue'[d] = sinkQueue[d]
    BY <1>1, <1>3
  <2> QED
    BY <1>1, <1>3, <2>1, <2>2 DEF SinkTurns
<1>4. ASSUME NEW c \in Conn, Becomes(c, Append(sinkQueue[c], c)), ~Turn(c), Turn(c)', Same(c)
      PROVE  sinkQueue' \in [Conn -> Seq(Waiter)] /\ SinkTurns'
  <2>1. Joins(sinkQueue[c], Append(sinkQueue[c], c), c)
    BY <1>1, Joining DEF Waiter
  <2>2. Fine(c, Append(sinkQueue[c], c))
    BY <1>1, <1>4, <2>1 DEF Joins
  <2> QED
    BY <1>3, <1>4, <2>2
<1>5. ASSUME NEW c \in Conn, NEW t \in Task, Becomes(c, Append(sinkQueue[c], t)), phase' = phase
      PROVE  sinkQueue' \in [Conn -> Seq(Waiter)] /\ SinkTurns'
  <2>1. Joins(sinkQueue[c], Append(sinkQueue[c], t), t)
    BY <1>1, Joining DEF Waiter
  <2>2. Fine(c, Append(sinkQueue[c], t))
    BY <1>1, <1>5, <2>1 DEF Joins
  <2> QED
    BY <1>3, <1>5, <2>2
<1>6. ASSUME NEW c \in Conn, Becomes(c, Tail(sinkQueue[c])), CanWrite(c),
             Head(sinkQueue[c]) = c, ~Turn(c)', Same(c)
      PROVE  sinkQueue' \in [Conn -> Seq(Waiter)] /\ SinkTurns'
  <2>1. Leaves(sinkQueue[c], Tail(sinkQueue[c]))
    BY <1>1, <1>6, Leaving DEF CanWrite
  <2>2. Fine(c, Tail(sinkQueue[c]))
    BY <1>1, <1>6, <2>1 DEF Leaves
  <2> QED
    BY <1>3, <1>6, <2>2
<1>7. ASSUME NEW c \in Conn, Becomes(c, Tail(sinkQueue[c])), CanWrite(c),
             Head(sinkQueue[c]) # c, phase' = phase
      PROVE  sinkQueue' \in [Conn -> Seq(Waiter)] /\ SinkTurns'
  <2>1. Leaves(sinkQueue[c], Tail(sinkQueue[c]))
    BY <1>1, <1>7, Leaving DEF CanWrite
  <2>2. Fine(c, Tail(sinkQueue[c]))
    BY <1>1, <1>7, <2>1 DEF Leaves
  <2> QED
    BY <1>3, <1>7, <2>2
<1>8. ASSUME NEW c \in Conn, Becomes(c, Append(Tail(sinkQueue[c]), c)), CanWrite(c),
             Head(sinkQueue[c]) = c, Turn(c)', Same(c)
      PROVE  sinkQueue' \in [Conn -> Seq(Waiter)] /\ SinkTurns'
  <2> DEFINE q == Tail(sinkQueue[c])
  <2>1. Leaves(sinkQueue[c], q)
    BY <1>1, <1>8, Leaving DEF CanWrite
  <2>2. q \in Seq(Waiter)
    BY <2>1 DEF Leaves
  <2> HIDE DEF q
  <2>3. Joins(q, Append(q, c), c)
    BY <2>2, Joining DEF Waiter
  <2>4. ~Precedes(q, c, c) /\ c \notin Range(q) /\ Range(q) \subseteq Task \cup {c}
    BY <1>1, <1>8, <2>1 DEF Leaves
  <2>5. Fine(c, Append(q, c))
    BY <1>8, <2>3, <2>4 DEF Joins
  <2> QED
    BY <1>3, <1>8, <2>5 DEF q
<1>9. ASSUME NEW c \in Conn, Client(c)
      PROVE  sinkQueue' \in [Conn -> Seq(Waiter)] /\ SinkTurns'
  <2>1. CASE Accept(c)
    BY <1>1, <1>2, <2>1 DEF Accept, Become
  <2>2. CASE NormalClose(c)
    BY <1>1, <1>2, <2>2 DEF NormalClose, Quit, Become
  <2>3. CASE Handle(c) \/ Pong(c) \/ Stall(c) \/ Resume(c) \/ Vanish(c) \/ Break(c)
    BY <1>2, <2>3 DEF Handle, Pong, Stall, Resume, Vanish, Break, Drift, locks
  <2>4. CASE ClientPing(c)
    BY <1>1, <1>4, <2>4 DEF ClientPing, Become, QueueForSink
  <2>5. CASE BinaryFrame(c)
    BY <1>1, <1>4, <2>5 DEF BinaryFrame, Quit, Become, QueueForSink
  <2> QED
    BY <1>9, <2>1, <2>2, <2>3, <2>4, <2>5 DEF Client
<1>10. ASSUME NEW c \in Conn, Server(c)
       PROVE  sinkQueue' \in [Conn -> Seq(Waiter)] /\ SinkTurns'
  <2>1. CASE Insert(c)
    BY <1>1, <1>2, <2>1 DEF Insert, Become
  <2>2. CASE Remove(c)
    BY <1>1, <1>2, <2>2 DEF Remove, Become
  <2>3. CASE GraceElapsed(c)
    BY <1>1, <1>2, <2>3 DEF GraceElapsed, Become
  <2>4. CASE Interval(c)
    <3>1. CASE phase[c] = "loop" /\ Become(c, "pinging") /\ QueueForSink(c, c)
      BY <1>1, <1>4, <3>1 DEF Become, QueueForSink
    <3>2. CASE UNCHANGED <<phase, sinkQueue>>
      BY <1>2, <3>2
    <3> QED
      BY <2>4, <3>1, <3>2 DEF Interval
  <2>5. CASE Notice(c)
    BY <1>1, <1>2, <2>5 DEF Notice, Quit, Become, locks
  <2>6. CASE WritePong(c)
    BY <1>1, <1>6, <2>6 DEF WritePong, Become
  <2>7. CASE WriteClose(c)
    BY <1>1, <1>6, <2>7 DEF WriteClose, Become
  <2>8. CASE WritePing(c)
    <3>1. CASE Quit(c, "closing") /\ sinkQueue' = [sinkQueue EXCEPT ![c] = Append(Tail(@), c)]
      BY <1>1, <1>8, <2>8, <3>1 DEF WritePing, Quit, Become
    <3>2. CASE Become(c, "loop") /\ sinkQueue' = [sinkQueue EXCEPT ![c] = Tail(@)]
      BY <1>1, <1>6, <2>8, <3>2 DEF WritePing, Become
    <3> QED
      BY <2>8, <3>1, <3>2 DEF WritePing
  <2>9. CASE WriteSend(c)
    BY <1>7, <2>9 DEF WriteSend
  <2> QED
    BY <1>10, <2>1, <2>2, <2>3, <2>4, <2>5, <2>6, <2>7, <2>8, <2>9 DEF Server, Write
<1>11. CASE Start
  <2>1. Head(ready) \in Task
    BY <1>11, HeadTailProperties DEF Start, TypeInv, Shape
  <2>2. CASE Head(ready).via = "sink" /\ QueueForSink(Head(ready).dest, Head(ready))
    <3>1. Head(ready).dest \in Conn
      BY <2>1, <2>2 DEF Task
    <3> QED
      BY <1>5, <1>11, <2>1, <2>2, <3>1 DEF Start, QueueForSink
  <2> QED
    BY <1>2, <1>11, <2>2 DEF Start
<1>12. CASE LookUp
  <2> DEFINE t == Head(mapQueue)
  <2>1. t \in Task
    BY <1>12, HeadTailProperties DEF LookUp, TypeInv, Shape, Waiter
  <2>2. CASE \E d \in Reached(t) : QueueForSink(d, t)
    BY <1>5, <1>12, <2>1, <2>2, ReachedConn DEF LookUp, QueueForSink, TypeInv
  <2> QED
    BY <1>2, <1>12, <2>2 DEF LookUp
<1>13. CASE UNCHANGED vars
  BY <1>2, <1>13 DEF vars, locks
<1> QED
  BY <1>9, <1>10, <1>11, <1>12, <1>13 DEF Next
-----------------------------------------------------------------------------
\* Sends numbered in the order of spawning.
Fresh(s) ==
  /\ s \in Seq(Task)
  /\ \A i \in 1 .. Len(s) : s[i].msg = spawned + i

LEMMA NewsAreFresh ==
  ASSUME Shape, NEW list \in Lists
  PROVE  Fresh(RoomNews(list))
<1>1. PICK n \in Nat : list \in [1 .. n -> Participant]
  BY DEF Lists
<1>2. Len(list) = n
  BY <1>1
<1>3. ASSUME NEW i \in 1 .. 2 * n
      PROVE  /\ SendTo(list[((i - 1) % n) + 1], spawned + i) \in Task
             /\ SendTo(list[((i - 1) % n) + 1], spawned + i).msg = spawned + i
  <2>1. ((i - 1) % n) + 1 \in 1 .. n
    BY <1>1, <1>3
  <2>2. list[((i - 1) % n) + 1] \in Participant /\ spawned + i \in Nat
    BY <1>1, <2>1 DEF Shape
  <2> QED
    BY <2>2 DEF SendTo, Task
<1>4. RoomNews(list) \in [1 .. 2 * n -> Task]
  BY <1>2, <1>3 DEF RoomNews
<1>5. 2 * n \in Nat
  BY <1>1
<1>6. RoomNews(list) \in Seq(Task) /\ Len(RoomNews(list)) = 2 * n
  BY <1>4, <1>5
<1> QED
  BY <1>2, <1>3, <1>6 DEF RoomNews, Fresh

LEMMA OneIsFresh ==
  ASSUME NEW t \in Task, t.msg = spawned + 1
  PROVE  Fresh(<<t>>)
BY DEF Fresh

\* What handlers spawn.
LEMMA Spawning ==
  ASSUME Shape, NEW c \in Conn, Insert(c) \/ Handle(c) \/ GraceElapsed(c)
  PROVE  \E s : Fresh(s) /\ SpawnAll(s)
<1> USE DeliveryAssumption
<1>1. \A d \in Conn : Direct(d, spawned + 1) \in Task
  BY DEF Direct, Task, Shape
<1>2. \A p \in Participant : SendTo(p, spawned + 1) \in Task
  BY DEF SendTo, Task, Shape
<1>3. Fresh(<<>>)
  BY DEF Fresh
<1>4. CASE Insert(c)
  <2>1. CASE IdOf[c] \in DOMAIN peers
    <3> DEFINE t == Direct(peers[IdOf[c]], spawned + 1)
    <3>1. t \in Task /\ t.msg = spawned + 1
      BY <1>1, <2>1 DEF Shape, Direct
    <3>2. SpawnAll(<<t>>)
      BY <1>4, <2>1 DEF Insert
    <3> QED
      BY <3>1, <3>2, OneIsFresh
  <2>2. CASE IdOf[c] \notin DOMAIN peers
    BY <1>3, <1>4, <2>2 DEF Insert
  <2> QED
    BY <2>1, <2>2
<1>5. CASE Handle(c)
  <2>1. PICK s \in {<<Direct(c, spawned + 1)>>}
                    \cup {<<SendTo(p, spawned + 1)>> : p \in Participant}
                    \cup {RoomNews(list) : list \in Lists} : SpawnAll(s)
    BY <1>5 DEF Handle
  <2>2. CASE s = <<Direct(c, spawned + 1)>>
    BY <1>1, <2>1, <2>2, OneIsFresh DEF Direct
  <2>3. CASE \E p \in Participant : s = <<SendTo(p, spawned + 1)>>
    BY <1>2, <2>1, <2>3, OneIsFresh DEF SendTo
  <2>4. CASE \E list \in Lists : s = RoomNews(list)
    BY <2>1, <2>4, NewsAreFresh
  <2> QED
    BY <2>1, <2>2, <2>3, <2>4
<1>6. CASE GraceElapsed(c)
  BY <1>6, NewsAreFresh DEF GraceElapsed
<1> QED
  BY <1>4, <1>5, <1>6

LEMMA TasksTyped ==
  ASSUME TypeInv, [Next]_vars
  PROVE  outbox' \in Seq(Task) /\ ready' \in Seq(Task) /\ spawned' \in Nat
<1>1. outbox \in Seq(Task) /\ ready \in Seq(Task) /\ spawned \in Nat /\ Shape
  BY DEF TypeInv, Shape
<1>2. CASE UNCHANGED tasks
  BY <1>1, <1>2 DEF tasks
<1>3. ASSUME NEW c \in Conn, Insert(c) \/ Handle(c) \/ GraceElapsed(c)
      PROVE  outbox' \in Seq(Task) /\ ready' \in Seq(Task) /\ spawned' \in Nat
  <2>1. PICK s : Fresh(s) /\ SpawnAll(s)
    BY <1>1, <1>3, Spawning
  <2>2. s \in Seq(Task)
    BY <2>1 DEF Fresh
  <2> QED
    BY <1>1, <2>1, <2>2 DEF SpawnAll
<1>4. ASSUME NEW t, Done(t), UNCHANGED <<spawned, ready>>
      PROVE  outbox' \in Seq(Task) /\ ready' \in Seq(Task) /\ spawned' \in Nat
  BY <1>1, <1>4, TakenOut DEF Done, Finish
<1>5. ASSUME NEW c \in Conn, Client(c) \/ Server(c), ~(Insert(c) \/ Handle(c) \/ GraceElapsed(c))
      PROVE  UNCHANGED tasks \/ (UNCHANGED <<spawned, ready>> /\ \E t : Done(t))
  BY <1>5 DEF Client, Server, Write, Accept, ClientPing, Pong, NormalClose, BinaryFrame,
              Stall, Resume, Vanish, Break, Drift, Interval, Notice, Remove,
              WriteSend, WritePing, WritePong, WriteClose
<1>6. CASE Start
  BY <1>1, <1>6, HeadTailProperties DEF Start
<1>7. CASE LookUp
  <2>1. UNCHANGED outbox \/ Done(Head(mapQueue))
    BY <1>7 DEF LookUp
  <2> QED
    BY <1>1, <1>4, <1>7, <2>1 DEF LookUp
<1>8. CASE UNCHANGED vars
  BY <1>2, <1>8 DEF vars
<1> QED
  BY <1>2, <1>3, <1>4, <1>5, <1>6, <1>7, <1>8 DEF Next

LEMMA ConnectionsTyped ==
  ASSUME TypeInv, [Next]_vars
  PROVE  /\ DOMAIN peers' \subseteq Participant /\ peers' \in [DOMAIN peers' -> Conn]
         /\ phase' \in [Conn -> Phase]
         /\ missed' \in [Conn -> 0 .. MissAllowed + 1]
         /\ link' \in [Conn -> Link]
<1> USE DeliveryAssumption
<1>1. /\ DOMAIN peers \subseteq Participant /\ peers \in [DOMAIN peers -> Conn]
      /\ phase \in [Conn -> Phase]
      /\ missed \in [Conn -> 0 .. MissAllowed + 1]
      /\ link \in [Conn -> Link]
  BY DEF TypeInv, Shape
<1> DEFINE Fine == /\ DOMAIN peers' \subseteq Participant /\ peers' \in [DOMAIN peers' -> Conn]
                   /\ phase' \in [Conn -> Phase]
                   /\ missed' \in [Conn -> 0 .. MissAllowed + 1]
                   /\ link' \in [Conn -> Link]
<1>2. CASE UNCHANGED <<peers, phase, missed, link>>
  BY <1>1, <1>2
<1>3. ASSUME NEW c \in Conn, Client(c)
      PROVE  Fine
  <2>1. CASE Accept(c) \/ Handle(c) \/ ClientPing(c) \/ Pong(c)
    BY <1>1, <2>1 DEF Accept, Handle, ClientPing, Pong, Become, Phase
  <2>2. CASE NormalClose(c) \/ BinaryFrame(c)
    BY <1>1, <2>2 DEF NormalClose, BinaryFrame, Quit, Become, Phase, Link
  <2>3. CASE Stall(c) \/ Resume(c) \/ Vanish(c) \/ Break(c)
    BY <1>1, <2>3 DEF Stall, Resume, Vanish, Break, Drift, Link
  <2> QED
    BY <1>3, <2>1, <2>2, <2>3 DEF Client
<1>4. ASSUME NEW c \in Conn, Server(c)
      PROVE  Fine
  <2>1. CASE Insert(c)
    <3>1. DOMAIN peers' \subseteq Participant /\ peers' \in [DOMAIN peers' -> Conn]
      BY <1>1, <2>1 DEF Insert
    <3> QED
      BY <1>1, <2>1, <3>1 DEF Insert, Become, Phase
  <2>2. CASE Remove(c)
    <3>1. DOMAIN peers' \subseteq Participant /\ peers' \in [DOMAIN peers' -> Conn]
      BY <1>1, <2>2 DEF Remove, Restrict
    <3> QED
      BY <1>1, <2>2, <3>1 DEF Remove, Become, Phase
  <2>3. CASE Interval(c)
    <3>1. missed' \in [Conn -> 0 .. MissAllowed + 1]
      <4>1. missed[c] <= MissAllowed => missed[c] + 1 \in 0 .. MissAllowed + 1
        BY <1>1
      <4> QED
        BY <1>1, <2>3, <4>1 DEF Interval
    <3>2. phase' \in [Conn -> Phase]
      BY <1>1, <2>3 DEF Interval, Become, Phase
    <3> QED
      BY <1>1, <2>3, <3>1, <3>2 DEF Interval
  <2>4. CASE GraceElapsed(c)
    <3>1. Become(c, "removing") /\ UNCHANGED <<peers, missed, link>>
      BY <2>4 DEF GraceElapsed
    <3> QED
      BY <1>1, <3>1 DEF Become, Phase
  <2>5. CASE WritePing(c) \/ WritePong(c) \/ WriteClose(c)
    BY <1>1, <2>5 DEF WritePing, WritePong, WriteClose, Quit, Become, Phase
  <2>6. CASE WriteSend(c)
    BY <1>2, <2>6 DEF WriteSend
  <2>7. CASE Notice(c)
    BY <1>1, <2>7 DEF Notice, Quit, Become, Phase
  <2> QED
    BY <1>4, <2>1, <2>2, <2>3, <2>4, <2>5, <2>6, <2>7 DEF Server, Write
<1>5. CASE Start \/ LookUp
  BY <1>2, <1>5 DEF Start, LookUp
<1>6. CASE UNCHANGED vars
  BY <1>2, <1>6 DEF vars
<1> QED
  BY <1>3, <1>4, <1>5, <1>6 DEF Next

LEMMA TypeInvHolds == Spec => []TypeInv
<1>1. Init => TypeInv
  <2> SUFFICES ASSUME Init PROVE TypeInv
    OBVIOUS
  <2>1. Shape
    BY DeliveryAssumption DEF Init, Shape, Phase, Link
  <2>2. \A q, x, y : q = <<>> => Range(q) = {} /\ ~Precedes(q, x, y)
    BY DEF Range, Precedes
  <2> QED
    BY <2>1, <2>2 DEF Init, TypeInv, MapTurns, SinkTurns
<1>2. TypeInv /\ [Next]_vars => TypeInv'
  BY MapStep, SinkStep, TasksTyped, ConnectionsTyped DEF TypeInv, Shape
<1> QED
  BY <1>1, <1>2, PTL DEF Spec

(***************************************************************************)
(* The task of a connection waits for the map of peers exactly while it    *)
(* registers or deregisters, and for its own sink, and no other, exactly   *)
(* while it pings, answers a ping or closes (server.rs, handle_connection  *)
(* and what it awaits).                                                    *)
(***************************************************************************)
THEOREM QueuesFollowPhases == Spec => []TypeOK
BY TypeInvHolds, TypeInvIsTyped, PTL
-----------------------------------------------------------------------------
(***************************************************************************)
(* Where the sends are.  They are numbered in the order of spawning; those *)
(* at the locks were all spawned before those not polled yet; at the map   *)
(* there are broadcasts, in their order; at a sink there are direct sends  *)
(* to it, in their order, and at most the broadcast that holds the map.    *)
(***************************************************************************)
Ordered(q) == \A x, y \in Task : Precedes(q, x, y) => x.msg < y.msg

Numbered ==
  /\ \A x \in Range(outbox) : x.msg \in 1 .. spawned
  /\ Ordered(outbox)

AtLock(x) == x \in Range(mapQueue) \/ \E d \in Conn : x \in Range(sinkQueue[d])

Unpolled ==
  /\ Range(ready) \subseteq Range(outbox)
  /\ Ordered(ready)
  /\ \A x \in Task, y \in Range(ready) : AtLock(x) => x.msg < y.msg

AtMap ==
  /\ \A x \in Range(mapQueue) \cap Task : x \in Range(outbox) /\ x.via = "peers"
  /\ Ordered(mapQueue)

InSink(d, x) ==
  /\ x \in Range(outbox)
  /\ x.via = "sink" => x.dest = d
  /\ x.via = "peers" => HoldsMap(x) /\ Reached(x) = {d}
  /\ ~Precedes(sinkQueue[d], x, x)
  /\ \A y \in Task : Precedes(sinkQueue[d], x, y) /\ y.via = "sink" => x.msg < y.msg

AtSink == \A d \in Conn : \A x \in Range(sinkQueue[d]) \cap Task : InSink(d, x)

Found(x) ==
  \/ x \in Range(ready)
  \/ x.via = "peers" /\ x \in Range(mapQueue)
  \/ x.via = "sink" /\ x \in Range(sinkQueue[x.dest])

Kept == \A x \in Range(outbox) : Found(x)

Order == Numbered /\ Unpolled /\ AtMap /\ AtSink /\ Kept

\* The tasks among those who wait stay as they are.
OnlyConns(q, q2) ==
  /\ \A x \in Task : x \in Range(q2) <=> x \in Range(q)
  /\ \A x, y \in Task : Precedes(q2, x, y) => Precedes(q, x, y)
  /\ q # <<>> /\ Head(q) \in Task => q2 # <<>> /\ Head(q2) = Head(q)

LEMMA ConnJoins ==
  ASSUME NEW q \in Seq(Waiter), NEW c \in Conn
  PROVE  OnlyConns(q, Append(q, c))
<1>1. Joins(q, Append(q, c), c) /\ c \notin Task
  BY Joining, WaitersAssumption DEF Waiter
<1> HIDE DEF Waiter
<1> QED
  BY <1>1 DEF Joins, OnlyConns

LEMMA ConnLeaves ==
  ASSUME NEW q \in Seq(Waiter), q # <<>>, Head(q) \in Conn
  PROVE  OnlyConns(q, Tail(q))
<1>1. Leaves(q, Tail(q)) /\ Head(q) \notin Task
  BY Leaving, WaitersAssumption
<1> QED
  BY <1>1 DEF Leaves, OnlyConns

LEMMA ConnStays ==
  ASSUME NEW q
  PROVE  OnlyConns(q, q)
BY DEF OnlyConns

\* A connection's step leaves the sends at the locks alone and may spawn more.
Aside ==
  /\ \E s : Fresh(s) /\ SpawnAll(s)
  /\ OnlyConns(mapQueue, mapQueue')
  /\ \A d \in Conn : OnlyConns(sinkQueue[d], sinkQueue'[d])
  /\ peers' = peers \/ (mapQueue # <<>> /\ Head(mapQueue) \in Conn)

LEMMA FreshOrdered ==
  ASSUME Shape, NEW s, Fresh(s)
  PROVE  /\ s \in Seq(Task)
         /\ \A x \in Range(s) : x \in Task /\ x.msg \in spawned + 1 .. spawned + Len(s)
         /\ Ordered(s)
<1>1. s \in Seq(Task) /\ spawned \in Nat
  BY DEF Fresh, Shape
<1>2. Len(s) \in Nat /\ DOMAIN s = 1 .. Len(s) /\ Range(s) \subseteq Task
  BY <1>1, InRange
<1>3. \A i \in DOMAIN s : s[i].msg = spawned + i
  BY <1>2 DEF Fresh
<1>4. \A x \in Range(s) : x.msg \in spawned + 1 .. spawned + Len(s)
  BY <1>1, <1>2, <1>3 DEF Range
<1>5. Ordered(s)
  BY <1>1, <1>2, <1>3 DEF Ordered, Precedes
<1> QED
  BY <1>1, <1>2, <1>4, <1>5

LEMMA AsideOrder ==
  ASSUME TypeInv, Order, Aside
  PROVE  Order'
<1>1. PICK s : Fresh(s) /\ SpawnAll(s)
  BY DEF Aside
<1>2. /\ s \in Seq(Task) /\ Ordered(s) /\ Len(s) \in Nat
      /\ \A x \in Range(s) : x \in Task /\ x.msg \in spawned + 1 .. spawned + Len(s)
  BY <1>1, FreshOrdered DEF TypeInv
<1>3. outbox \in Seq(Task) /\ ready \in Seq(Task) /\ spawned \in Nat /\ spawned' = spawned + Len(s)
  BY <1>1 DEF TypeInv, Shape, SpawnAll
<1>4. Range(outbox) \subseteq Task /\ Range(ready) \subseteq Task
  BY <1>3, InRange
<1>5. /\ Range(outbox') = Range(outbox) \cup Range(s)
      /\ \A x, y : Precedes(outbox', x, y) =>
           \/ Precedes(outbox, x, y) \/ Precedes(s, x, y)
           \/ x \in Range(outbox) /\ y \in Range(s)
  BY <1>1, <1>2, <1>3, Joined DEF SpawnAll
<1>6. /\ Range(ready') = Range(ready) \cup Range(s)
      /\ \A x, y : Precedes(ready', x, y) =>
           \/ Precedes(ready, x, y) \/ Precedes(s, x, y)
           \/ x \in Range(ready) /\ y \in Range(s)
  BY <1>1, <1>2, <1>3, Joined DEF SpawnAll
<1>7. \A x \in Range(outbox), y \in Range(s) : x.msg < y.msg
  BY <1>2, <1>3 DEF Order, Numbered
<1>8. \A x \in Task : AtLock(x)' <=> AtLock(x)
  BY DEF AtLock, Aside, OnlyConns
<1>9. \A x \in Task : AtLock(x) => x \in Range(outbox)
  BY DEF AtLock, Order, AtMap, AtSink, InSink
<1>10. Numbered'
  <2>1. \A x \in Range(outbox') : x.msg \in 1 .. spawned'
    BY <1>2, <1>3, <1>5 DEF Order, Numbered
  <2>2. Ordered(outbox')
    BY <1>2, <1>5, <1>7 DEF Order, Numbered, Ordered
  <2> QED
    BY <2>1, <2>2 DEF Numbered
<1>11. Unpolled'
  <2>1. Range(ready') \subseteq Range(outbox')
    BY <1>5, <1>6 DEF Order, Unpolled
  <2>2. Ordered(ready')
    BY <1>2, <1>6, <1>7 DEF Order, Unpolled, Ordered
  <2>3. \A x \in Task, y \in Range(ready') : AtLock(x) => x.msg < y.msg
    BY <1>6, <1>7, <1>9 DEF Order, Unpolled
  <2> QED
    BY <1>8, <2>1, <2>2, <2>3 DEF Unpolled
<1>12. AtMap'
  BY <1>5 DEF Order, AtMap, Aside, OnlyConns, Ordered
<1>13. ASSUME NEW d \in Conn, NEW x \in Range(sinkQueue'[d]) \cap Task
       PROVE  InSink(d, x)'
  <2>1. x \in Range(sinkQueue[d]) /\ InSink(d, x)
    BY <1>13 DEF Aside, OnlyConns, Order, AtSink
  <2>2. x.via = "peers" => HoldsMap(x)' /\ Reached(x)' = {d}
    <3> HAVE x.via = "peers"
    <3>1. HoldsMap(x) /\ Reached(x) = {d}
      BY <2>1 DEF InSink
    <3>2. HoldsMap(x)'
      BY <1>13, <3>1 DEF HoldsMap, Aside, OnlyConns
    <3>3. peers' = peers
      BY <1>13, <3>1, WaitersAssumption DEF HoldsMap, Aside
    <3>4. Reached(x)' = Reached(x)
      BY <3>3 DEF Reached
    <3> QED
      BY <3>1, <3>2, <3>4
  <2>3. \A y \in Task : Precedes(sinkQueue'[d], x, y) => Precedes(sinkQueue[d], x, y)
    BY <1>13 DEF Aside, OnlyConns
  <2> QED
    BY <1>5, <1>13, <2>1, <2>2, <2>3 DEF InSink
<1>14. AtSink'
  BY <1>13 DEF AtSink
<1>15. ASSUME NEW x \in Range(outbox')
       PROVE  Found(x)'
  <2>1. CASE x \in Range(s)
    BY <1>6, <2>1 DEF Found
  <2>2. CASE x \in Range(outbox)
    <3>1. Found(x) /\ x \in Task
      BY <1>4, <2>2 DEF Order, Kept
    <3>2. x.via = "sink" => x.dest \in Conn
      BY <3>1 DEF Task
    <3> QED
      BY <1>6, <3>1, <3>2 DEF Found, Aside, OnlyConns
  <2> QED
    BY <1>5, <1>15, <2>1, <2>2
<1>16. Kept'
  BY <1>15 DEF Kept
<1> QED
  BY <1>10, <1>11, <1>12, <1>14, <1>16 DEF Order

\* Whoever waits at q other than t stays there, and t is gone.
Without(q, q2, t) ==
  /\ \A x \in Task : x \in Range(q2) <=> x \in Range(q) /\ x # t
  /\ \A x, y \in Task : Precedes(q2, x, y) => Precedes(q, x, y)

\* Send t is over and has left the locks.
Ends(t) ==
  /\ Done(t) /\ UNCHANGED <<spawned, ready, peers>>
  /\ Without(mapQueue, mapQueue', t)
  /\ \A d \in Conn : Without(sinkQueue[d], sinkQueue'[d], t)
  /\ mapQueue' = mapQueue \/ HoldsMap(t)

LEMMA Unlisted ==
  ASSUME TypeInv, Order, NEW t, Done(t)
  PROVE  /\ t \in Task /\ t \in Range(outbox) /\ Range(outbox') = Range(outbox) \ {t}
         /\ Ordered(outbox')
<1>1. PICK i \in DOMAIN outbox : outbox[i] = t /\ Finish(i)
  BY DEF Done
<1>2. outbox \in Seq(Task)
  BY DEF TypeInv, Shape
<1>3. /\ Range(outbox') \subseteq Range(outbox)
      /\ \A j \in DOMAIN outbox : j # i => outbox[j] \in Range(outbox')
      /\ \A x, y : Precedes(outbox', x, y) => Precedes(outbox, x, y)
      /\ t \in Range(outbox') => Precedes(outbox, t, t)
  BY <1>1, <1>2, TakenOut DEF Finish
<1>4. t \in Task /\ t \in Range(outbox) /\ Range(outbox) \subseteq Task
  BY <1>1, <1>2, InRange DEF Range
<1>5. ~Precedes(outbox, t, t)
  BY <1>4 DEF Order, Numbered, Ordered, Task
<1>6. \A x \in Range(outbox) : x # t => x \in Range(outbox')
  BY <1>1, <1>3 DEF Range
<1>7. Ordered(outbox')
  BY <1>3 DEF Order, Numbered, Ordered
<1> QED
  BY <1>3, <1>4, <1>5, <1>6, <1>7

LEMMA EndsOrder ==
  ASSUME TypeInv, Order, NEW t \in Task, AtLock(t), Ends(t)
  PROVE  Order'
<1>1. /\ Range(outbox') = Range(outbox) \ {t} /\ Ordered(outbox')
      /\ Range(outbox) \subseteq Task
  BY Unlisted, InRange DEF Ends, TypeInv, Shape
<1>2. \A x \in Task : AtLock(x)' => AtLock(x)
  BY DEF AtLock, Ends, Without
<1>3. t \notin Range(ready)
  BY DEF Order, Unpolled, Task
<1>4. Numbered'
  BY <1>1 DEF Order, Numbered, Ends
<1>5. Unpolled'
  BY <1>1, <1>2, <1>3 DEF Order, Unpolled, Ends
<1>6. AtMap'
  BY <1>1 DEF Order, AtMap, Ordered, Ends, Without
<1>7. ASSUME NEW d \in Conn, NEW x \in Range(sinkQueue'[d]) \cap Task
      PROVE  InSink(d, x)'
  <2>1. x # t /\ InSink(d, x) /\ x \in Range(outbox')
    BY <1>1, <1>7 DEF Ends, Without, Order, AtSink, InSink
  <2>2. x.via = "peers" => HoldsMap(x)' /\ Reached(x)' = {d}
    BY <2>1 DEF InSink, HoldsMap, Reached, Ends
  <2>3. \A y \in Task : Precedes(sinkQueue'[d], x, y) => Precedes(sinkQueue[d], x, y)
    BY <1>7 DEF Ends, Without
  <2> QED
    BY <1>7, <2>1, <2>2, <2>3 DEF InSink
<1>8. AtSink'
  BY <1>7 DEF AtSink
<1>9. ASSUME NEW x \in Range(outbox')
      PROVE  Found(x)'
  <2>1. x # t /\ Found(x) /\ x \in Task
    BY <1>1, <1>9 DEF Order, Kept
  <2>2. x.via = "sink" => x.dest \in Conn
    BY <2>1 DEF Task
  <2> QED
    BY <2>1, <2>2 DEF Found, Ends, Without
<1>10. Kept'
  BY <1>9 DEF Kept
<1> QED
  BY <1>4, <1>5, <1>6, <1>8, <1>10 DEF Order

\* A send whose recipient is not registered ends at the map, the others at a sink.
LEMMA DropEnds ==
  ASSUME TypeInv, Order, NEW t \in Task, HoldsMap(t), LooksUp(t), Done(t),
         mapQueue' = Tail(mapQueue), UNCHANGED <<sinkQueue, spawned, ready, peers>>
  PROVE  Ends(t) /\ AtLock(t)
<1>1. Leaves(mapQueue, mapQueue') /\ Head(mapQueue) = t
  BY Leaving DEF HoldsMap, TypeInv, Shape
<1>2. ~Precedes(mapQueue, t, t)
  BY DEF Order, AtMap, Ordered, Task
<1>3. Without(mapQueue, mapQueue', t)
  BY <1>1, <1>2 DEF Leaves, Without
<1>4. \A d \in Conn : Without(sinkQueue[d], sinkQueue'[d], t)
  BY DEF Without, LooksUp
<1> QED
  BY <1>1, <1>3, <1>4 DEF Ends, AtLock, Leaves

LEMMA WriteEnds ==
  ASSUME TypeInv, Order, NEW d \in Conn, WriteSend(d)
  PROVE  LET t == Head(sinkQueue[d]) IN
         /\ Ends(t) /\ AtLock(t)
         /\ t \in Range(sinkQueue[d]) \cap Task
         /\ \A y \in Task : y \in Range(sinkQueue[d]) => y = t \/ Precedes(sinkQueue[d], t, y)
<1> DEFINE t == Head(sinkQueue[d])
<1>1. /\ sinkQueue \in [Conn -> Seq(Waiter)] /\ mapQueue \in Seq(Waiter)
      /\ sinkQueue[d] # <<>> /\ t # d /\ Done(t) /\ ReleaseMap(t)
      /\ UNCHANGED <<spawned, ready, peers>>
      /\ sinkQueue' = [sinkQueue EXCEPT ![d] = Tail(@)]
  BY DEF TypeInv, Shape, WriteSend, CanWrite
<1>2. Leaves(sinkQueue[d], Tail(sinkQueue[d]))
  BY <1>1, Leaving
<1>3. t \in Range(sinkQueue[d]) \cap Task
  BY <1>1, <1>2 DEF Leaves, TypeInv, SinkTurns
<1>4. InSink(d, t)
  BY <1>3 DEF Order, AtSink
<1>5. Without(sinkQueue[d], Tail(sinkQueue[d]), t)
  BY <1>2, <1>3, <1>4 DEF Leaves, Without, InSink
<1>6. ASSUME NEW e \in Conn, e # d
      PROVE  Without(sinkQueue[e], sinkQueue'[e], t)
  <2>1. sinkQueue'[e] = sinkQueue[e]
    BY <1>1, <1>6
  <2>2. t \notin Range(sinkQueue[e])
    <3>1. t \in Range(sinkQueue[e]) => InSink(e, t)
      BY <1>3 DEF Order, AtSink
    <3>2. t.via = "sink" \/ t.via = "peers"
      BY <1>3 DEF Task
    <3> QED
      BY <1>4, <1>6, <3>1, <3>2 DEF InSink
  <2> QED
    BY <2>1, <2>2 DEF Without
<1>7. Without(mapQueue, mapQueue', t) /\ (mapQueue' = mapQueue \/ HoldsMap(t))
  <2>1. CASE HoldsMap(t)
    <3>1. Leaves(mapQueue, mapQueue') /\ Head(mapQueue) = t
      BY <1>1, <2>1, Leaving DEF HoldsMap, ReleaseMap
    <3>2. ~Precedes(mapQueue, t, t)
      BY <1>3 DEF Order, AtMap, Ordered, Task
    <3> QED
      BY <2>1, <3>1, <3>2 DEF Leaves, Without
  <2>2. CASE ~HoldsMap(t)
    <3>1. mapQueue' = mapQueue
      BY <1>1, <2>2 DEF ReleaseMap
    <3>2. t \notin Range(mapQueue)
      BY <1>3, <1>4, <2>2 DEF Order, AtMap, InSink
    <3> QED
      BY <3>1, <3>2 DEF Without
  <2> QED
    BY <2>1, <2>2
<1>8. Ends(t) /\ AtLock(t)
  BY <1>1, <1>3, <1>5, <1>6, <1>7 DEF Ends, AtLock
<1>9. \A y \in Task : y \in Range(sinkQueue[d]) => y = t \/ Precedes(sinkQueue[d], t, y)
  BY <1>2 DEF Leaves
<1> QED
  BY <1>3, <1>8, <1>9

LEMMA StartOrder ==
  ASSUME TypeInv, Order, Start
  PROVE  Order'
<1> DEFINE t == Head(ready)
<1>1. /\ ready \in Seq(Task) /\ ready # <<>> /\ ready' = Tail(ready)
      /\ UNCHANGED <<outbox, spawned, peers>>
      /\ mapQueue \in Seq(Waiter) /\ sinkQueue \in [Conn -> Seq(Waiter)]
  BY DEF Start, TypeInv, Shape
<1>2. /\ t \in Task /\ t \in Range(ready)
      /\ Range(ready') \subseteq Range(ready) /\ Range(ready) = Range(ready') \cup {t}
      /\ \A y \in Range(ready') : Precedes(ready, t, y)
      /\ \A x, y : Precedes(ready', x, y) => Precedes(ready, x, y)
  BY <1>1, Served
<1>3. Range(ready) \subseteq Task
  BY <1>1, InRange
<1>4. /\ t \in Range(outbox)
      /\ \A y \in Range(ready') : t.msg < y.msg
      /\ \A x \in Task : AtLock(x) => x.msg < t.msg
  BY <1>2, <1>3 DEF Order, Unpolled, Ordered
<1>5. ~AtLock(t)
  BY <1>2, <1>4 DEF Task
<1>6. Numbered'
  BY <1>1 DEF Order, Numbered
<1>7. ASSUME \A x \in Task : AtLock(x)' => AtLock(x) \/ x = t
      PROVE  Unpolled'
  BY <1>1, <1>2, <1>4, <1>7 DEF Order, Unpolled, Ordered
<1>8. CASE t.via = "sink" /\ QueueForSink(t.dest, t) /\ UNCHANGED mapQueue
  <2> DEFINE d == t.dest
  <2>1. /\ d \in Conn /\ sinkQueue'[d] = Append(sinkQueue[d], t)
        /\ \A e \in Conn \ {d} : sinkQueue'[e] = sinkQueue[e]
    BY <1>1, <1>2, <1>8 DEF Task, QueueForSink
  <2>2. Joins(sinkQueue[d], sinkQueue'[d], t)
    BY <1>1, <1>2, <2>1, Joining DEF Waiter
  <2> HIDE DEF d, t
  <2>3. \A e \in Conn : e = d \/ sinkQueue'[e] = sinkQueue[e]
    BY <2>1
  <2>4. /\ Range(sinkQueue'[d]) = Range(sinkQueue[d]) \cup {t}
        /\ \A x, y : Precedes(sinkQueue'[d], x, y) =>
             Precedes(sinkQueue[d], x, y) \/ (x \in Range(sinkQueue[d]) /\ y = t)
    BY <2>2 DEF Joins
  <2>5. t \in Range(sinkQueue'[d])
    BY <2>4
  <2>6. Unpolled'
    BY <1>7, <1>8, <2>3, <2>4 DEF AtLock
  <2>7. AtMap'
    BY <1>1, <1>8 DEF Order, AtMap, Ordered
  <2>8. ASSUME NEW e \in Conn, NEW x \in Range(sinkQueue'[e]) \cap Task
        PROVE  InSink(e, x)'
    <3>1. CASE x \in Range(sinkQueue[e])
      <4>1. InSink(e, x) /\ AtLock(x)
        BY <2>8, <3>1 DEF Order, AtSink, AtLock
      <4>2. x # t /\ x.msg < t.msg
        BY <1>4, <1>5, <2>8, <4>1
      <4>3. x.via = "peers" => HoldsMap(x)' /\ Reached(x)' = {e}
        BY <1>1, <1>8, <4>1 DEF InSink, HoldsMap, Reached
      <4>4. ~Precedes(sinkQueue'[e], x, x)
        BY <2>3, <2>4, <2>8, <4>1, <4>2 DEF InSink
      <4>5. \A y \in Task : Precedes(sinkQueue'[e], x, y) /\ y.via = "sink" => x.msg < y.msg
        BY <2>3, <2>4, <2>8, <4>1, <4>2 DEF InSink
      <4> QED
        BY <1>1, <4>1, <4>3, <4>4, <4>5 DEF InSink
    <3>2. CASE x \notin Range(sinkQueue[e])
      <4>1. x = t /\ e = d
        BY <2>3, <2>4, <2>8, <3>2
      <4>2. \A y : ~Precedes(sinkQueue[e], x, y)
        BY <1>1, <3>2, InRange
      <4>3. \A y : ~Precedes(sinkQueue'[e], x, y)
        BY <2>4, <3>2, <4>1, <4>2
      <4> QED
        BY <1>1, <1>4, <1>8, <4>1, <4>3 DEF InSink, d
    <3> QED
      BY <3>1, <3>2
  <2>9. AtSink'
    BY <2>8 DEF AtSink
  <2>10. ASSUME NEW x \in Range(outbox')
         PROVE  Found(x)'
    <3>1. x \in Task /\ Found(x)
      BY <1>1, <2>10, InRange DEF Order, Kept, TypeInv, Shape
    <3>2. x.via = "sink" => x.dest \in Conn
      BY <3>1 DEF Task
    <3>3. CASE x = t
      BY <1>8, <2>5, <3>3 DEF Found, d
    <3>4. CASE x # t
      BY <1>2, <1>8, <2>3, <2>4, <3>1, <3>2, <3>4 DEF Found
    <3> QED
      BY <3>3, <3>4
  <2>11. Kept'
    BY <2>10 DEF Kept
  <2> QED
    BY <1>6, <2>6, <2>7, <2>9, <2>11 DEF Order
<1>9. CASE t.via = "peers" /\ QueueForMap(t) /\ UNCHANGED sinkQueue
  <2>1. Joins(mapQueue, mapQueue', t)
    BY <1>1, <1>2, <1>9, Joining DEF QueueForMap, Waiter
  <2> HIDE DEF t
  <2>2. Unpolled'
    BY <1>7, <1>9, <2>1 DEF AtLock, Joins
  <2>3. AtMap'
    <3>1. \A x \in Range(mapQueue') \cap Task : x \in Range(outbox') /\ x.via = "peers"
      BY <1>1, <1>4, <1>9, <2>1 DEF Joins, Order, AtMap
    <3>2. \A x \in Task : x \in Range(mapQueue) => x.msg < t.msg
      BY <1>4 DEF AtLock
    <3>3. Ordered(mapQueue')
      BY <2>1, <3>2 DEF Joins, Order, AtMap, Ordered
    <3> QED
      BY <3>1, <3>3 DEF AtMap
  <2>4. ASSUME NEW e \in Conn, NEW x \in Range(sinkQueue'[e]) \cap Task
        PROVE  InSink(e, x)'
    <3>1. InSink(e, x)
      BY <1>9, <2>4 DEF Order, AtSink
    <3>2. x.via = "peers" => HoldsMap(x)' /\ Reached(x)' = {e}
      BY <1>1, <2>1, <3>1 DEF InSink, HoldsMap, Reached, Joins
    <3> QED
      BY <1>1, <1>9, <3>1, <3>2 DEF InSink
  <2>5. AtSink'
    BY <2>4 DEF AtSink
  <2>6. ASSUME NEW x \in Range(outbox')
        PROVE  Found(x)'
    <3>1. Found(x)
      BY <1>1, <2>6 DEF Order, Kept
    <3> QED
      BY <1>2, <1>9, <2>1, <3>1 DEF Found, Joins
  <2>7. Kept'
    BY <2>6 DEF Kept
  <2> QED
    BY <1>6, <2>2, <2>3, <2>5, <2>7 DEF Order
<1> QED
  BY <1>8, <1>9 DEF Start

LEMMA ForwardOrder ==
  ASSUME TypeInv, Order, NEW t \in Task, HoldsMap(t), LooksUp(t),
         NEW d \in Reached(t), QueueForSink(d, t),
         UNCHANGED <<outbox, spawned, ready, mapQueue, peers>>
  PROVE  Order'
<1>1. /\ t \in Range(mapQueue) /\ t \in Range(outbox) /\ t.via = "peers"
      /\ d \in Conn
  BY Served, ReachedConn DEF HoldsMap, TypeInv, Shape, Order, AtMap
<1>2. Reached(t) = {d}
  BY <1>1 DEF Reached
<1>3. /\ sinkQueue'[d] = Append(sinkQueue[d], t)
      /\ \A e \in Conn \ {d} : sinkQueue'[e] = sinkQueue[e]
      /\ sinkQueue[d] \in Seq(Waiter)
  BY <1>1 DEF QueueForSink, TypeInv, Shape
<1>4. Joins(sinkQueue[d], sinkQueue'[d], t)
  BY <1>3, Joining DEF Waiter
<1>5. t \notin Range(sinkQueue[d])
  BY <1>1 DEF LooksUp
<1>6. \A x : AtLock(x)' => AtLock(x)
  BY <1>1, <1>3, <1>4 DEF AtLock, Joins
<1>7. Numbered' /\ AtMap'
  BY DEF Order, Numbered, AtMap, Ordered
<1>8. Unpolled'
  BY <1>6 DEF Order, Unpolled, Ordered
<1>9. \A x \in Task : HoldsMap(x)' = HoldsMap(x) /\ Reached(x)' = Reached(x)
  BY DEF HoldsMap, Reached
<1>10. ASSUME NEW e \in Conn, NEW x \in Range(sinkQueue'[e]) \cap Task
       PROVE  InSink(e, x)'
  <2>1. CASE e # d
    BY <1>3, <1>9, <1>10, <2>1 DEF Order, AtSink, InSink
  <2>2. CASE e = d /\ x = t
    <3>1. \A y : ~Precedes(sinkQueue[d], t, y)
      BY <1>3, <1>5, InRange
    <3>2. \A y : ~Precedes(sinkQueue'[d], t, y)
      BY <1>4, <1>5, <3>1 DEF Joins
    <3> QED
      BY <1>1, <1>2, <1>9, <2>2, <3>2 DEF InSink
  <2>3. CASE e = d /\ x # t
    <3>1. InSink(d, x)
      BY <1>4, <1>10, <2>3 DEF Joins, Order, AtSink
    <3>2. ~Precedes(sinkQueue'[d], x, x)
      BY <1>4, <2>3, <3>1 DEF Joins, InSink
    <3>3. \A y \in Task : Precedes(sinkQueue'[d], x, y) /\ y.via = "sink" => x.msg < y.msg
      BY <1>1, <1>4, <3>1 DEF Joins, InSink
    <3> QED
      BY <1>9, <2>3, <3>1, <3>2, <3>3 DEF InSink
  <2> QED
    BY <2>1, <2>2, <2>3
<1>11. AtSink'
  BY <1>10 DEF AtSink
<1>12. \A e \in Conn : Range(sinkQueue[e]) \subseteq Range(sinkQueue'[e])
  BY <1>3, <1>4 DEF Joins
<1>13. \A x \in Range(outbox) : x.via = "sink" => x.dest \in Conn
  BY InRange DEF TypeInv, Shape, Task
<1>14. Kept'
  BY <1>12, <1>13 DEF Order, Kept, Found
<1> QED
  BY <1>7, <1>8, <1>11, <1>14 DEF Order

\* What happens at the sink of c when its task queues, is served, or both.
LEMMA SinkAside ==
  ASSUME TypeInv, NEW c \in Conn,
         \/ QueueForSink(c, c)
         \/ /\ sinkQueue[c] # <<>> /\ Head(sinkQueue[c]) = c
            /\ \/ sinkQueue' = [sinkQueue EXCEPT ![c] = Tail(@)]
               \/ sinkQueue' = [sinkQueue EXCEPT ![c] = Append(Tail(@), c)]
  PROVE  \A d \in Conn : OnlyConns(sinkQueue[d], sinkQueue'[d])
<1>1. sinkQueue \in [Conn -> Seq(Waiter)]
  BY DEF TypeInv, Shape
<1>2. /\ \A d \in Conn : d = c \/ sinkQueue'[d] = sinkQueue[d]
      /\ \/ sinkQueue'[c] = Append(sinkQueue[c], c)
         \/ /\ sinkQueue[c] # <<>> /\ Head(sinkQueue[c]) = c
            /\ \/ sinkQueue'[c] = Tail(sinkQueue[c])
               \/ sinkQueue'[c] = Append(Tail(sinkQueue[c]), c)
  BY <1>1 DEF QueueForSink
<1>3. CASE sinkQueue'[c] = Append(sinkQueue[c], c)
  <2>1. OnlyConns(sinkQueue[c], sinkQueue'[c])
    BY <1>1, <1>3, ConnJoins
  <2>2. \A d \in Conn \ {c} : OnlyConns(sinkQueue[d], sinkQueue'[d])
    BY <1>2, ConnStays
  <2> QED
    BY <2>1, <2>2
<1>4. CASE sinkQueue[c] # <<>> /\ Head(sinkQueue[c]) = c
  <2> DEFINE q == Tail(sinkQueue[c])
  <2>1. OnlyConns(sinkQueue[c], q)
    BY <1>1, <1>4, ConnLeaves
  <2>2. q \in Seq(Waiter)
    BY <1>1, <1>4, Served
  <2> HIDE DEF q
  <2>3. OnlyConns(q, Append(q, c))
    BY <2>2, ConnJoins
  <2>4. OnlyConns(sinkQueue[c], Append(q, c))
    BY <1>4, <2>1, <2>3, WaitersAssumption DEF OnlyConns
  <2> QED
    BY <1>2, <1>3, <2>1, <2>4, ConnStays DEF q
<1> QED
  BY <1>2, <1>3, <1>4

LEMMA NothingSpawned ==
  ASSUME Shape, UNCHANGED tasks
  PROVE  \E s : Fresh(s) /\ SpawnAll(s)
<1>1. outbox \in Seq(Task) /\ ready \in Seq(Task) /\ spawned \in Nat
  BY DEF Shape
<1>2. outbox \o <<>> = outbox /\ ready \o <<>> = ready /\ Len(<<>>) = 0
  BY <1>1, ConcatEmptySeq
<1>3. Fresh(<<>>)
  BY DEF Fresh
<1>4. SpawnAll(<<>>)
  BY <1>1, <1>2 DEF SpawnAll, tasks
<1> QED
  BY <1>3, <1>4

LEMMA MapAside ==
  ASSUME TypeInv, NEW c \in Conn,
         mapQueue' = mapQueue \/ QueueForMap(c) \/ (HoldsMap(c) /\ mapQueue' = Tail(mapQueue))
  PROVE  OnlyConns(mapQueue, mapQueue')
<1>1. mapQueue \in Seq(Waiter)
  BY DEF TypeInv, Shape
<1> QED
  BY <1>1, ConnJoins, ConnLeaves, ConnStays DEF QueueForMap, HoldsMap

\* Registering, handling and the news of a lost connection.
LEMMA SpawningAside ==
  ASSUME TypeInv, NEW c \in Conn, Insert(c) \/ Handle(c) \/ GraceElapsed(c)
  PROVE  Aside
<1>1. \E s : Fresh(s) /\ SpawnAll(s)
  BY Spawning DEF TypeInv
<1>2. OnlyConns(mapQueue, mapQueue')
  <2>1. mapQueue' = mapQueue \/ QueueForMap(c) \/ (HoldsMap(c) /\ mapQueue' = Tail(mapQueue))
    BY DEF Insert, Handle, GraceElapsed, locks
  <2> QED
    BY <2>1, MapAside
<1>3. \A d \in Conn : OnlyConns(sinkQueue[d], sinkQueue'[d])
  BY ConnStays DEF Insert, Handle, GraceElapsed, locks
<1>4. peers' = peers \/ (mapQueue # <<>> /\ Head(mapQueue) \in Conn)
  BY DEF Insert, Handle, GraceElapsed, HoldsMap
<1> QED
  BY <1>1, <1>2, <1>3, <1>4 DEF Aside

\* Every other step of a connection.
LEMMA QuietAside ==
  ASSUME TypeInv, NEW c \in Conn, Client(c) \/ Server(c),
         ~(Insert(c) \/ Handle(c) \/ GraceElapsed(c)), ~WriteSend(c)
  PROVE  Aside
<1> DEFINE AtMapOnly == mapQueue' = mapQueue \/ QueueForMap(c) \/ (HoldsMap(c) /\ mapQueue' = Tail(mapQueue))
           AtSinkOnly ==
             \/ sinkQueue' = sinkQueue
             \/ QueueForSink(c, c)
             \/ /\ sinkQueue[c] # <<>> /\ Head(sinkQueue[c]) = c
                /\ \/ sinkQueue' = [sinkQueue EXCEPT ![c] = Tail(@)]
                   \/ sinkQueue' = [sinkQueue EXCEPT ![c] = Append(Tail(@), c)]
           Silent == UNCHANGED tasks /\ (peers' = peers \/ HoldsMap(c))
<1>1. AtMapOnly /\ AtSinkOnly /\ Silent
  <2>1. CASE Accept(c) \/ NormalClose(c) \/ Remove(c)
    BY <2>1 DEF Accept, NormalClose, Remove
  <2>2. CASE ClientPing(c) \/ BinaryFrame(c) \/ Interval(c)
    BY <2>2 DEF ClientPing, BinaryFrame, Interval
  <2>3. CASE Pong(c) \/ Notice(c)
    BY <2>3 DEF Pong, Notice, locks
  <2>4. CASE Stall(c) \/ Resume(c) \/ Vanish(c) \/ Break(c)
    BY <2>4 DEF Stall, Resume, Vanish, Break, Drift, locks
  <2>5. CASE WritePing(c) \/ WritePong(c) \/ WriteClose(c)
    BY <2>5 DEF WritePing, WritePong, WriteClose, CanWrite
  <2> QED
    BY <2>1, <2>2, <2>3, <2>4, <2>5 DEF Client, Server, Write
<1>2. \E s : Fresh(s) /\ SpawnAll(s)
  BY <1>1, NothingSpawned DEF TypeInv
<1>3. OnlyConns(mapQueue, mapQueue')
  BY <1>1, MapAside
<1>4. \A d \in Conn : OnlyConns(sinkQueue[d], sinkQueue'[d])
  BY <1>1, SinkAside, ConnStays
<1> QED
  BY <1>1, <1>2, <1>3, <1>4 DEF Aside, HoldsMap

LEMMA StutterAside ==
  ASSUME TypeInv, UNCHANGED vars
  PROVE  Aside
<1>1. \E s : Fresh(s) /\ SpawnAll(s)
  BY NothingSpawned DEF TypeInv, vars
<1> QED
  BY <1>1, ConnStays DEF Aside, vars, locks

\* Each step leaves the sends aside, moves one on or ends one.
LEMMA Steps ==
  ASSUME TypeInv, Order, [Next]_vars
  PROVE  \/ Aside
         \/ Start
         \/ \E t \in Task : \E d \in Reached(t) :
              /\ HoldsMap(t) /\ LooksUp(t) /\ QueueForSink(d, t)
              /\ UNCHANGED <<outbox, spawned, ready, mapQueue, peers>>
         \/ \E t \in Task :
              /\ HoldsMap(t) /\ LooksUp(t) /\ Done(t) /\ Reached(t) = {}
              /\ mapQueue' = Tail(mapQueue) /\ UNCHANGED <<sinkQueue, spawned, ready, peers>>
         \/ \E d \in Conn : WriteSend(d)
<1>1. ASSUME NEW c \in Conn, Client(c) \/ Server(c)
      PROVE  Aside \/ WriteSend(c)
  BY <1>1, SpawningAside, QuietAside
<1>2. CASE LookUp
  <2>1. Head(mapQueue) \in Task /\ HoldsMap(Head(mapQueue))
    BY <1>2, Served DEF LookUp, HoldsMap, TypeInv, Shape, Waiter
  <2> QED
    BY <1>2, <2>1 DEF LookUp
<1> QED
  BY <1>1, <1>2, StutterAside DEF Next

LEMMA OrderHolds == Spec => []Order
<1>1. Init => Order
  <2> SUFFICES ASSUME Init PROVE Order
    OBVIOUS
  <2>1. \A q, x, y : q = <<>> => Range(q) = {} /\ ~Precedes(q, x, y)
    BY DEF Range, Precedes
  <2> QED
    BY <2>1 DEF Init, Order, Numbered, Unpolled, AtMap, AtSink, Kept, Ordered
<1>2. TypeInv /\ Order /\ [Next]_vars => Order'
  <2> SUFFICES ASSUME TypeInv, Order, [Next]_vars PROVE Order'
    OBVIOUS
  <2>1. CASE Aside
    BY <2>1, AsideOrder
  <2>2. CASE Start
    BY <2>2, StartOrder
  <2>3. CASE \E t \in Task : \E d \in Reached(t) :
               /\ HoldsMap(t) /\ LooksUp(t) /\ QueueForSink(d, t)
               /\ UNCHANGED <<outbox, spawned, ready, mapQueue, peers>>
    BY <2>3, ForwardOrder
  <2>4. CASE \E t \in Task :
               /\ HoldsMap(t) /\ LooksUp(t) /\ Done(t) /\ Reached(t) = {}
               /\ mapQueue' = Tail(mapQueue) /\ UNCHANGED <<sinkQueue, spawned, ready, peers>>
    BY <2>4, DropEnds, EndsOrder
  <2>5. CASE \E d \in Conn : WriteSend(d)
    <3>1. PICK d \in Conn : WriteSend(d)
      BY <2>5
    <3>2. Ends(Head(sinkQueue[d])) /\ AtLock(Head(sinkQueue[d])) /\ Head(sinkQueue[d]) \in Task
      BY <3>1, WriteEnds
    <3> QED
      BY <3>2, EndsOrder
  <2> QED
    BY <2>1, <2>2, <2>3, <2>4, <2>5, Steps
<1> QED
  BY <1>1, <1>2, TypeInvHolds, PTL DEF Spec

\* What was spawned before and is not done has a smaller number.
LEMMA EarlierIsLess ==
  ASSUME TypeInv, Order, NEW i \in DOMAIN outbox, NEW j \in 1 .. i - 1
  PROVE  /\ outbox[j] \in Task /\ outbox[i] \in Task
         /\ outbox[j] \in Range(outbox) /\ outbox[i] \in Range(outbox)
         /\ outbox[j].msg < outbox[i].msg
<1>1. DOMAIN outbox = 1 .. Len(outbox) /\ Len(outbox) \in Nat /\ outbox \in Seq(Task)
  BY InRange DEF TypeInv, Shape
<1>2. j \in DOMAIN outbox /\ j < i
  BY <1>1
<1>3. outbox[j] \in Task /\ outbox[i] \in Task
  BY <1>1, <1>2
<1> QED
  BY <1>2, <1>3 DEF Order, Numbered, Ordered, Precedes, Range

LEMMA DropIsRunnable ==
  ASSUME TypeInv, Order, NEW i \in DOMAIN outbox, HoldsMap(outbox[i]), Reached(outbox[i]) = {}
  PROVE  Runnable(i)
<1> DEFINE t == outbox[i]
<1>1. mapQueue \in Seq(Waiter) /\ mapQueue # <<>> /\ Head(mapQueue) = t
  BY DEF HoldsMap, TypeInv, Shape
<1>2. /\ t \in Range(mapQueue)
      /\ \A y \in Range(mapQueue) : y = t \/ Precedes(mapQueue, t, y)
  BY <1>1, Served
<1> SUFFICES ASSUME NEW j \in 1 .. i - 1, outbox[j].via = "peers" PROVE FALSE
  BY DEF Runnable
<1> DEFINE y == outbox[j]
<1>3. y \in Task /\ t \in Task /\ y \in Range(outbox) /\ y.msg < t.msg
  BY EarlierIsLess
<1> HIDE DEF t, y
<1>4. y \notin Range(ready)
  BY <1>2, <1>3 DEF Order, Unpolled, AtLock, Task
<1>5. y \in Range(mapQueue)
  BY <1>3, <1>4 DEF Order, Kept, Found, y
<1> QED
  BY <1>2, <1>3, <1>5 DEF Order, AtMap, Ordered, Task

LEMMA WriteIsRunnable ==
  ASSUME TypeInv, Order, NEW d \in Conn, NEW i \in DOMAIN outbox,
         outbox[i] \in Range(sinkQueue[d]),
         \A y \in Task : y \in Range(sinkQueue[d]) =>
           y = outbox[i] \/ Precedes(sinkQueue[d], outbox[i], y)
  PROVE  Runnable(i)
<1> DEFINE t == outbox[i]
<1> SUFFICES ASSUME NEW j \in 1 .. i - 1
             PROVE  /\ outbox[j].via = "sink" => outbox[j].dest \notin Reached(t)
                    /\ outbox[j].via = "peers" => t.via = "sink"
  BY DEF Runnable
<1> DEFINE y == outbox[j]
<1>1. y \in Task /\ t \in Task /\ y \in Range(outbox) /\ y.msg < t.msg
  BY EarlierIsLess
<1>2. t \in Range(sinkQueue[d])
  OBVIOUS
<1>3. y \in Range(sinkQueue[d]) => y = t \/ Precedes(sinkQueue[d], t, y)
  BY <1>1
<1> HIDE DEF t, y
<1>4. InSink(d, t) /\ AtLock(t)
  BY <1>1, <1>2 DEF Order, AtSink, AtLock
<1>5. /\ y.msg \in Nat /\ t.msg \in Nat
      /\ t.via \in {"sink", "peers"}
  BY <1>1 DEF Task
<1>6. y \notin Range(ready)
  BY <1>1, <1>4, <1>5 DEF Order, Unpolled
<1>7. Found(y)
  BY <1>1 DEF Order, Kept
<1>8. Reached(t) = {d}
  BY <1>4, <1>5 DEF InSink, Reached
<1>9. ASSUME y.via = "sink", y.dest = d
      PROVE  FALSE
  <2>1. y \in Range(sinkQueue[d])
    BY <1>6, <1>7, <1>9 DEF Found
  <2> QED
    BY <1>1, <1>3, <1>4, <1>5, <1>9, <2>1 DEF InSink
<1>10. ASSUME y.via = "peers", t.via = "peers"
       PROVE  FALSE
  <2>1. y \in Range(mapQueue) /\ HoldsMap(t)
    BY <1>4, <1>6, <1>7, <1>10 DEF Found, InSink
  <2>2. y = t \/ Precedes(mapQueue, t, y)
    BY <2>1, Served DEF HoldsMap, TypeInv, Shape
  <2> QED
    BY <1>1, <1>5, <2>2 DEF Order, AtMap, Ordered
<1> QED
  BY <1>5, <1>8, <1>9, <1>10 DEF t, y

(***************************************************************************)
(* Sends end in no order but the one BloomServer takes as given, however   *)
(* many connections, participants and sends there are: what is at the      *)
(* locks was spawned before what is not polled, the map passes broadcasts  *)
(* on one at a time, and what waits at a sink is in order but for the one  *)
(* broadcast that holds the map (server.rs lines 197 to 262).              *)
(***************************************************************************)
THEOREM SendsEndInOrder == Spec => SendsAreOrdered
<1> DEFINE Gone(i) == \A j \in DOMAIN outbox' : outbox'[j] # outbox[i]
           Step == \A i \in DOMAIN outbox : Gone(i) => Runnable(i)
<1>1. TypeInv /\ Order /\ [Next]_vars => [Step]_vars
  <2> SUFFICES ASSUME TypeInv, Order, [Next]_vars, NEW i \in DOMAIN outbox, Gone(i)
               PROVE  Runnable(i)
    OBVIOUS
  <2>1. /\ outbox \in Seq(Task) /\ outbox[i] \in Task
        /\ outbox[i] \in Range(outbox) /\ outbox[i] \notin Range(outbox')
    BY InRange DEF TypeInv, Shape, Range
  <2>2. \A t : Done(t) => outbox[i] = t
    BY <2>1, Unlisted
  <2>3. CASE Aside
    <3>1. PICK s : Fresh(s) /\ SpawnAll(s)
      BY <2>3 DEF Aside
    <3>2. Range(outbox') = Range(outbox) \cup Range(s)
      BY <2>1, <3>1, Joined DEF SpawnAll, Fresh
    <3> QED
      BY <2>1, <3>2
  <2>4. CASE outbox' = outbox
    BY <2>1, <2>4
  <2>5. CASE \E t \in Task : HoldsMap(t) /\ Done(t) /\ Reached(t) = {}
    BY <2>2, <2>5, DropIsRunnable
  <2>6. CASE \E d \in Conn : WriteSend(d)
    <3>1. PICK d \in Conn : WriteSend(d)
      BY <2>6
    <3> DEFINE t == Head(sinkQueue[d])
    <3>2. /\ t = outbox[i] /\ t \in Range(sinkQueue[d])
          /\ \A y \in Task : y \in Range(sinkQueue[d]) =>
               y = t \/ Precedes(sinkQueue[d], t, y)
      BY <2>2, <3>1, WriteEnds DEF Ends
    <3> HIDE DEF t
    <3> QED
      BY <3>2, WriteIsRunnable
  <2> QED
    BY <2>3, <2>4, <2>5, <2>6, Steps DEF Start
<1> QED
  BY <1>1, TypeInvHolds, OrderHolds, PTL DEF Spec, SendsAreOrdered
=============================================================================
