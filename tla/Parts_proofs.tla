---------------------------- MODULE Parts_proofs ----------------------------
(***************************************************************************)
(* The parts that MCParts checks side by side, each for every value of its *)
(* constants: the voice track, the handshake, the in-process carriers, the *)
(* client, the two rate limiters and the room table on its own.  They      *)
(* share no state, so a theorem speaks of the specification of one part.   *)
(***************************************************************************)
EXTENDS RoomTable_proofs, RoomManager, WsRateLimiter, SyncRateLimiter,
        MemoryTransport, VoiceTrack, Client, Handshake

(***************************************************************************)
(* VoiceTrack.  A call is after the track when its task is still to add    *)
(* one or has added it.  Of two such calls the later one, if it sends a    *)
(* frame, was made while the earlier one's task was adding: had it added   *)
(* already, the later one would have found the track.                      *)
(***************************************************************************)
VoiceStages == {"adding", "negotiating", "ready", "lost", "done"}

AfterTrack(f) == stages[f] = "adding" \/ f \in added

Apart(f, g) == g \in explicit \/ <<f, g>> \in overlapping

VoiceInv ==
  /\ stages \in Seq(VoiceStages)
  /\ added \subseteq DOMAIN stages
  /\ added # {} => track # NoTrack
  /\ \A f, g \in DOMAIN stages :
       f < g /\ AfterTrack(f) /\ AfterTrack(g) => Apart(f, g)

LEMMA StageSet ==
  ASSUME VoiceInv, NEW f \in DOMAIN stages, NEW x \in VoiceStages,
         stages' = [stages EXCEPT ![f] = x]
  PROVE  /\ stages' \in Seq(VoiceStages)
         /\ DOMAIN stages' = DOMAIN stages
         /\ stages'[f] = x
         /\ \A g \in DOMAIN stages : g # f => stages'[g] = stages[g]
BY DEF VoiceInv

\* A call more, which does not disturb the others.
LEMMA CallMade ==
  ASSUME VoiceInv, NEW x \in VoiceStages, stages' = Append(stages, x),
         UNCHANGED <<track, added>>,
         explicit \subseteq explicit', overlapping \subseteq overlapping',
         NEW n \in Nat, n = Len(stages) + 1,
         \A f \in DOMAIN stages : AfterTrack(f) /\ x = "adding" => Apart(f, n)'
  PROVE  VoiceInv'
<1>1. /\ DOMAIN stages = 1 .. Len(stages) /\ Len(stages) \in Nat
  BY DEF VoiceInv
<1>2. /\ stages' \in Seq(VoiceStages)
      /\ DOMAIN stages' = DOMAIN stages \cup {n}
      /\ stages'[n] = x
      /\ \A f \in DOMAIN stages : f < n /\ stages'[f] = stages[f]
  BY <1>1, AppendProperties DEF VoiceInv
<1>3. n \notin added /\ n \notin DOMAIN stages
  BY <1>1 DEF VoiceInv
<1>4. \A f \in DOMAIN stages : AfterTrack(f)' <=> AfterTrack(f)
  BY <1>2 DEF AfterTrack
<1>5. AfterTrack(n)' => x = "adding"
  BY <1>2, <1>3 DEF AfterTrack
<1>6. ASSUME NEW f \in DOMAIN stages', NEW g \in DOMAIN stages',
             f < g, AfterTrack(f)', AfterTrack(g)'
      PROVE  Apart(f, g)'
  <2>1. f \in DOMAIN stages
    BY <1>1, <1>2, <1>6
  <2>2. CASE g = n
    BY <1>4, <1>5, <1>6, <2>1, <2>2
  <2>3. CASE g \in DOMAIN stages
    BY <1>4, <1>6, <2>1, <2>3 DEF VoiceInv, Apart
  <2> QED
    BY <1>2, <2>2, <2>3
<1> QED
  BY <1>2, <1>6 DEF VoiceInv

(***************************************************************************)
(* What holds of "it is added once", whatever fails and however many calls *)
(* there are: of two tracks the later one was asked for explicitly, or is  *)
(* that of a frame sent while the call that added the earlier one was      *)
(* still adding.  (webrtc_transport.rs lines 574 to 674)                   *)
(***************************************************************************)
THEOREM SecondTrackHasCause == VoiceSpec => []OneTrackButForOverlaps
<1> USE NoTrackAssumption
<1>1. VoiceInit => VoiceInv
  BY DEF VoiceInit, VoiceInv
<1>2. VoiceInv /\ [VoiceNext]_voiceVars => VoiceInv'
  <2> SUFFICES ASSUME VoiceInv, [VoiceNext]_voiceVars PROVE VoiceInv'
    OBVIOUS
  <2>1. /\ DOMAIN stages = 1 .. Len(stages) /\ Len(stages) \in Nat
    BY DEF VoiceInv
  <2>0. PICK n \in Nat : n = Len(stages) + 1
    BY <2>1
  <2>2. CASE SendVoice
    <3> DEFINE x == IF NeedsAdd THEN "adding" ELSE "ready"
    <3>1. /\ x \in VoiceStages /\ stages' = Append(stages, x)
          /\ UNCHANGED <<track, added, explicit>> /\ overlapping \subseteq overlapping'
      BY <2>2 DEF SendVoice, VoiceStages
    <3>2. ASSUME NEW f \in DOMAIN stages, AfterTrack(f), x = "adding"
          PROVE  Apart(f, n)'
      <4>1. NeedsAdd
        BY <3>2
      <4>2. f \in Adding
        BY <3>2, <4>1 DEF AfterTrack, NeedsAdd, VoiceInv, Adding
      <4>3. overlapping' = overlapping \cup (Adding \X {n})
        BY <2>0, <2>2 DEF SendVoice
      <4> QED
        BY <4>2, <4>3 DEF Apart
    <3> HIDE DEF x
    <3> QED
      BY <2>0, <3>1, <3>2, CallMade
  <2>3. CASE AddDummyAudioTrack
    <3>1. /\ stages' = Append(stages, "adding") /\ "adding" \in VoiceStages
          /\ UNCHANGED <<track, added, overlapping>>
          /\ explicit' = explicit \cup {Len(stages) + 1}
      BY <2>3 DEF AddDummyAudioTrack, VoiceStages
    <3>2. \A f \in DOMAIN stages : Apart(f, n)'
      BY <2>0, <3>1 DEF Apart
    <3> QED
      BY <2>0, <3>1, <3>2, CallMade
  <2>4. ASSUME NEW f \in DOMAIN stages, AddTrack(f)
        PROVE  VoiceInv'
    <3>1. /\ stages' \in Seq(VoiceStages)
          /\ DOMAIN stages' = DOMAIN stages
          /\ stages'[f] = "negotiating"
          /\ \A g \in DOMAIN stages : g # f => stages'[g] = stages[g]
      BY <2>4, StageSet DEF AddTrack, VoiceStages
    <3>2. \A g \in DOMAIN stages : AfterTrack(g)' => AfterTrack(g)
      BY <2>4, <3>1 DEF AfterTrack, AddTrack
    <3>3. track' # NoTrack
      BY <2>1, <2>4 DEF AddTrack
    <3>4. UNCHANGED <<explicit, overlapping>> /\ added' = added \cup {f}
      BY <2>4 DEF AddTrack
    <3> QED
      BY <3>1, <3>2, <3>3, <3>4 DEF VoiceInv, Apart
  <2>5. ASSUME NEW f \in DOMAIN stages, Renegotiate(f) \/ GiveUp(f) \/ WriteSample(f)
        PROVE  VoiceInv'
    <3>1. PICK x \in {"ready", "lost", "done"} : stages' = [stages EXCEPT ![f] = x]
      BY <2>5 DEF Renegotiate, GiveUp, WriteSample
    <3>2. /\ stages' \in Seq(VoiceStages)
          /\ DOMAIN stages' = DOMAIN stages
          /\ stages'[f] = x
          /\ \A g \in DOMAIN stages : g # f => stages'[g] = stages[g]
      BY <3>1, StageSet DEF VoiceStages
    <3>3. UNCHANGED <<track, explicit, added, overlapping>>
      BY <2>5 DEF Renegotiate, GiveUp, WriteSample
    <3>4. \A g \in DOMAIN stages : AfterTrack(g)' => AfterTrack(g)
      BY <3>1, <3>2, <3>3 DEF AfterTrack
    <3> QED
      BY <3>2, <3>3, <3>4 DEF VoiceInv, Apart
  <2>6. CASE UNCHANGED voiceVars
    BY <2>6 DEF voiceVars, VoiceInv, AfterTrack, Apart
  <2> QED
    BY <2>2, <2>3, <2>4, <2>5, <2>6 DEF VoiceNext
<1>3. VoiceInv => OneTrackButForOverlaps
  BY DEF VoiceInv, AfterTrack, Apart, OneTrackButForOverlaps
<1> QED
  BY <1>1, <1>2, <1>3, PTL DEF VoiceSpec
-----------------------------------------------------------------------------
(***************************************************************************)
(* Handshake.  As long as the request is being read, it is not all there:  *)
(* the parser looked at everything before the size did.                    *)
(***************************************************************************)
HandshakeInv ==
  /\ asked \in [Callers -> [size : Nat \ {0}, path : BOOLEAN, upgrade : BOOLEAN]]
  /\ sent \in [Callers -> Nat]
  /\ read \in [Callers -> Nat]
  /\ tail \in [Callers -> Nat]
  /\ DOMAIN stage = Callers
  /\ \A c \in Callers :
       /\ read[c] < MaxHandshake + Chunk
       /\ stage[c] \in {"calling", "reading"} => read[c] < asked[c].size
       /\ stage[c] = "too_large" => asked[c].size > MaxHandshake
       /\ stage[c] \in Answers => asked[c].size < MaxHandshake + Chunk
       /\ stage[c] = "serving" => tail[c] = read[c] - asked[c].size

(***************************************************************************)
(* A request within MAX_HANDSHAKE_SIZE is answered by its content, one a   *)
(* chunk above it never is, and what a client sent behind a request that   *)
(* is served is not lost, for every buffer and limit; only for a request   *)
(* in between do the reads decide.  (server.rs lines 359 to 378 and 430 to *)
(* 434)                                                                    *)
(***************************************************************************)
THEOREM FittingIsServed == HandshakeSpec => []FittingIsRead
<1> USE HandshakeAssumption
<1>1. HandshakeInit => HandshakeInv
  BY DEF HandshakeInit, HandshakeInv, Answers
<1>2. HandshakeInv /\ [HandshakeNext]_serverVars => HandshakeInv'
  <2> SUFFICES ASSUME HandshakeInv, [HandshakeNext]_serverVars PROVE HandshakeInv'
    OBVIOUS
  <2>1. CASE SignalShutdown \/ EndLoop
    BY <2>1 DEF SignalShutdown, EndLoop, HandshakeInv
  <2>2. ASSUME NEW c \in Callers, ClientSends(c) \/ Accept(c) \/ TooLarge(c) \/ HangUp(c)
        PROVE  HandshakeInv'
    <3>1. CASE ClientSends(c)
      BY <3>1 DEF ClientSends, HandshakeInv
    <3>2. CASE Accept(c)
      BY <3>2 DEF Accept, HandshakeInv, Answers
    <3>3. CASE TooLarge(c)
      BY <3>3 DEF TooLarge, HandshakeInv, Answers
    <3>4. CASE HangUp(c)
      BY <3>4 DEF HangUp, HandshakeInv, Answers
    <3> QED
      BY <2>2, <3>1, <3>2, <3>3, <3>4
  <2>3. ASSUME NEW c \in Callers, ReadChunk(c)
        PROVE  HandshakeInv'
    <3>1. PICK n \in 1 .. Chunk : /\ read' = [read EXCEPT ![c] = @ + n]
                                  /\ Parsed(c, read[c] + n)
      BY <2>3 DEF ReadChunk
    <3>2. /\ stage[c] = "reading" /\ UNCHANGED <<asked, sent>>
          /\ read[c] < MaxHandshake
      BY <2>3 DEF ReadChunk
    <3>3. PICK length \in Nat : length = read[c] + n /\ length < MaxHandshake + Chunk
      BY <3>2 DEF HandshakeInv
    <3>4. /\ read' \in [Callers -> Nat] /\ read'[c] = length
          /\ \A d \in Callers \ {c} : read'[d] = read[d]
      BY <3>1, <3>3 DEF HandshakeInv
    <3>5. Parsed(c, length)
      BY <3>1, <3>3
    <3>6. CASE length >= asked[c].size
      <4>1. stage' = [stage EXCEPT ![c] = Answer(asked[c])]
        BY <3>5, <3>6 DEF Parsed
      <4>2. tail' = [tail EXCEPT ![c] = length - asked[c].size]
        BY <3>5, <3>6 DEF Parsed
      <4>3. Answer(asked[c]) \notin {"calling", "reading", "too_large"}
        BY DEF Answer
      <4>4. /\ length - asked[c].size \in Nat
            /\ asked[c].size < MaxHandshake + Chunk
        BY <3>3, <3>6 DEF HandshakeInv
      <4>5. /\ DOMAIN stage' = Callers /\ stage'[c] = Answer(asked[c])
            /\ tail' \in [Callers -> Nat] /\ tail'[c] = read'[c] - asked[c].size
            /\ \A d \in Callers \ {c} : stage'[d] = stage[d] /\ tail'[d] = tail[d]
        BY <3>4, <4>1, <4>2, <4>4 DEF HandshakeInv
      <4> QED
        BY <3>2, <3>3, <3>4, <4>3, <4>4, <4>5 DEF HandshakeInv
    <3>7. CASE ~(length >= asked[c].size)
      <4>1. UNCHANGED <<stage, tail>>
        BY <3>5, <3>7 DEF Parsed
      <4>2. read'[c] < asked[c].size
        BY <3>4, <3>7 DEF HandshakeInv
      <4> QED
        BY <3>2, <3>3, <3>4, <4>1, <4>2 DEF HandshakeInv
    <3> QED
      BY <3>6, <3>7
  <2>4. CASE UNCHANGED serverVars
    BY <2>4 DEF serverVars, HandshakeInv
  <2> QED
    BY <2>1, <2>2, <2>3, <2>4 DEF HandshakeNext
<1>3. HandshakeInv => FittingIsRead
  BY DEF HandshakeInv, FittingIsRead
<1> QED
  BY <1>1, <1>2, <1>3, PTL DEF HandshakeSpec
-----------------------------------------------------------------------------
(***************************************************************************)
(* MemoryTransport, the hub.  A peer without a queue was sent nothing.     *)
(***************************************************************************)
HubInv ==
  /\ offered \in [Ends -> Seq(Nat)]
  /\ drained \in [Ends -> Seq(Nat)]
  /\ DOMAIN queues \subseteq Ends
  /\ queues \in [DOMAIN queues -> Seq(Nat)]
  /\ \A e \in Ends :
       IF e \in DOMAIN queues THEN drained[e] \o queues[e] = offered[e]
       ELSE drained[e] = <<>> /\ offered[e] = <<>>

LEMMA AppendLast ==
  ASSUME NEW q \in Seq(Nat), NEW s \in Seq(Nat), NEW x \in Nat
  PROVE  q \o Append(s, x) = Append(q \o s, x)
OBVIOUS

(***************************************************************************)
(* The hub loses and reorders nothing, for any number of peers, signals    *)
(* and registrations.  (signaling_hub.rs lines 32 to 35)                   *)
(***************************************************************************)
THEOREM HubIsLossless == HubSpec => []HubLosesNothing
<1>1. CarrierInit => HubInv
  BY DEF CarrierInit, HubInv
<1>2. HubInv /\ [HubNext]_carrierVars => HubInv'
  <2> SUFFICES ASSUME HubInv, [HubNext]_carrierVars PROVE HubInv'
    OBVIOUS
  <2>1. ASSUME NEW e \in Ends, HubRegister(e)
        PROVE  HubInv'
    BY <2>1 DEF HubRegister, HubInv
  <2>2. ASSUME NEW e \in Ends, HubSend(e)
        PROVE  HubInv'
    <3> DEFINE signal == Len(offered[e]) + 1
    <3>1. /\ queues' = [queues EXCEPT ![e] = Append(@, signal)]
          /\ offered' = [offered EXCEPT ![e] = Append(@, signal)]
          /\ UNCHANGED drained /\ e \in DOMAIN queues
      BY <2>2 DEF HubSend
    <3>2. signal \in Nat
      BY DEF HubInv
    <3> HIDE DEF signal
    <3>3. /\ offered' \in [Ends -> Seq(Nat)] /\ offered'[e] = Append(offered[e], signal)
          /\ DOMAIN queues' = DOMAIN queues
          /\ queues' \in [DOMAIN queues -> Seq(Nat)] /\ queues'[e] = Append(queues[e], signal)
          /\ \A d \in Ends \ {e} : offered'[d] = offered[d]
          /\ \A d \in DOMAIN queues \ {e} : queues'[d] = queues[d]
      BY <3>1, <3>2 DEF HubInv
    <3>4. drained[e] \o queues'[e] = offered'[e]
      <4>1. /\ drained[e] \in Seq(Nat) /\ queues[e] \in Seq(Nat)
            /\ drained[e] \o queues[e] = offered[e]
        BY <3>1 DEF HubInv
      <4>2. drained[e] \o Append(queues[e], signal) = Append(offered[e], signal)
        BY <3>2, <4>1, AppendLast
      <4> QED
        BY <3>3, <4>2
    <3> QED
      BY <3>1, <3>3, <3>4 DEF HubInv
  <2>3. ASSUME NEW e \in Ends, DrainFor(e)
        PROVE  HubInv'
    <3>1. /\ drained' = [drained EXCEPT ![e] = @ \o queues[e]]
          /\ queues' = [queues EXCEPT ![e] = <<>>]
          /\ UNCHANGED offered /\ e \in DOMAIN queues
      BY <2>3 DEF DrainFor
    <3>2. /\ drained' \in [Ends -> Seq(Nat)] /\ drained'[e] = offered[e]
          /\ DOMAIN queues' = DOMAIN queues
          /\ queues' \in [DOMAIN queues -> Seq(Nat)] /\ queues'[e] = <<>>
          /\ \A d \in Ends \ {e} : drained'[d] = drained[d]
          /\ \A d \in DOMAIN queues \ {e} : queues'[d] = queues[d]
      BY <3>1 DEF HubInv
    <3>3. drained'[e] \o queues'[e] = offered[e]
      BY <3>2, ConcatEmptySeq DEF HubInv
    <3> QED
      BY <3>1, <3>2, <3>3 DEF HubInv
  <2>4. CASE UNCHANGED carrierVars
    BY <2>4 DEF carrierVars, hubVars, HubInv
  <2> QED
    BY <2>1, <2>2, <2>3, <2>4 DEF HubNext
<1>3. HubInv => HubLosesNothing
  BY DEF HubInv, HubLosesNothing
<1> QED
  BY <1>1, <1>2, <1>3, PTL DEF HubSpec
-----------------------------------------------------------------------------
(***************************************************************************)
(* Client, the bootstrap.  Start and shutdown may fail at any step, in any *)
(* order and number, and the client runs exactly while its bridge does.    *)
(* (bridge.rs lines 36 to 110)                                             *)
(***************************************************************************)
THEOREM RunningBridge == BootstrapSpec => []RunningIsStarted
<1> DEFINE Inv == /\ bridge \in [started : BOOLEAN, frame : Int]
                  /\ running \in BOOLEAN
                  /\ RunningIsStarted
<1>1. ClientInit => Inv
  <2> SUFFICES ASSUME ClientInit PROVE Inv
    OBVIOUS
  <2>1. bridge = [started |-> FALSE, frame |-> 0] /\ running = FALSE /\ xr = "off"
    BY DEF ClientInit, NewBridge
  <2>2. bridge \in [started : BOOLEAN, frame : Int] /\ ~bridge.started
    BY <2>1
  <2> QED
    BY <2>1, <2>2 DEF RunningIsStarted
<1>2. Inv /\ [BootstrapNext]_clientVars => Inv'
  <2> SUFFICES ASSUME Inv, [BootstrapNext]_clientVars PROVE Inv'
    OBVIOUS
  <2>1. CASE Start
    BY <2>1 DEF Start, OnStart, RunningIsStarted
  <2>2. CASE StartFails
    BY <2>2 DEF StartFails, StartFailsAt, RunningIsStarted
  <2>3. CASE TickFrame
    BY <2>3 DEF TickFrame, RunningIsStarted
  <2>4. CASE BootstrapTick
    BY <2>4 DEF BootstrapTick, OnFrame, RunningIsStarted
  <2>5. CASE Shutdown
    BY <2>5 DEF Shutdown, OnShutdown, RunningIsStarted
  <2>6. CASE UNCHANGED clientVars
    BY <2>6 DEF clientVars, bootstrapVars, RunningIsStarted
  <2> QED
    BY <2>1, <2>2, <2>3, <2>4, <2>5, <2>6 DEF BootstrapNext
<1>3. Inv => RunningIsStarted
  OBVIOUS
<1> QED
  BY <1>1, <1>2, <1>3, PTL DEF BootstrapSpec

(***************************************************************************)
(* Client, the node.  pending is the end of what was pushed, and what is   *)
(* in the world was pushed before it.                                      *)
(***************************************************************************)
Typed(n) ==
  /\ {"pending", "pushed", "used"} \subseteq DOMAIN n
  /\ n.pending \in Seq(Nat) /\ n.pushed \in Nat /\ n.used \in Seq(Nat)

Increasing(s) == \A i, j \in DOMAIN s : i < j => s[i] < s[j]

\* pending holds the newest of the pushed events.
Newest(pending, pushed) ==
  /\ Len(pending) <= MaxPending
  /\ \A i \in DOMAIN pending : pending[i] = pushed - Len(pending) + i

\* What was used is older than what is pending.
Older(s, pending, pushed) ==
  \A i \in DOMAIN s : s[i] <= pushed - Len(pending)

NodeInv ==
  /\ Typed(node)
  /\ Increasing(node.used)
  /\ Newest(node.pending, node.pushed)
  /\ Older(node.used, node.pending, node.pushed)

\* Room is made at the old end.
LEMMA RoomMade ==
  ASSUME MaxPending \in Nat \ {0}, NEW pending \in Seq(Nat), Len(pending) <= MaxPending
  PROVE  LET room == IF Len(pending) >= MaxPending THEN Tail(pending) ELSE pending IN
         /\ room \in Seq(Nat) /\ Len(room) < MaxPending
         /\ \E d \in {0, 1} : /\ Len(pending) = Len(room) + d
                             /\ \A i \in 1 .. Len(room) : room[i] = pending[i + d]
<1>1. Len(pending) \in Nat /\ Len(pending) <= MaxPending
  OBVIOUS
<1>2. CASE Len(pending) >= MaxPending
  <2> DEFINE rest == Tail(pending)
  <2>1. pending # <<>>
    BY <1>1, <1>2
  <2>2. /\ rest \in Seq(Nat) /\ Len(rest) = Len(pending) - 1
        /\ \A i \in 1 .. Len(rest) : rest[i] = pending[i + 1]
    BY <2>1, HeadTailProperties
  <2> HIDE DEF rest
  <2>3. Len(rest) < MaxPending /\ Len(pending) = Len(rest) + 1
    BY <1>1, <2>2
  <2> QED
    BY <1>2, <2>2, <2>3 DEF rest
<1>3. CASE ~(Len(pending) >= MaxPending)
  <2>1. Len(pending) < MaxPending /\ Len(pending) = Len(pending) + 0
    BY <1>1, <1>3
  <2>2. \A i \in 1 .. Len(pending) : pending[i] = pending[i + 0]
    BY <1>1
  <2> QED
    BY <1>3, <2>1, <2>2
<1> QED
  BY <1>2, <1>3

\* room holds the events of pending but for the d oldest, q one more.
Drops(room, pending, d) ==
  Len(pending) = Len(room) + d /\ \A i \in 1 .. Len(room) : room[i] = pending[i + d]

Gains(q, room, x) ==
  /\ Len(q) = Len(room) + 1
  /\ \A i \in 1 .. Len(room) : q[i] = room[i]
  /\ q[Len(room) + 1] = x

Latest(q, pushed) == \A i \in DOMAIN q : q[i] = pushed - Len(q) + i

LEMMA NewestPushed ==
  ASSUME NEW pending \in Seq(Nat), NEW pushed \in Nat, NEW room \in Seq(Nat),
         NEW d \in Nat, NEW q \in Seq(Nat), Drops(room, pending, d),
         Latest(pending, pushed), Gains(q, room, pushed + 1)
  PROVE  Latest(q, pushed + 1)
<1>1. /\ Len(q) = Len(room) + 1
      /\ \A i \in 1 .. Len(room) : q[i] = room[i]
      /\ q[Len(room) + 1] = pushed + 1
  BY DEF Gains
<1>2. /\ Len(room) \in Nat /\ DOMAIN pending = 1 .. Len(room) + d
      /\ Len(pending) = Len(room) + d
      /\ \A i \in 1 .. Len(room) : room[i] = pending[i + d]
  BY DEF Drops
<1>3. DOMAIN q = 1 .. Len(room) + 1
  BY <1>1, LenProperties
<1>4. ASSUME NEW i \in DOMAIN q
      PROVE  q[i] = pushed + 1 - Len(q) + i
  <2>1. CASE i = Len(room) + 1
    BY <1>1, <1>2, <2>1
  <2>2. CASE i \in 1 .. Len(room)
    <3>1. q[i] = pending[i + d] /\ i + d \in DOMAIN pending
      <4>1. q[i] = room[i] /\ room[i] = pending[i + d]
        BY <1>1, <1>2, <2>2
      <4>2. i + d \in 1 .. Len(room) + d
        BY <1>2, <2>2, SMTT(20)
      <4> QED
        BY <1>2, <4>1, <4>2
    <3>2. pending[i + d] = pushed - Len(pending) + (i + d)
      BY <3>1 DEF Latest
    <3>3. Len(q) = Len(room) + 1 /\ Len(pending) = Len(room) + d
      BY <1>1, <1>2
    <3>4. pushed - Len(pending) + (i + d) = pushed + 1 - Len(q) + i
      BY <1>2, <2>2, <3>3
    <3> QED
      BY <3>1, <3>2, <3>4
  <2> QED
    BY <1>2, <1>3, <2>1, <2>2
<1> QED
  BY <1>4 DEF Latest

LEMMA PushedStaysNewest ==
  ASSUME MaxPending \in Nat \ {0},
         NEW pending \in Seq(Nat), NEW pushed \in Nat, Newest(pending, pushed),
         NEW s \in Seq(Nat), Older(s, pending, pushed)
  PROVE  LET room == IF Len(pending) >= MaxPending THEN Tail(pending) ELSE pending
             q == Append(room, pushed + 1)
         IN  q \in Seq(Nat) /\ Newest(q, pushed + 1) /\ Older(s, q, pushed + 1)
<1> DEFINE room == IF Len(pending) >= MaxPending THEN Tail(pending) ELSE pending
           q == Append(room, pushed + 1)
<1>1. Len(pending) <= MaxPending /\ \A i \in DOMAIN pending : pending[i] = pushed - Len(pending) + i
  BY DEF Newest
<1>2. /\ room \in Seq(Nat) /\ Len(room) < MaxPending
      /\ \E d \in {0, 1} : /\ Len(pending) = Len(room) + d
                          /\ \A i \in 1 .. Len(room) : room[i] = pending[i + d]
  BY <1>1, RoomMade
<1> HIDE DEF room
<1>3. PICK d \in Nat : /\ d \in {0, 1} /\ Len(pending) = Len(room) + d
                       /\ \A i \in 1 .. Len(room) : room[i] = pending[i + d]
  BY <1>2
<1>4. /\ q \in Seq(Nat) /\ Len(q) = Len(room) + 1
      /\ \A i \in DOMAIN q : q[i] = pushed + 1 - Len(q) + i
  <2>1. Drops(room, pending, d)
    BY <1>3 DEF Drops
  <2>2. Latest(pending, pushed)
    BY <1>1 DEF Latest
  <2>3. room \in Seq(Nat) /\ d \in Nat
    BY <1>2
  <2>4. /\ q \in Seq(Nat) /\ Len(q) = Len(room) + 1
        /\ \A i \in 1 .. Len(room) : q[i] = room[i]
        /\ q[Len(room) + 1] = pushed + 1
    BY <2>3, AppendProperties
  <2> HIDE DEF q
  <2>5. Gains(q, room, pushed + 1)
    BY <2>4 DEF Gains
  <2>6. Latest(q, pushed + 1)
    BY <2>1, <2>2, <2>3, <2>4, <2>5, NewestPushed
  <2> QED
    BY <2>4, <2>6 DEF Latest
<1> HIDE DEF q
<1>5. Len(room) \in Nat /\ Len(q) <= MaxPending
  BY <1>2, <1>4
<1>6. Newest(q, pushed + 1)
  BY <1>4, <1>5 DEF Newest
<1>7. Older(s, q, pushed + 1)
  <2> SUFFICES ASSUME NEW i \in DOMAIN s PROVE s[i] <= pushed + 1 - Len(q)
    BY DEF Older
  <2>1. s[i] <= pushed - Len(pending) /\ s[i] \in Nat
    BY DEF Older
  <2> QED
    BY <1>3, <1>4, <1>5, <2>1
<1> QED
  BY <1>4, <1>6, <1>7 DEF q, room

\* The whole buffer goes to the world.
LEMMA UsedInOrder ==
  ASSUME NEW pending \in Seq(Nat), NEW pushed \in Nat, Newest(pending, pushed),
         NEW s \in Seq(Nat), Older(s, pending, pushed), Increasing(s)
  PROVE  /\ s \o pending \in Seq(Nat)
         /\ Increasing(s \o pending)
         /\ \A i \in DOMAIN (s \o pending) : (s \o pending)[i] <= pushed
<1> DEFINE q == s \o pending
<1>1. /\ q \in Seq(Nat) /\ Len(q) = Len(s) + Len(pending)
      /\ \A i \in 1 .. Len(s) + Len(pending) :
           q[i] = IF i <= Len(s) THEN s[i] ELSE pending[i - Len(s)]
  BY ConcatProperties
<1>2. /\ DOMAIN s = 1 .. Len(s) /\ Len(s) \in Nat
      /\ DOMAIN pending = 1 .. Len(pending) /\ Len(pending) \in Nat
      /\ DOMAIN q = 1 .. Len(s) + Len(pending)
  BY <1>1
<1> HIDE DEF q
<1>3. ASSUME NEW i \in DOMAIN q, i <= Len(s)
      PROVE  i \in DOMAIN s /\ q[i] = s[i] /\ q[i] <= pushed - Len(pending)
  BY <1>1, <1>2, <1>3 DEF Older
<1>4. ASSUME NEW i \in DOMAIN q, ~(i <= Len(s))
      PROVE  q[i] = pushed - Len(pending) + (i - Len(s))
  <2>1. i - Len(s) \in DOMAIN pending
    BY <1>2, <1>4
  <2>2. q[i] = pending[i - Len(s)]
    BY <1>1, <1>2, <1>4
  <2> QED
    BY <2>1, <2>2 DEF Newest
<1>5. ASSUME NEW i \in DOMAIN q, NEW j \in DOMAIN q, i < j
      PROVE  q[i] < q[j]
  <2>1. \A k \in DOMAIN q : q[k] \in Nat /\ k \in Nat
    BY <1>1, <1>2
  <2>2. CASE j <= Len(s)
    <3>1. i <= Len(s)
      BY <1>2, <1>5, <2>1, <2>2
    <3> QED
      BY <1>3, <1>5, <2>2, <3>1 DEF Increasing
  <2>3. CASE ~(j <= Len(s)) /\ i <= Len(s)
    BY <1>2, <1>3, <1>4, <2>1, <2>3
  <2>4. CASE ~(j <= Len(s)) /\ ~(i <= Len(s))
    BY <1>2, <1>4, <1>5, <2>1, <2>4
  <2> QED
    BY <2>2, <2>3, <2>4
<1>6. ASSUME NEW i \in DOMAIN q
      PROVE  q[i] <= pushed
  <2>1. q[i] \in Nat /\ i \in Nat /\ i <= Len(s) + Len(pending)
    BY <1>1, <1>2
  <2> QED
    BY <1>2, <1>3, <1>4, <2>1
<1> QED
  BY <1>1, <1>5, <1>6 DEF q, Increasing

LEMMA NodeStep ==
  ASSUME MaxPending \in Nat \ {0}, NodeInv, [NodeNext]_clientVars
  PROVE  NodeInv'
<1>1. /\ {"pending", "pushed", "used"} \subseteq DOMAIN node
      /\ node.pending \in Seq(Nat) /\ node.used \in Seq(Nat) /\ node.pushed \in Nat
      /\ Increasing(node.used) /\ Newest(node.pending, node.pushed)
      /\ Older(node.used, node.pending, node.pushed)
  BY DEF NodeInv, Typed
<1>2. ASSUME DOMAIN node' = DOMAIN node,
             UNCHANGED <<node.used, node.pending, node.pushed>>
      PROVE  NodeInv'
  BY <1>1, <1>2 DEF NodeInv, Typed
<1>3. CASE NodeStart
  BY <1>2, <1>3 DEF NodeStart
<1>4. CASE NodeShutdown
  BY <1>2, <1>4 DEF NodeShutdown
<1>5. CASE OverrideDenied
  BY <1>2, <1>5 DEF OverrideDenied
<1>6. CASE PushInputEvent
  <2> DEFINE room == IF Len(node.pending) >= MaxPending THEN Tail(node.pending)
                     ELSE node.pending
             q == Append(room, node.pushed + 1)
  <2>1. node' = [node EXCEPT !.pushed = @ + 1, !.pending = q]
    BY <1>6 DEF PushInputEvent
  <2>2. q \in Seq(Nat) /\ Newest(q, node.pushed + 1) /\ Older(node.used, q, node.pushed + 1)
    BY <1>1, PushedStaysNewest
  <2> HIDE DEF room, q
  <2>3. /\ DOMAIN node' = DOMAIN node /\ node'.used = node.used
        /\ node'.pushed = node.pushed + 1 /\ node'.pending = q
    BY <1>1, <2>1
  <2>4. node'.pushed \in Nat
    BY <1>1, <2>3
  <2> QED
    BY <1>1, <2>2, <2>3, <2>4 DEF NodeInv, Typed
<1>7. \A i \in DOMAIN node.used : node.used[i] <= node.pushed
  BY <1>1, UsedInOrder DEF Older
<1>8. ASSUME NEW s \in Seq(Nat), Increasing(s), \A i \in DOMAIN s : s[i] <= node.pushed,
             DOMAIN node' = DOMAIN node, node'.used = s, node'.pending = <<>>,
             node'.pushed = node.pushed
      PROVE  NodeInv'
  <2>1. Newest(<<>>, node.pushed) /\ Older(s, <<>>, node.pushed)
    BY <1>1, <1>8 DEF Newest, Older
  <2> QED
    BY <1>1, <1>8, <2>1 DEF NodeInv, Typed
<1>9. /\ DOMAIN Snapshot = DOMAIN node /\ Snapshot.used = node.used
      /\ Snapshot.pending = <<>> /\ Snapshot.pushed = node.pushed
  BY <1>1 DEF Snapshot
<1>10. CASE NodeFrameRefused
  <2>1. /\ DOMAIN node' = DOMAIN node /\ node'.used = node.used
        /\ node'.pending = <<>> /\ node'.pushed = node.pushed
    BY <1>9, <1>10 DEF NodeFrameRefused
  <2> QED
    BY <1>1, <1>7, <1>8, <2>1
<1>11. CASE NodeFrame
  <2> DEFINE s == node.used \o node.pending
             framed == [Snapshot EXCEPT !.bridge = OnFrame(node.bridge),
                                        !.last = OnFrame(node.bridge).frame,
                                        !.used = @ \o node.pending]
  <2>1. node' \in {[framed EXCEPT !.shown = OnFrame(node.bridge).frame],
                   [framed EXCEPT !.lastError = "ProjectionFailed"]}
    BY <1>11 DEF NodeFrame
  <2>2. s \in Seq(Nat) /\ Increasing(s) /\ \A i \in DOMAIN s : s[i] <= node.pushed
    BY <1>1, UsedInOrder
  <2>3. /\ DOMAIN framed = DOMAIN node /\ framed.used = s
        /\ framed.pending = <<>> /\ framed.pushed = node.pushed
    BY <1>1, <1>9
  <2> HIDE DEF framed, s
  <2>4. /\ DOMAIN node' = DOMAIN node /\ node'.used = s
        /\ node'.pending = <<>> /\ node'.pushed = node.pushed
    <3>1. CASE node' = [framed EXCEPT !.shown = OnFrame(node.bridge).frame]
      BY <1>1, <2>3, <3>1
    <3>2. CASE node' = [framed EXCEPT !.lastError = "ProjectionFailed"]
      BY <1>1, <2>3, <3>2
    <3> QED
      BY <2>1, <3>1, <3>2
  <2> QED
    BY <1>8, <2>2, <2>4
<1>12. CASE UNCHANGED clientVars
  BY <1>2, <1>12 DEF clientVars
<1> QED
  BY <1>3, <1>4, <1>5, <1>6, <1>10, <1>11, <1>12 DEF NodeNext

(***************************************************************************)
(* Input reaches the world once and in order and an overrun costs the      *)
(* oldest, for every size of the buffer and any number of events, frames,  *)
(* starts and shutdowns.  (godot.rs lines 84 and 113 to 123)               *)
(***************************************************************************)
THEOREM InputIsOrdered == NodeSpec => []InputOnceInOrder
<1> USE MaxPendingAssumption
<1>1. ClientInit => NodeInv
  <2> SUFFICES ASSUME ClientInit PROVE NodeInv
    OBVIOUS
  <2>1. /\ {"pending", "pushed", "used"} \subseteq DOMAIN node
        /\ node.pending = <<>> /\ node.pushed = 0 /\ node.used = <<>>
    BY DEF ClientInit, NewNode
  <2> QED
    BY <2>1 DEF NodeInv, Typed, Increasing, Newest, Older
<1>2. NodeInv /\ [NodeNext]_clientVars => NodeInv'
  BY NodeStep
<1>3. NodeInv => InputOnceInOrder
  <2> SUFFICES ASSUME NodeInv PROVE InputOnceInOrder
    OBVIOUS
  <2>1. /\ node.used \in Seq(Nat) /\ node.pending \in Seq(Nat) /\ node.pushed \in Nat
    BY DEF NodeInv, Typed
  <2>2. /\ DOMAIN node.used = 1 .. Len(node.used) /\ Len(node.used) \in Nat
        /\ DOMAIN node.pending = 1 .. Len(node.pending) /\ Len(node.pending) \in Nat
        /\ \A j \in DOMAIN node.used : node.used[j] \in Nat
    BY <2>1
  <2>3. \A i \in 1 .. Len(node.used) - 1 : node.used[i] < node.used[i + 1]
    BY <2>2 DEF NodeInv, Increasing
  <2>4. Len(node.pending) <= MaxPending
    BY DEF NodeInv, Newest
  <2>5. \A i \in DOMAIN node.pending : node.pending[i] = node.pushed - Len(node.pending) + i
    BY DEF NodeInv, Newest
  <2>6. \A i \in DOMAIN node.pending : \A j \in DOMAIN node.used : node.used[j] < node.pending[i]
    <3> DEFINE n == Len(node.pending)
               u == node.used
               p == node.pending
               m == node.pushed
    <3>1. /\ n \in Nat /\ m \in Nat /\ DOMAIN p = 1 .. n
          /\ \A j \in DOMAIN u : u[j] \in Nat
          /\ \A i \in DOMAIN p : p[i] = m - n + i
      BY <2>1, <2>2, <2>5
    <3>2. \A j \in DOMAIN u : u[j] <= m - n
      BY <2>2 DEF NodeInv, Older
    <3> HIDE DEF n, u, p, m
    <3>3. \A i \in DOMAIN p : \A j \in DOMAIN u : u[j] < p[i]
      BY <3>1, <3>2
    <3> QED
      BY <3>3 DEF u, p
  <2> QED
    BY <2>3, <2>4, <2>5, <2>6 DEF InputOnceInOrder
<1> QED
  BY <1>1, <1>2, <1>3, PTL DEF NodeSpec

(***************************************************************************)
(* SyncRateLimiter.  Of the times P at which messages of a session were    *)
(* let through, the last k belong to the window that started at a, the     *)
(* others came before it, and all but SyncLimit of these at least a window *)
(* before it: they belong to windows that were over when a later one       *)
(* started.                                                                *)
(***************************************************************************)
WindowOf(P, a, k, at) ==
  /\ a <= at /\ 1 <= k /\ k <= SyncLimit /\ k <= Len(P)
  /\ \A i \in DOMAIN P : P[i] <= at
  /\ \A i \in DOMAIN P : i > Len(P) - k => a <= P[i]
  /\ \A i \in DOMAIN P : i <= Len(P) - k => P[i] <= a
  /\ \A i \in DOMAIN P : i <= Len(P) - k - SyncLimit => a - P[i] >= SyncWindow

Spread(P) ==
  \A i \in DOMAIN P : i + 2 * SyncLimit \in DOMAIN P =>
    P[i + 2 * SyncLimit] - P[i] >= SyncWindow

SyncLimiterInv ==
  /\ clock \in Nat
  /\ passed \in [Sessions -> Seq(Nat)]
  /\ counters = [s \in DOMAIN counters |-> counters[s]]
  /\ DOMAIN counters \subseteq Sessions
  /\ \A s \in Sessions \ DOMAIN counters : passed[s] = <<>>
  /\ \A s \in DOMAIN counters :
       /\ counters[s] \in [start : Nat, count : Nat]
       /\ WindowOf(passed[s], counters[s].start, counters[s].count, clock)
  /\ \A s \in Sessions : Spread(passed[s])

\* A message let through at, the last of the k in the window from a.
LEMMA LetThrough ==
  ASSUME SyncLimit \in Nat \ {0}, SyncWindow \in Nat,
         NEW P \in Seq(Nat), NEW at \in Nat, NEW a \in Nat, NEW k \in Nat,
         a <= at, 1 <= k, k <= SyncLimit, k <= Len(P) + 1, Spread(P),
         \A i \in DOMAIN P : P[i] <= at,
         \A i \in DOMAIN P : i > Len(P) + 1 - k => a <= P[i],
         \A i \in DOMAIN P : i <= Len(P) + 1 - k => P[i] <= a,
         \A i \in DOMAIN P :
           i <= Len(P) + 1 - k - SyncLimit => a - P[i] >= SyncWindow
  PROVE  WindowOf(Append(P, at), a, k, at) /\ Spread(Append(P, at))
<1> DEFINE Q == Append(P, at)
<1>1. /\ DOMAIN P = 1 .. Len(P) /\ Len(P) \in Nat
      /\ \A i \in DOMAIN P : P[i] \in Nat
  OBVIOUS
<1>2. /\ Len(Q) = Len(P) + 1 /\ DOMAIN Q = 1 .. Len(P) + 1
      /\ Q[Len(P) + 1] = at
      /\ \A i \in DOMAIN P : Q[i] = P[i]
  BY <1>1, AppendProperties
<1>3. \A i \in DOMAIN Q : i \in Nat /\ (i \in DOMAIN P \/ i = Len(P) + 1)
  BY <1>1, <1>2
<1> HIDE DEF Q
<1>4. \A i \in DOMAIN Q : Q[i] <= at
  BY <1>2, <1>3
<1>5. \A i \in DOMAIN Q : i > Len(Q) - k => a <= Q[i]
  BY <1>2, <1>3
<1>6. \A i \in DOMAIN Q : i <= Len(Q) - k => Q[i] <= a
  BY <1>1, <1>2, <1>3
<1>7. \A i \in DOMAIN Q : i <= Len(Q) - k - SyncLimit => a - Q[i] >= SyncWindow
  BY <1>1, <1>2, <1>3
<1>8. ASSUME NEW i \in DOMAIN Q, i + 2 * SyncLimit \in DOMAIN Q
      PROVE  Q[i + 2 * SyncLimit] - Q[i] >= SyncWindow
  <2>1. i \in DOMAIN P
    BY <1>1, <1>2, <1>3, <1>8
  <2>2. CASE i + 2 * SyncLimit \in DOMAIN P
    BY <1>2, <2>1, <2>2 DEF Spread
  <2>3. CASE i + 2 * SyncLimit = Len(P) + 1
    <3>1. Q[i + 2 * SyncLimit] = at /\ Q[i] = P[i] /\ P[i] \in Nat
      BY <1>1, <1>2, <2>1, <2>3
    <3>2. i <= Len(P) + 1 - k - SyncLimit
      BY <1>1, <1>3, <2>3
    <3>3. a - P[i] >= SyncWindow
      BY <2>1, <3>2
    <3> QED
      BY <3>1, <3>3
  <2> QED
    BY <1>3, <1>8, <2>2, <2>3
<1>9. Spread(Q)
  BY <1>8 DEF Spread
<1>10. WindowOf(Q, a, k, at)
  BY <1>1, <1>2, <1>4, <1>5, <1>6, <1>7 DEF WindowOf
<1> QED
  BY <1>9, <1>10 DEF Q

\* What one message of a session does to its window.
LEMMA Checked ==
  ASSUME SyncLimit \in Nat \ {0}, SyncWindow \in Nat, SyncLimiterInv,
         NEW s \in Sessions
  PROVE  /\ CurrentWindow(s) \in [start : Nat, count : Nat]
         /\ CurrentWindow(s).count < SyncLimit =>
              /\ WindowOf(Append(passed[s], clock), CurrentWindow(s).start,
                        CurrentWindow(s).count + 1, clock)
              /\ Spread(Append(passed[s], clock))
         /\ ~(CurrentWindow(s).count < SyncLimit) =>
              /\ s \in DOMAIN counters /\ CurrentWindow(s) = counters[s]
              /\ ~ShouldReset(counters[s], clock)
<1> DEFINE P == passed[s]
<1>1. clock \in Nat /\ P \in Seq(Nat) /\ Len(P) \in Nat /\ Spread(P)
      /\ DOMAIN P = 1 .. Len(P) /\ \A i \in DOMAIN P : P[i] \in Nat /\ i \in Nat
  BY DEF SyncLimiterInv
<1>2. CASE s \notin DOMAIN counters
  <2>1. /\ CurrentWindow(s) \in [start : Nat, count : Nat]
        /\ CurrentWindow(s).start = clock /\ CurrentWindow(s).count = 0
    BY <1>1, <1>2 DEF CurrentWindow
  <2>2. P = <<>>
    BY <1>2 DEF SyncLimiterInv
  <2>3. /\ WindowOf(Append(P, clock), clock, 1, clock) /\ Spread(Append(P, clock))
    <3> HIDE DEF P
    <3>1. \A i \in DOMAIN P : FALSE
      BY <1>1, <2>2
    <3>2. 1 <= Len(P) + 1 /\ clock <= clock /\ 1 <= SyncLimit /\ 1 \in Nat /\ 1 <= 1
      BY <1>1
    <3> QED
      BY <1>1, <3>1, <3>2, LetThrough
  <2> QED
    BY <2>1, <2>3
<1>3. CASE s \in DOMAIN counters
  <2> DEFINE a == counters[s].start
             k == counters[s].count
  <2>1. counters[s] \in [start : Nat, count : Nat] /\ a \in Nat /\ k \in Nat
        /\ WindowOf(P, a, k, clock)
    BY <1>3 DEF SyncLimiterInv
  <2>2. CASE ShouldReset(counters[s], clock)
    <3>1. /\ CurrentWindow(s) \in [start : Nat, count : Nat]
          /\ CurrentWindow(s).start = clock /\ CurrentWindow(s).count = 0
      BY <1>1, <1>3, <2>2 DEF CurrentWindow
    <3> HIDE DEF a, k
    <3>2. clock - a >= SyncWindow
      BY <1>1, <2>1, <2>2 DEF ShouldReset, Elapsed, WindowOf, a
    <3>3. \A i \in DOMAIN P : P[i] <= clock /\ ~(i > Len(P) + 1 - 1)
      BY <1>1, <2>1 DEF WindowOf
    <3>4. ASSUME NEW i \in DOMAIN P, i <= Len(P) + 1 - 1 - SyncLimit
          PROVE  clock - P[i] >= SyncWindow
      <4> HIDE DEF P
      <4>1. i <= Len(P) - k
        BY <1>1, <2>1, <3>4 DEF WindowOf
      <4>2. P[i] <= a
        BY <2>1, <4>1 DEF WindowOf
      <4> QED
        BY <1>1, <2>1, <3>2, <4>2
    <3>5. WindowOf(Append(P, clock), clock, 1, clock) /\ Spread(Append(P, clock))
      <4> HIDE DEF P
      <4>1. 1 <= Len(P) + 1 /\ clock <= clock /\ 1 <= SyncLimit /\ 1 \in Nat /\ 1 <= 1
        BY <1>1
      <4> QED
        BY <1>1, <3>3, <3>4, <4>1, LetThrough
    <3> QED
      BY <3>1, <3>5
  <2>3. CASE ~ShouldReset(counters[s], clock)
    <3>1. CurrentWindow(s) = counters[s]
      BY <1>3, <2>3 DEF CurrentWindow
    <3>2. ASSUME k < SyncLimit
          PROVE  WindowOf(Append(P, clock), a, k + 1, clock) /\ Spread(Append(P, clock))
      <4> HIDE DEF P, a, k
      <4>1. /\ k + 1 \in Nat /\ a <= clock /\ 1 <= k + 1 /\ k + 1 <= SyncLimit
            /\ k + 1 <= Len(P) + 1 /\ \A i \in DOMAIN P : P[i] <= clock
        BY <1>1, <2>1, <3>2 DEF WindowOf
      <4>2. /\ Len(P) + 1 - (k + 1) = Len(P) - k
            /\ Len(P) + 1 - (k + 1) - SyncLimit = Len(P) - k - SyncLimit
        BY <1>1, <2>1
      <4>3. /\ \A i \in DOMAIN P : i > Len(P) + 1 - (k + 1) => a <= P[i]
            /\ \A i \in DOMAIN P : i <= Len(P) + 1 - (k + 1) => P[i] <= a
            /\ \A i \in DOMAIN P :
                 i <= Len(P) + 1 - (k + 1) - SyncLimit => a - P[i] >= SyncWindow
        BY <2>1, <4>2 DEF WindowOf
      <4> QED
        BY <1>1, <2>1, <4>1, <4>3, LetThrough
    <3> QED
      BY <1>3, <2>1, <2>3, <3>1, <3>2
  <2> QED
    BY <2>2, <2>3
<1> QED
  BY <1>2, <1>3

\* Every counter counts something, so a purge drops none.
LEMMA NothingToPurge ==
  ASSUME SyncLimiterInv, PurgeInactive
  PROVE  counters' = counters
<1>1. \A s \in DOMAIN counters : counters[s].count > 0
  BY DEF SyncLimiterInv, WindowOf
<1>2. PICK at \in 0 .. MaxClock : counters' = Restrict(counters, Retained(at))
  BY DEF PurgeInactive
<1>3. Retained(at) = DOMAIN counters
  BY <1>1 DEF Retained
<1> QED
  BY <1>2, <1>3 DEF Restrict, SyncLimiterInv

LEMMA SyncLimiterStep ==
  ASSUME SyncLimit \in Nat \ {0}, SyncWindow \in Nat, SyncLimiterInv,
         [LimiterNext]_limiterVars
  PROVE  SyncLimiterInv'
<1>1. CASE UNCHANGED <<clock, counters, passed>>
  BY <1>1 DEF SyncLimiterInv, WindowOf, Spread
<1>2. CASE PurgeInactive
  BY <1>1, <1>2, NothingToPurge DEF PurgeInactive
<1>3. CASE Advance
  <2>1. /\ clock' = clock + 1 /\ clock' \in Nat
        /\ UNCHANGED <<counters, passed>>
    BY <1>3 DEF Advance, SyncLimiterInv
  <2>2. ASSUME NEW s \in DOMAIN counters
        PROVE  WindowOf(passed[s], counters[s].start, counters[s].count, clock')
    <3> DEFINE P == passed[s]
               a == counters[s].start
               k == counters[s].count
    <3>1. clock \in Nat /\ a \in Nat /\ \A i \in DOMAIN P : P[i] \in Nat
      BY DEF SyncLimiterInv
    <3>2. WindowOf(P, a, k, clock)
      BY DEF SyncLimiterInv
    <3> HIDE DEF P, a, k
    <3>3. a <= clock' /\ \A i \in DOMAIN P : P[i] <= clock'
      BY <2>1, <3>1, <3>2 DEF WindowOf
    <3>4. WindowOf(P, a, k, clock')
      BY <3>2, <3>3 DEF WindowOf
    <3> QED
      BY <3>4 DEF P, a, k
  <2> QED
    BY <2>1, <2>2 DEF SyncLimiterInv, Spread, WindowOf
<1>4. ASSUME NEW s \in Sessions, CheckAndRecord(s)
      PROVE  SyncLimiterInv'
  <2> DEFINE window == CurrentWindow(s)
             after == IF window.count < SyncLimit
                      THEN [window EXCEPT !.count = @ + 1] ELSE window
  <2>1. /\ clock' = clock
        /\ counters' = [t \in DOMAIN counters \cup {s} |->
                          IF t = s THEN after ELSE counters[t]]
        /\ passed' = IF window.count < SyncLimit
                     THEN [passed EXCEPT ![s] = Append(@, clock)] ELSE passed
    BY <1>4 DEF CheckAndRecord
  <2>2. /\ window \in [start : Nat, count : Nat]
        /\ window.count < SyncLimit =>
             /\ WindowOf(Append(passed[s], clock), window.start, window.count + 1, clock)
             /\ Spread(Append(passed[s], clock))
        /\ ~(window.count < SyncLimit) =>
             /\ s \in DOMAIN counters /\ window = counters[s]
    BY Checked
  <2> HIDE DEF window
  <2>3. /\ after \in [start : Nat, count : Nat]
        /\ after.start = window.start
        /\ window.count < SyncLimit => after.count = window.count + 1
        /\ ~(window.count < SyncLimit) => after = window
    BY <2>2
  <2> HIDE DEF after
  <2>4. clock \in Nat /\ passed \in [Sessions -> Seq(Nat)]
        /\ DOMAIN counters \subseteq Sessions
    BY DEF SyncLimiterInv
  <2>5. /\ passed' \in [Sessions -> Seq(Nat)]
        /\ \A t \in Sessions : t # s => passed'[t] = passed[t]
        /\ passed'[s] = IF window.count < SyncLimit THEN Append(passed[s], clock)
                        ELSE passed[s]
    BY <2>1, <2>4
  <2>6. /\ DOMAIN counters' = DOMAIN counters \cup {s}
        /\ counters' = [t \in DOMAIN counters' |-> counters'[t]]
        /\ counters'[s] = after
        /\ \A t \in DOMAIN counters : t # s => counters'[t] = counters[t]
    BY <2>1
  <2>7. Spread(passed'[s])
    BY <2>2, <2>5 DEF SyncLimiterInv
  <2>8. /\ counters'[s] \in [start : Nat, count : Nat]
        /\ WindowOf(passed'[s], counters'[s].start, counters'[s].count, clock)
    BY <2>2, <2>3, <2>5, <2>6 DEF SyncLimiterInv
  <2>9. ASSUME NEW t \in DOMAIN counters, t # s
        PROVE  /\ counters'[t] \in [start : Nat, count : Nat]
               /\ WindowOf(passed'[t], counters'[t].start, counters'[t].count, clock)
    <3>1. counters'[t] = counters[t] /\ passed'[t] = passed[t]
      BY <2>4, <2>5, <2>6, <2>9
    <3> QED
      BY <3>1 DEF SyncLimiterInv
  <2>10. ASSUME NEW t \in Sessions, t # s
         PROVE  Spread(passed'[t])
    BY <2>5, <2>10 DEF SyncLimiterInv
  <2>11. ASSUME NEW t \in Sessions, t \notin DOMAIN counters'
         PROVE  passed'[t] = <<>>
    BY <2>5, <2>6, <2>11 DEF SyncLimiterInv
  <2>12. \A t \in DOMAIN counters' :
           /\ counters'[t] \in [start : Nat, count : Nat]
           /\ WindowOf(passed'[t], counters'[t].start, counters'[t].count, clock')
    BY <2>1, <2>6, <2>8, <2>9
  <2>13. \A t \in Sessions : Spread(passed'[t])
    BY <2>7, <2>10
  <2> QED
    BY <2>1, <2>4, <2>5, <2>6, <2>11, <2>12, <2>13 DEF SyncLimiterInv, Spread, WindowOf
<1> QED
  BY <1>1, <1>2, <1>3, <1>4 DEF LimiterNext, limiterVars

LEMMA SyncLimiterAlways ==
  ASSUME SyncLimit \in Nat \ {0}, SyncWindow \in Nat
  PROVE  LimiterSpec => []SyncLimiterInv
<1>1. LimiterInit => SyncLimiterInv
  <2> SUFFICES ASSUME LimiterInit PROVE SyncLimiterInv
    OBVIOUS
  <2>1. /\ clock = 0 /\ DOMAIN counters = {}
        /\ counters = [s \in DOMAIN counters |-> counters[s]]
        /\ passed = [s \in Sessions |-> <<>>]
    BY DEF LimiterInit
  <2> QED
    BY <2>1 DEF SyncLimiterInv, Spread
<1>2. SyncLimiterInv /\ [LimiterNext]_limiterVars => SyncLimiterInv'
  BY SyncLimiterStep
<1> QED
  BY <1>1, <1>2, PTL DEF LimiterSpec

(***************************************************************************)
(* Any 2 * SyncLimit + 1 messages in a row of a session span a window, for *)
(* every limit and window, any number of sessions and whatever is purged.  *)
(* (rate_limiter.rs lines 90 to 137)                                       *)
(***************************************************************************)
THEOREM BurstsAreBounded == LimiterSpec => []BurstBound
<1> USE SyncLimiterAssumption
<1>1. SyncLimiterInv => BurstBound
  BY DEF SyncLimiterInv, Spread, BurstBound
<1> QED
  BY <1>1, SyncLimiterAlways, PTL

(***************************************************************************)
(* A session is only refused for SyncLimit messages of its own less than a *)
(* window ago.  (rate_limiter.rs lines 98 to 127)                          *)
(***************************************************************************)
THEOREM RefusalsHaveCause == LimiterSpec => []RefusedForCause
<1> USE SyncLimiterAssumption
<1>1. LimiterInit => RefusedForCause
  BY DEF LimiterInit, RefusedForCause
<1>2. SyncLimiterInv /\ RefusedForCause /\ [LimiterNext]_limiterVars => RefusedForCause'
  <2> SUFFICES ASSUME SyncLimiterInv, RefusedForCause, [LimiterNext]_limiterVars
               PROVE  RefusedForCause'
    OBVIOUS
  <2>1. CASE PurgeInactive \/ Advance
    BY <2>1 DEF PurgeInactive, Advance, RefusedForCause
  <2>2. CASE UNCHANGED limiterVars
    BY <2>2 DEF limiterVars, RefusedForCause
  <2>3. ASSUME NEW s \in Sessions, CheckAndRecord(s), refused' # {}
        PROVE  RefusedForCause'
    <3> DEFINE P == passed[s]
               a == counters[s].start
               k == counters[s].count
    <3>1. /\ refused' = {s} /\ clock' = clock /\ passed' = passed
          /\ ~(CurrentWindow(s).count < SyncLimit)
      BY <2>3 DEF CheckAndRecord
    <3>2. /\ s \in DOMAIN counters /\ k = CurrentWindow(s).count
          /\ ~ShouldReset(counters[s], clock)
      BY <3>1, Checked
    <3>3. /\ clock \in Nat /\ a \in Nat /\ k \in Nat /\ P \in Seq(Nat)
          /\ WindowOf(P, a, k, clock)
      BY <3>2 DEF SyncLimiterInv
    <3>4. k = SyncLimit
      BY <3>1, <3>2, <3>3 DEF WindowOf
    <3>5. clock - a < SyncWindow
      BY <3>2, <3>3 DEF ShouldReset, Elapsed, WindowOf
    <3> HIDE DEF P, a, k
    <3>6. Len(P) \in Nat /\ DOMAIN P = 1 .. Len(P) /\ SyncLimit <= Len(P)
      BY <3>3, <3>4 DEF WindowOf
    <3>7. Len(P) - SyncLimit + 1 \in DOMAIN P
      BY <3>6
    <3>8. a <= P[Len(P) - SyncLimit + 1] /\ P[Len(P) - SyncLimit + 1] \in Nat
      <4>1. PICK i \in DOMAIN P : i = Len(P) - SyncLimit + 1
        BY <3>7
      <4>2. i > Len(P) - k
        BY <3>4, <3>6, <4>1
      <4>3. a <= P[i] /\ P[i] \in Nat
        BY <3>3, <4>2 DEF WindowOf
      <4> QED
        BY <4>1, <4>3
    <3>9. clock - P[Len(P) - SyncLimit + 1] < SyncWindow
      BY <3>3, <3>5, <3>8
    <3> QED
      BY <3>1, <3>6, <3>9 DEF RefusedForCause, P
  <2>4. ASSUME refused' = {}
        PROVE  RefusedForCause'
    BY <2>4 DEF RefusedForCause
  <2> QED
    BY <2>1, <2>2, <2>3, <2>4 DEF LimiterNext
<1> QED
  BY <1>1, <1>2, SyncLimiterAlways, PTL DEF LimiterSpec
-----------------------------------------------------------------------------
(***************************************************************************)
(* WsRateLimiter: the bounds of the limiter of a connection to the server, *)
(* for every limit, window and course of calls.                            *)
(***************************************************************************)
\* Time does not run backwards.
Sorted ==
  /\ \A i \in DOMAIN history : history[i] <= now
  /\ \A i, j \in DOMAIN history : i <= j => history[i] <= history[j]

\* The queue is the end of the history.
QueueIsSuffix ==
  /\ Len(timestamps) <= Len(history)
  /\ \A i \in DOMAIN timestamps :
       timestamps[i] = history[Len(history) - Len(timestamps) + i]

\* What the queue has forgotten is at least a window old.
ForgottenIsOld ==
  cooldown = NoCooldown =>
    \A i \in DOMAIN history :
      i <= Len(history) - Len(timestamps) => now - history[i] >= Window

\* A cooldown ends a window or more after everything let through, and within
\* two windows of the last Limit messages.
CooldownFits ==
  cooldown # NoCooldown =>
    /\ Limit <= Len(history)
    /\ \A i \in DOMAIN history :
         /\ cooldown - history[i] >= Window
         /\ i > Len(history) - Limit => cooldown - history[i] <= 2 * Window

WsLimiterInv ==
  /\ TypeOK
  /\ Sorted
  /\ QueueIsSuffix
  /\ ForgottenIsOld
  /\ CooldownFits
  /\ WindowBound
  /\ DroppedForCause

\* The queue check works on is the end of the history too, and what precedes
\* it is at least a window old, also when a cooldown that is over emptied it.
LEMMA RememberedIsSuffix ==
  ASSUME WsLimiterInv, cooldown # NoCooldown => now >= cooldown
  PROVE  /\ Remembered \in Seq(Nat)
         /\ Len(Remembered) <= Limit
         /\ Len(Remembered) <= Len(history)
         /\ \A i \in DOMAIN Remembered :
              Remembered[i] = history[Len(history) - Len(Remembered) + i]
         /\ \A i \in DOMAIN history :
              i <= Len(history) - Len(Remembered) => now - history[i] >= Window
<1> USE LimiterAssumption
<1>1. CASE cooldown = NoCooldown
  BY <1>1 DEF WsLimiterInv, TypeOK, QueueIsSuffix, ForgottenIsOld, Remembered
<1>2. CASE cooldown # NoCooldown
  <2>1. Remembered = <<>>
    BY <1>2 DEF Remembered
  <2>2. \A i \in DOMAIN history : now - history[i] >= Window
    BY <1>2 DEF WsLimiterInv, TypeOK, CooldownFits
  <2>3. Len(history) \in Nat
    BY DEF WsLimiterInv, TypeOK
  <2> QED
    BY <2>1, <2>2, <2>3
<1> QED
  BY <1>1, <1>2

\* The entries the loop leaves: the times within the window, and they only.
LEMMA KeptIsRecent ==
  ASSUME WsLimiterInv, cooldown # NoCooldown => now >= cooldown,
         NEW n \in 0 .. Len(Remembered), Expires(Remembered, n),
         NEW kept, kept = SubSeq(Remembered, n + 1, Len(Remembered))
  PROVE  /\ kept \in Seq(Nat)
         /\ Len(kept) <= Limit
         /\ Len(kept) <= Len(history)
         /\ \A i \in DOMAIN kept : kept[i] = history[Len(history) - Len(kept) + i]
         /\ \A i \in DOMAIN history :
              i <= Len(history) - Len(kept) => now - history[i] >= Window
         /\ \A i \in DOMAIN history :
              i > Len(history) - Len(kept) => now - history[i] <= Window
<1> DEFINE R == Remembered
           L == Len(R)
           H == Len(history)
<1> USE LimiterAssumption
<1>1. /\ R \in Seq(Nat) /\ L \in Nat /\ DOMAIN R = 1 .. L
      /\ L <= Limit /\ L <= H
      /\ \A i \in DOMAIN R : R[i] = history[H - L + i]
      /\ \A i \in DOMAIN history : i <= H - L => now - history[i] >= Window
  BY RememberedIsSuffix
<1>2. /\ history \in Seq(Nat) /\ H \in Nat /\ DOMAIN history = 1 .. H
      /\ now \in Nat
      /\ \A i \in 1 .. H : history[i] \in Nat
  BY DEF WsLimiterInv, TypeOK
<1>3. /\ n \in Nat /\ n <= L
      /\ \A i \in 1 .. n : now - R[i] > Window
      /\ n < L => now - R[n + 1] <= Window
  BY <1>1 DEF Expires
<1>4. kept = SubSeq(R, n + 1, L)
  OBVIOUS
<1> HIDE DEF R, L, H
<1>4a. L \in Nat /\ H \in Nat /\ n \in Nat /\ n <= L /\ L <= H
  BY <1>1, <1>2, <1>3
<1>5. /\ kept \in Seq(Nat) /\ Len(kept) = L - n
      /\ DOMAIN kept = 1 .. L - n
      /\ \A i \in 1 .. L - n : kept[i] = R[n + i]
  <2>1. \A i \in n + 1 .. L : R[i] \in Nat
    BY <1>1, <1>3
  <2>2. /\ SubSeq(R, n + 1, L) \in Seq(Nat)
        /\ Len(SubSeq(R, n + 1, L)) = IF n + 1 <= L THEN L - (n + 1) + 1 ELSE 0
        /\ \A i \in 1 .. L - (n + 1) + 1 : SubSeq(R, n + 1, L)[i] = R[n + 1 + i - 1]
    <3>1. n + 1 \in Int /\ L \in Int
      BY <1>4a
    <3> QED
      BY <2>1, <3>1, SubSeqProperties
  <2>3. Len(kept) = L - n
    BY <1>1, <1>3, <1>4, <2>2
  <2>4. DOMAIN kept = 1 .. L - n
    BY <1>4, <2>2, <2>3, LenProperties
  <2>5. \A i \in 1 .. L - n : kept[i] = R[n + i]
    <3> TAKE i \in 1 .. L - n
    <3>1. i \in 1 .. L - (n + 1) + 1 /\ n + 1 + i - 1 = n + i
      BY <1>1, <1>3
    <3> QED
      BY <1>4, <2>2, <3>1
  <2> QED
    BY <1>4, <2>2, <2>3, <2>4, <2>5
<1>6. \A i \in DOMAIN kept : kept[i] = history[H - Len(kept) + i]
  <2> TAKE i \in DOMAIN kept
  <2>1. i \in 1 .. L - n
    BY <1>5
  <2>2. n + i \in 1 .. L /\ H - L + (n + i) = H - (L - n) + i
    BY <1>4a, <2>1
  <2> QED
    BY <1>1, <1>5, <2>1, <2>2
<1>7. ASSUME NEW i \in DOMAIN history, i <= H - Len(kept)
      PROVE  now - history[i] >= Window
  <2>1. CASE i <= H - L
    BY <1>1, <2>1
  <2>2. CASE i > H - L
    <3>3. i \in Int /\ i <= H - (L - n)
      BY <1>2, <1>5, <1>7
    <3>1. i - (H - L) \in 1 .. n /\ i - (H - L) \in 1 .. L /\ H - L + (i - (H - L)) = i
      BY <1>4a, <2>2, <3>3
    <3>2. R[i - (H - L)] = history[i]
      BY <1>1, <3>1
    <3> QED
      BY <1>2, <1>3, <3>1, <3>2
  <2> QED
    BY <1>1, <1>2, <2>1, <2>2
<1>8. ASSUME NEW i \in DOMAIN history, i > H - Len(kept)
      PROVE  now - history[i] <= Window
  <2>1. n < L /\ n + 1 \in DOMAIN R /\ H - L + (n + 1) \in DOMAIN history
    BY <1>1, <1>2, <1>3, <1>5, <1>8
  <2>2. now - history[H - L + (n + 1)] <= Window
    BY <1>1, <1>3, <2>1
  <2>3. H - L + (n + 1) <= i
    BY <1>1, <1>2, <1>3, <1>5, <1>8
  <2>4. history[H - L + (n + 1)] <= history[i]
    BY <2>1, <2>3 DEF WsLimiterInv, Sorted
  <2> QED
    BY <1>2, <2>1, <2>2, <2>4
<1> QED
  BY <1>1, <1>3, <1>5, <1>6, <1>7, <1>8 DEF H

LEMMA AllowStep ==
  ASSUME WsLimiterInv, NEW kept \in Seq(Nat),
         Len(kept) < Limit, Len(kept) <= Len(history),
         \A i \in DOMAIN kept : kept[i] = history[Len(history) - Len(kept) + i],
         \A i \in DOMAIN history :
           i <= Len(history) - Len(kept) => now - history[i] >= Window,
         Allow(kept), now' = now
  PROVE  WsLimiterInv'
<1> DEFINE H == Len(history)
           K == Len(kept)
<1> USE LimiterAssumption
<1>1. /\ history \in Seq(Nat) /\ H \in Nat /\ DOMAIN history = 1 .. H
      /\ now \in Nat
      /\ \A i \in 1 .. H : history[i] \in Nat
      /\ K \in Nat /\ DOMAIN kept = 1 .. K /\ K < Limit /\ K <= H
  BY DEF WsLimiterInv, TypeOK
<1>2. /\ history' \in Seq(Nat) /\ Len(history') = H + 1
      /\ DOMAIN history' = 1 .. H + 1
      /\ \A i \in 1 .. H : history'[i] = history[i]
      /\ history'[H + 1] = now
  BY <1>1 DEF Allow
<1>3. /\ timestamps' \in Seq(Nat) /\ Len(timestamps') = K + 1
      /\ DOMAIN timestamps' = 1 .. K + 1
      /\ \A i \in 1 .. K : timestamps'[i] = kept[i]
      /\ timestamps'[K + 1] = now
  BY <1>1 DEF Allow
<1>4. now' = now /\ cooldown' = NoCooldown /\ verdict' = "allowed"
  BY DEF Allow
<1>5. \A i \in 1 .. K : kept[i] = history[H - K + i]
  BY <1>1
<1>6. \A i \in 1 .. H : i <= H - K => now - history[i] >= Window
  BY <1>1
<1> HIDE DEF H, K
<1>7. TypeOK'
  BY <1>1, <1>2, <1>3, <1>4 DEF TypeOK, Verdict
<1>8. Sorted'
  <2>1. /\ \A i \in 1 .. H : history[i] <= now
        /\ \A i, j \in 1 .. H : i <= j => history[i] <= history[j]
    BY <1>1 DEF WsLimiterInv, Sorted
  <2>2. \A i \in 1 .. H + 1 : history'[i] <= now
    BY <1>1, <1>2, <2>1
  <2>3. ASSUME NEW i \in 1 .. H + 1, NEW j \in 1 .. H + 1, i <= j
        PROVE  history'[i] <= history'[j]
    <3>1. CASE j = H + 1
      BY <1>2, <2>2, <3>1
    <3>2. CASE j # H + 1
      BY <1>1, <1>2, <2>1, <2>3, <3>2
    <3> QED
      BY <3>1, <3>2
  <2> QED
    BY <1>2, <1>4, <2>2, <2>3 DEF Sorted
<1>8a. Len(history') - Len(timestamps') = H - K /\ Len(timestamps') <= Len(history')
  BY <1>1, <1>2, <1>3
<1>9. QueueIsSuffix'
  <2>1. ASSUME NEW i \in DOMAIN timestamps'
        PROVE  timestamps'[i] = history'[H - K + i]
    <3>1. CASE i = K + 1
      <4>1. H - K + i = H + 1
        BY <1>1, <3>1
      <4> QED
        BY <1>2, <1>3, <3>1, <4>1
    <3>2. CASE i # K + 1
      <4>1. i \in 1 .. K /\ H - K + i \in 1 .. H
        BY <1>1, <1>3, <3>2
      <4> QED
        BY <1>2, <1>3, <1>5, <4>1
    <3> QED
      BY <3>1, <3>2
  <2> QED
    BY <1>8a, <2>1 DEF QueueIsSuffix
<1>10. ForgottenIsOld'
  <2>1. ASSUME NEW i \in DOMAIN history', i <= H - K
        PROVE  now' - history'[i] >= Window
    <3>1. i \in 1 .. H /\ i <= H - K
      BY <1>1, <1>2, <2>1
    <3> QED
      BY <1>2, <1>4, <1>6, <3>1
  <2> QED
    BY <1>8a, <2>1 DEF ForgottenIsOld
<1>11. WindowBound'
  <2>1. ASSUME NEW i \in 1 .. H + 1, i + Limit \in 1 .. H + 1
        PROVE  history'[i + Limit] - history'[i] >= Window
    <3>1. CASE i + Limit = H + 1
      <4>1. i \in 1 .. H /\ i <= H - K
        BY <1>1, <3>1
      <4> QED
        BY <1>2, <1>6, <3>1, <4>1
    <3>2. CASE i + Limit # H + 1
      <4>1. i \in 1 .. H /\ i + Limit \in 1 .. H
        BY <1>1, <2>1, <3>2
      <4>2. history[i + Limit] - history[i] >= Window
        BY <1>1, <4>1 DEF WsLimiterInv, WindowBound
      <4> QED
        BY <1>2, <4>1, <4>2
    <3> QED
      BY <3>1, <3>2
  <2> QED
    BY <1>2, <2>1 DEF WindowBound
<1>12. CooldownFits' /\ DroppedForCause'
  BY <1>4 DEF CooldownFits, DroppedForCause
<1> QED
  BY <1>7, <1>8, <1>9, <1>10, <1>11, <1>12 DEF WsLimiterInv

LEMMA EnterStep ==
  ASSUME WsLimiterInv, NEW kept \in Seq(Nat),
         Len(kept) = Limit, Len(kept) <= Len(history),
         \A i \in DOMAIN kept : kept[i] = history[Len(history) - Len(kept) + i],
         \A i \in DOMAIN history :
           i > Len(history) - Len(kept) => now - history[i] <= Window,
         EnterCooldown(kept), now' = now
  PROVE  WsLimiterInv'
<1> USE LimiterAssumption
<1>1. /\ history \in Seq(Nat) /\ Len(history) \in Nat
      /\ now \in Nat /\ now' = now
      /\ \A i \in DOMAIN history : history[i] \in Nat /\ history[i] <= now
  BY DEF WsLimiterInv, TypeOK, Sorted
<1>2. /\ timestamps' = kept /\ cooldown' = now + Window
      /\ verdict' = "dropped" /\ history' = history
  BY DEF EnterCooldown
<1>3. TypeOK' /\ Sorted' /\ QueueIsSuffix' /\ WindowBound'
  BY <1>1, <1>2 DEF WsLimiterInv, TypeOK, Sorted, QueueIsSuffix, WindowBound, Verdict
<1>4. ForgottenIsOld'
  BY <1>1, <1>2 DEF ForgottenIsOld
<1>5. CooldownFits' /\ DroppedForCause'
  <2>1. \A i \in DOMAIN history :
          /\ now + Window - history[i] >= Window
          /\ i > Len(history) - Limit => now + Window - history[i] <= 2 * Window
          /\ i > Len(history) - Limit => now - history[i] < 2 * Window
    BY <1>1
  <2> QED
    BY <1>1, <1>2, <2>1 DEF CooldownFits, DroppedForCause
<1> QED
  BY <1>3, <1>4, <1>5 DEF WsLimiterInv

LEMMA LimiterStep ==
  ASSUME WsLimiterInv, [Next]_vars
  PROVE  WsLimiterInv'
<1> USE LimiterAssumption
<1>1. CASE Tick
  <2>1. /\ now' = now + 1 /\ verdict' = "none"
        /\ UNCHANGED <<timestamps, cooldown, history>>
    BY <1>1 DEF Tick
  <2>2. /\ now \in Nat
        /\ history \in Seq(Nat) /\ \A i \in DOMAIN history : history[i] \in Nat
    BY DEF WsLimiterInv, TypeOK
  <2>3. TypeOK' /\ QueueIsSuffix' /\ WindowBound' /\ DroppedForCause' /\ CooldownFits'
    BY <2>1, <2>2 DEF WsLimiterInv, TypeOK, QueueIsSuffix, WindowBound, DroppedForCause,
                      CooldownFits, Verdict
  <2>4. Sorted' /\ ForgottenIsOld'
    BY <2>1, <2>2 DEF WsLimiterInv, Sorted, ForgottenIsOld
  <2> QED
    BY <2>3, <2>4 DEF WsLimiterInv
<1>2. CASE DropInCooldown
  <2>1. /\ cooldown # NoCooldown /\ now < cooldown /\ verdict' = "dropped"
        /\ UNCHANGED <<now, timestamps, cooldown, history>>
    BY <1>2 DEF DropInCooldown
  <2>2. /\ now \in Nat /\ cooldown \in Nat
        /\ history \in Seq(Nat) /\ \A i \in DOMAIN history : history[i] \in Nat
    BY <2>1 DEF WsLimiterInv, TypeOK
  <2>3. DroppedForCause'
    BY <2>1, <2>2 DEF WsLimiterInv, CooldownFits, DroppedForCause
  <2> QED
    BY <2>1, <2>3 DEF WsLimiterInv, TypeOK, Sorted, QueueIsSuffix, ForgottenIsOld, CooldownFits,
                      WindowBound, Verdict
<1>3. CASE CheckWindow
  <2>0. PICK n \in 0 .. Len(Remembered) :
          /\ Expires(Remembered, n)
          /\ LET kept == SubSeq(Remembered, n + 1, Len(Remembered)) IN
             \/ AtLimit(kept) /\ EnterCooldown(kept)
             \/ ~AtLimit(kept) /\ Allow(kept)
    BY <1>3 DEF CheckWindow
  <2>1. PICK kept :
          /\ kept = SubSeq(Remembered, n + 1, Len(Remembered))
          /\ Expires(Remembered, n)
          /\ \/ AtLimit(kept) /\ EnterCooldown(kept)
             \/ ~AtLimit(kept) /\ Allow(kept)
    BY <2>0
  <2>2. now' = now /\ (cooldown # NoCooldown => now >= cooldown)
    BY <1>3 DEF CheckWindow
  <2>3. /\ kept \in Seq(Nat) /\ Len(kept) \in Nat
        /\ Len(kept) <= Limit
        /\ Len(kept) <= Len(history)
        /\ \A i \in DOMAIN kept : kept[i] = history[Len(history) - Len(kept) + i]
        /\ \A i \in DOMAIN history :
             i <= Len(history) - Len(kept) => now - history[i] >= Window
        /\ \A i \in DOMAIN history :
             i > Len(history) - Len(kept) => now - history[i] <= Window
    BY <2>1, <2>2, KeptIsRecent, LenProperties
  <2>4. CASE AtLimit(kept) /\ EnterCooldown(kept)
    <3>1. Len(kept) = Limit
      BY <2>3, <2>4 DEF AtLimit
    <3> QED
      BY <2>2, <2>3, <2>4, <3>1, EnterStep
  <2>5. CASE ~AtLimit(kept) /\ Allow(kept)
    <3>1. Len(kept) < Limit
      BY <2>3, <2>5 DEF AtLimit
    <3> QED
      BY <2>2, <2>3, <2>5, <3>1, AllowStep
  <2> QED
    BY <2>1, <2>4, <2>5
<1>4. CASE UNCHANGED vars
  BY <1>4 DEF vars, WsLimiterInv, TypeOK, Sorted, QueueIsSuffix, ForgottenIsOld, CooldownFits,
              WindowBound, DroppedForCause
<1> QED
  BY <1>1, <1>2, <1>3, <1>4 DEF Next

LEMMA LimiterInvariant == Spec => []WsLimiterInv
<1>1. Init => WsLimiterInv
  BY LimiterAssumption
     DEF Init, WsLimiterInv, TypeOK, Sorted, QueueIsSuffix, ForgottenIsOld, CooldownFits,
         WindowBound, DroppedForCause, Verdict
<1>2. WsLimiterInv /\ [Next]_vars => WsLimiterInv'
  BY LimiterStep
<1> QED
  BY <1>1, <1>2, PTL DEF Spec

(***************************************************************************)
(* For every limit and window, the limiter's variables keep their types    *)
(* and its queue never holds more than Limit times.                        *)
(***************************************************************************)
THEOREM LimiterTypeCorrect == Spec => []TypeOK
<1> QED
  BY LimiterInvariant, PTL DEF WsLimiterInv

(***************************************************************************)
(* For every limit and window and every course of messages, Limit + 1      *)
(* messages let through in a row span at least a window.                   *)
(***************************************************************************)
THEOREM LimiterBound == Spec => []WindowBound
<1> QED
  BY LimiterInvariant, PTL DEF WsLimiterInv

(***************************************************************************)
(* For every limit and window, a message is dropped only when Limit        *)
(* messages were let through in the two windows before it.                 *)
(***************************************************************************)
THEOREM LimiterDropsForCause == Spec => []DroppedForCause
<1> QED
  BY LimiterInvariant, PTL DEF WsLimiterInv

(***************************************************************************)
(* WebrtcTransport.  A message posted goes to the end of its end's share   *)
(* of the bus; a poll by one end leaves the other's share as it was.       *)
(***************************************************************************)
BusMessages == [to : Ends, from : Ends, payload : Nat]

BusInv ==
  /\ bus \in Seq(BusMessages)
  /\ posted \in [Ends -> Seq(Nat)] /\ polled \in [Ends -> Seq(Nat)]
  /\ BusKeepsOrder

LEMMA TwoEnds ==
  ASSUME NEW e \in Ends
  PROVE  /\ OtherEnd(e) \in Ends /\ OtherEnd(e) # e
         /\ OtherEnd(OtherEnd(e)) = e
         /\ Ends = {e, OtherEnd(e)}
<1> USE EndsAssumption
<1>1. ASSUME NEW d \in Ends PROVE OtherEnd(d) \in Ends /\ OtherEnd(d) # d
  <2>1. \E c \in Ends : c # d
    OBVIOUS
  <2> QED
    BY <2>1 DEF OtherEnd
<1>2. PICK a \in Ends, b \in Ends : a # b /\ Ends = {a, b}
  OBVIOUS
<1> QED
  BY <1>1, <1>2

LEMMA SharesAreIndices ==
  ASSUME BusInv
  PROVE  /\ Len(bus) \in Nat /\ DOMAIN bus = 1 .. Len(bus)
         /\ \A e : Addressed(e) \in SUBSET (1 .. Len(bus))
BY LenProperties DEF BusInv, Addressed

\* The payloads of what is on its way are as many numbers.
LEMMA ShareIsSequence ==
  ASSUME BusInv, NEW K \in SUBSET (1 .. Len(bus))
  PROVE  /\ Selected(bus, K) \in Seq(BusMessages)
         /\ Len(Selected(bus, K)) = Cardinality(K)
         /\ PayloadsOf(Selected(bus, K)) \in Seq(Nat)
         /\ Len(PayloadsOf(Selected(bus, K))) = Cardinality(K)
<1> DEFINE n == Len(bus)
           m == Cardinality(K)
           s == Selected(bus, K)
<1>1. n \in Nat /\ DOMAIN bus = 1 .. n
  BY SharesAreIndices
<1>2. m \in Nat
  BY <1>1, IndicesFinite
<1>3. PICK f : Enumerates(f, m, K) /\ s = ReadAt(bus, f, m)
  BY <1>1, SelectedIndices
<1> HIDE DEF n, m, s
<1>4. \A i \in 1 .. m : f[i] \in 1 .. n
  BY <1>3 DEF Enumerates, n
<1>5. \A k \in 1 .. n : bus[k] \in BusMessages
  BY <1>1, ElementOfSeq DEF BusInv, n
<1>6. s \in [1 .. m -> BusMessages]
  BY <1>3, <1>4, <1>5 DEF ReadAt
<1>7. PayloadsOf(s) \in [1 .. m -> Nat]
  <2>1. \A i \in 1 .. m : s[i].payload \in Nat
    BY <1>6 DEF BusMessages
  <2> QED
    BY <1>6, <2>1 DEF PayloadsOf
<1> QED
  BY <1>2, <1>6, <1>7 DEF s, m

LEMMA PostStep ==
  ASSUME BusInv, NEW e \in Ends, NEW control, Post(e, control)
  PROVE  BusInv'
<1> DEFINE n == Len(bus)
           payload == Len(posted[e]) + 1
           to == OtherEnd(e)
           msg == [to |-> to, from |-> e, payload |-> payload]
           K == Addressed(to)
           m == Cardinality(K)
           share == PayloadsOf(Selected(bus, K))
<1>1. /\ bus' = Append(bus, msg) /\ polled' = polled
      /\ posted' = [posted EXCEPT ![e] = Append(@, payload)]
  BY DEF Post
<1>2. n \in Nat /\ DOMAIN bus = 1 .. n /\ K \in SUBSET (1 .. n) /\ m \in Nat
  <2>1. n \in Nat /\ DOMAIN bus = 1 .. n /\ K \in SUBSET (1 .. n)
    BY SharesAreIndices
  <2> QED
    BY <2>1, IndicesFinite
<1>3. to \in Ends /\ to # e /\ OtherEnd(to) = e /\ Ends = {e, to}
  BY TwoEnds
<1>4. payload \in Nat /\ msg \in BusMessages
  BY <1>3 DEF BusInv, BusMessages
<1>5. bus' \in Seq(BusMessages) /\ posted' \in [Ends -> Seq(Nat)] /\ polled' \in [Ends -> Seq(Nat)]
  BY <1>1, <1>4 DEF BusInv
<1>6. /\ DOMAIN bus' = 1 .. n + 1 /\ bus'[n + 1] = msg
      /\ \A k \in 1 .. n : bus'[k] = bus[k]
  BY <1>1, <1>2, <1>4, AppendProperties DEF BusInv
<1>7. \A k \in 1 .. n + 1 : k \in 1 .. n \/ k = n + 1
  BY <1>2
<1>8. \A k \in 1 .. n : k \in 1 .. n + 1
  BY <1>2
<1>9. msg.to = to /\ msg.payload = payload
  OBVIOUS
<1> HIDE DEF msg, n, to, payload
<1>10. Addressed(e)' = Addressed(e)
  BY <1>2, <1>3, <1>6, <1>7, <1>8, <1>9 DEF Addressed
<1>11. Addressed(to)' = K \cup {n + 1}
  <2>1. n + 1 \in 1 .. n + 1
    BY <1>2
  <2> QED
    BY <1>2, <1>6, <1>7, <1>8, <1>9, <2>1 DEF Addressed
<1>12. polled[e] \o PayloadsOf(Selected(bus', Addressed(e)')) = posted'[OtherEnd(e)]
  <2>1. Selected(bus', Addressed(e)) = Selected(bus, Addressed(e))
    <3>1. Addressed(e) \in SUBSET (1 .. n)
      BY SharesAreIndices DEF n
    <3> DEFINE L == Addressed(e)
    <3>2. L \in SUBSET (1 .. n)
      BY <3>1
    <3> HIDE DEF L, n
    <3>3. \A k \in L : bus'[k] = bus[k]
      BY <1>6, <3>2
    <3>4. Selected(bus', L) = Selected(bus, L)
      BY <1>2, <3>2, <3>3, SelectedAgree
    <3> QED
      BY <3>4 DEF L
  <2>2. posted'[OtherEnd(e)] = posted[OtherEnd(e)]
    BY <1>1, <1>3 DEF BusInv, to
  <2> QED
    BY <1>10, <2>1, <2>2 DEF BusInv, BusKeepsOrder
<1>13. PayloadsOf(Selected(bus', K \cup {n + 1})) = Append(share, payload)
  <2> DEFINE s == Selected(bus, K)
             t == Selected(bus', K \cup {n + 1})
  <2>1. t = [i \in 1 .. m + 1 |-> IF i <= m THEN Selected(bus', K)[i] ELSE bus'[n + 1]]
    <3> DEFINE list == bus'
    <3>1. n \in Nat /\ K \in SUBSET (1 .. n)
      BY <1>2
    <3> HIDE DEF K, n, list
    <3>2. Selected(list, K \cup {n + 1}) =
            [i \in 1 .. m + 1 |-> IF i <= m THEN Selected(list, K)[i] ELSE list[n + 1]]
      BY <3>1, SelectedNext, SMTT(20)
    <3> QED
      BY <3>2 DEF list
  <2>2. Selected(bus', K) = s
    <3> HIDE DEF K, n, s
    <3>1. K \in SUBSET (1 .. n) /\ \A k \in K : bus'[k] = bus[k]
      BY <1>2, <1>6
    <3>2. Selected(bus', K) = Selected(bus, K)
      BY <1>2, <3>1, SelectedAgree
    <3> QED
      BY <3>2 DEF s
  <2>3. /\ s \in Seq(BusMessages) /\ Len(s) = m
        /\ share \in Seq(Nat) /\ Len(share) = m
    BY <1>2, ShareIsSequence DEF n
  <2> HIDE DEF s, t, m
  <2>4. \A i \in 1 .. m + 1 : i \in 1 .. m \/ i = m + 1
    BY <1>2
  <2>5. DOMAIN t = 1 .. m + 1
    BY <2>1
  <2>6. \A i \in 1 .. m : PayloadsOf(t)[i] = share[i]
    <3>1. \A i \in 1 .. m : i \in 1 .. m + 1 /\ i <= m
      BY <1>2
    <3>2. \A i \in 1 .. m : t[i] = s[i]
      BY <2>1, <2>2, <3>1
    <3>3. DOMAIN s = 1 .. m
      BY <2>3, LenProperties
    <3> QED
      BY <2>5, <3>1, <3>2, <3>3 DEF PayloadsOf, s
  <2>7. PayloadsOf(t)[m + 1] = payload
    <3>1. m + 1 \in 1 .. m + 1 /\ ~(m + 1 <= m)
      BY <1>2
    <3>2. t[m + 1] = msg
      BY <1>6, <2>1, <3>1
    <3> QED
      BY <1>9, <2>5, <3>1, <3>2 DEF PayloadsOf
  <2> HIDE DEF share
  <2>8. Append(share, payload) = [i \in 1 .. m + 1 |-> IF i <= m THEN share[i] ELSE payload]
    <3> DEFINE a == Append(share, payload)
    <3>1. /\ a \in Seq(Nat) /\ Len(a) = m + 1 /\ a[m + 1] = payload
          /\ \A i \in 1 .. m : a[i] = share[i]
      BY <1>4, <2>3, AppendProperties
    <3> HIDE DEF a
    <3>2. a = [i \in 1 .. m + 1 |-> a[i]]
      BY <3>1
    <3>3. \A i \in 1 .. m + 1 : a[i] = IF i <= m THEN share[i] ELSE payload
      BY <1>2, <2>4, <3>1
    <3> QED
      BY <3>2, <3>3 DEF a
  <2>9. PayloadsOf(t) = [i \in 1 .. m + 1 |-> PayloadsOf(t)[i]]
    BY <2>5 DEF PayloadsOf
  <2>10. \A i \in 1 .. m : i <= m
    BY <1>2
  <2>11. ~(m + 1 <= m)
    BY <1>2
  <2> HIDE DEF t
  <2>12. PayloadsOf(t) = Append(share, payload)
    BY <2>4, <2>6, <2>7, <2>8, <2>9, <2>10, <2>11
  <2> QED
    BY <2>12 DEF t
<1>14. polled[to] \o Append(share, payload) = posted'[OtherEnd(to)]
  <2>1. share \in Seq(Nat) /\ polled[to] \in Seq(Nat)
    BY <1>2, <1>3, ShareIsSequence DEF BusInv, n
  <2>2. polled[to] \o share = posted[e]
    BY <1>3 DEF BusInv, BusKeepsOrder
  <2> DEFINE q == polled[to]
  <2>8. q \in Seq(Nat)
    BY <2>1
  <2> HIDE DEF share, q
  <2>3. Append(share, payload) = share \o <<payload>> /\ <<payload>> \in Seq(Nat)
    <3>1. share \in Seq(Nat) /\ payload \in Nat
      BY <1>4, <2>1
    <3> HIDE DEF payload
    <3>2. Append(share, payload) = share \o <<payload>>
      BY <3>1, AppendIsConcat
    <3> QED
      BY <3>1, <3>2
  <2>4. (q \o share) \o <<payload>> = q \o (share \o <<payload>>)
    <3> DEFINE one == <<payload>>
    <3>1. q \in Seq(Nat) /\ share \in Seq(Nat) /\ one \in Seq(Nat)
      BY <2>1, <2>3, <2>8
    <3> HIDE DEF one
    <3>2. (q \o share) \o one = q \o (share \o one)
      BY <3>1, ConcatAssociative, SMTT(20)
    <3> QED
      BY <3>2 DEF one
  <2>5. q \o share \in Seq(Nat)
    BY <2>1, <2>8, ConcatProperties
  <2>6. (q \o share) \o <<payload>> = Append(q \o share, payload)
    <3> DEFINE r == q \o share
    <3>1. r \in Seq(Nat)
      BY <2>5
    <3> HIDE DEF r
    <3>2. r \o <<payload>> = Append(r, payload)
      BY <1>4, <3>1, AppendIsConcat
    <3> QED
      BY <3>2 DEF r
  <2>7. posted'[e] = Append(posted[e], payload)
    BY <1>1 DEF BusInv
  <2> QED
    BY <1>3, <2>2, <2>3, <2>4, <2>6, <2>7 DEF q
<1>15. BusKeepsOrder'
  BY <1>1, <1>3, <1>11, <1>12, <1>13, <1>14 DEF BusKeepsOrder
<1> QED
  BY <1>5, <1>15 DEF BusInv

LEMMA PollBusStep ==
  ASSUME BusInv, NEW e \in Ends, PollBus(e)
  PROVE  BusInv'
<1> DEFINE n == Len(bus)
           d == OtherEnd(e)
           K == Addressed(e)
           rest == DOMAIN bus \ K
           m == Cardinality(rest)
           share == PayloadsOf(Selected(bus, K))
<1>1. /\ bus' = Selected(bus, rest) /\ posted' = posted
      /\ polled' = [polled EXCEPT ![e] = @ \o share]
  BY DEF PollBus, Taken
<1>2. /\ n \in Nat /\ DOMAIN bus = 1 .. n
      /\ K \in SUBSET (1 .. n) /\ rest \in SUBSET (1 .. n)
  BY SharesAreIndices
<1>3. d \in Ends /\ d # e /\ OtherEnd(d) = e /\ Ends = {e, d}
  BY TwoEnds
<1>4. share \in Seq(Nat)
  BY <1>2, ShareIsSequence
<1>5. bus' \in Seq(BusMessages) /\ posted' \in [Ends -> Seq(Nat)] /\ polled' \in [Ends -> Seq(Nat)]
  <2>1. Selected(bus, rest) \in Seq(BusMessages)
    BY <1>2, ShareIsSequence
  <2>2. polled[e] \o share \in Seq(Nat)
    <3> DEFINE q == polled[e]
    <3>1. q \in Seq(Nat)
      BY DEF BusInv
    <3> HIDE DEF q, share
    <3>2. q \o share \in Seq(Nat)
      BY <1>4, <3>1, ConcatProperties
    <3> QED
      BY <3>2 DEF q
  <2> HIDE DEF share, rest
  <2> QED
    BY <1>1, <2>1, <2>2 DEF BusInv
<1>6. PICK f : Enumerates(f, m, rest) /\ Selected(bus, rest) = ReadAt(bus, f, m)
  <2> HIDE DEF rest, n
  <2> QED
    BY <1>2, SelectedIndices
<1>7. DOMAIN bus' = 1 .. m /\ \A k \in 1 .. m : bus'[k] = bus[f[k]] /\ f[k] \in rest
  <2> HIDE DEF rest, m
  <2> QED
    BY <1>1, <1>6 DEF ReadAt, Enumerates
<1>8. Addressed(e)' = {}
  <2> HIDE DEF m
  <2> QED
    BY <1>7 DEF Addressed
<1>9. Addressed(d)' = Places(f, m, Addressed(d))
  <2> HIDE DEF m
  <2> QED
    BY <1>7 DEF Addressed, Places
<1>10. Selected(bus', Addressed(d)') = Selected(bus, Addressed(d))
  <2>1. Addressed(d) \in SUBSET rest
    BY <1>3 DEF Addressed
  <2>2. Selected(Selected(bus, rest), Places(f, m, Addressed(d)))
          = Selected(bus, Addressed(d))
    <3> HIDE DEF rest, n
    <3> QED
      BY <1>2, <1>6, <2>1, SelectedTwice
  <2> QED
    BY <1>1, <1>9, <2>2
<1>11. PayloadsOf(Selected(bus', Addressed(e)')) = <<>>
  <2>1. Selected(bus', Addressed(e)') = <<>>
    BY <1>8, NothingSelected
  <2>2. PayloadsOf(<<>>) = <<>>
    BY DEF PayloadsOf
  <2> QED
    BY <2>1, <2>2
<1> HIDE DEF share
<1>12. polled'[e] \o <<>> = posted'[OtherEnd(e)]
  <2>1. polled'[e] = polled[e] \o share
    BY <1>1 DEF BusInv
  <2>2. polled'[e] \in Seq(Nat)
    BY <1>5
  <2>3. polled'[e] \o <<>> = polled'[e]
    BY <2>2, ConcatEmptySeq
  <2> QED
    BY <1>1, <2>1, <2>3 DEF BusInv, BusKeepsOrder, share
<1>13. polled'[d] = polled[d]
  BY <1>1, <1>3 DEF BusInv
<1>14. BusKeepsOrder'
  BY <1>1, <1>3, <1>10, <1>11, <1>12, <1>13 DEF BusInv, BusKeepsOrder
<1> QED
  BY <1>5, <1>14 DEF BusInv

(***************************************************************************)
(* Each end gets what the other posted once and in order, however the two  *)
(* ends' sends and polls interleave over the one list they share.          *)
(* (webrtc_transport.rs lines 906 to 916)                                  *)
(***************************************************************************)
THEOREM BusIsInOrder == BusSpec => []BusKeepsOrder
<1>1. CarrierInit => BusInv
  <2> SUFFICES ASSUME CarrierInit PROVE BusInv
    OBVIOUS
  <2>1. /\ bus = <<>> /\ posted = [e \in Ends |-> <<>>] /\ polled = posted
    BY DEF CarrierInit
  <2>2. bus \in Seq(BusMessages) /\ posted \in [Ends -> Seq(Nat)] /\ polled \in [Ends -> Seq(Nat)]
    BY <2>1
  <2>3. \A e \in Ends : Addressed(e) = {}
    BY <2>1 DEF Addressed
  <2>4. PayloadsOf(Selected(bus, {})) = <<>>
    <3>1. Selected(bus, {}) = <<>>
      BY NothingSelected
    <3> QED
      BY <3>1 DEF PayloadsOf
  <2>5. <<>> \o <<>> = <<>>
    OBVIOUS
  <2> QED
    BY <2>1, <2>2, <2>3, <2>4, <2>5, TwoEnds DEF BusInv, BusKeepsOrder
<1>2. BusInv /\ [BusNext]_carrierVars => BusInv'
  <2> SUFFICES ASSUME BusInv, [BusNext]_carrierVars PROVE BusInv'
    OBVIOUS
  <2>1. ASSUME UNCHANGED <<bus, posted, polled>> PROVE BusInv'
    BY <2>1 DEF BusInv, BusKeepsOrder, Addressed, PayloadsOf
  <2>2. CASE UNCHANGED carrierVars
    BY <2>1, <2>2 DEF carrierVars, busVars
  <2>3. CASE \E e \in Ends : Register(e)
    BY <2>1, <2>3 DEF Register
  <2>4. CASE \E e \in Ends, control \in BOOLEAN : Post(e, control)
    BY <2>4, PostStep
  <2>5. CASE \E e \in Ends : PollBus(e)
    BY <2>5, PollBusStep
  <2> QED
    BY <2>2, <2>3, <2>4, <2>5 DEF BusNext
<1>3. BusInv => BusKeepsOrder
  BY DEF BusInv
<1> QED
  BY <1>1, <1>2, <1>3, PTL DEF BusSpec

-----------------------------------------------------------------------------
(***************************************************************************)
(* RoomManager: bloom/core on its own, called by anybody with anything.    *)
(***************************************************************************)
(***************************************************************************)
(* However the callers order their calls, the table is one of lists of     *)
(* participants, and its rooms have ids that create_room handed out.       *)
(***************************************************************************)
THEOREM RoomTypeCorrect == ManagerSpec => []RoomTypeOK
<1>1. ManagerInit => RoomTypeOK
  BY DEF ManagerInit, NoRooms, RoomTypeOK
<1>2. RoomTypeOK /\ [ManagerNext]_managerVars => RoomTypeOK'
  <2> SUFFICES ASSUME RoomTypeOK, [ManagerNext]_managerVars
               PROVE  RoomTypeOK'
    OBVIOUS
  <2>1. rooms \in [DOMAIN rooms -> Seq(Participant)]
    BY DEF RoomTypeOK
  <2>2. ASSUME NEW p \in Participant, CreateRoom(p)
        PROVE  RoomTypeOK'
    <3>1. PICK r \in RoomId \ used :
            rooms' = Created(rooms, r, p) /\ used' = used \cup {r}
      BY <2>2 DEF CreateRoom
    <3>2. /\ DOMAIN rooms' = DOMAIN rooms \cup {r}
          /\ rooms' \in [DOMAIN rooms' -> Seq(Participant)]
      BY <2>1, <3>1, CreatedProperties
    <3> QED
      BY <3>1, <3>2 DEF RoomTypeOK
  <2>3. ASSUME NEW p \in Participant, NEW r \in RoomId, JoinRoom(p, r)
        PROVE  RoomTypeOK'
    <3>1. /\ DOMAIN rooms' = DOMAIN rooms
          /\ rooms' \in [DOMAIN rooms' -> Seq(Participant)]
      BY <2>1, <2>3, JoinedProperties DEF JoinRoom
    <3> QED
      BY <2>3, <3>1 DEF JoinRoom, RoomTypeOK
  <2>4. ASSUME NEW p \in Participant, NEW r \in RoomId, LeaveRoom(p, r)
        PROVE  RoomTypeOK'
    <3>1. /\ DOMAIN rooms' \subseteq DOMAIN rooms
          /\ rooms' \in [DOMAIN rooms' -> Seq(Participant)]
      BY <2>1, <2>4, LeftProperties DEF LeaveRoom
    <3> QED
      BY <2>4, <3>1 DEF LeaveRoom, RoomTypeOK
  <2>5. CASE UNCHANGED managerVars
    BY <2>5 DEF managerVars, RoomTypeOK
  <2> QED
    BY <2>2, <2>3, <2>4, <2>5 DEF ManagerNext
<1> QED
  BY <1>1, <1>2, PTL DEF ManagerSpec

(***************************************************************************)
(* Whoever calls join_room and leave_room, members or not and as often as  *)
(* they like, no room is empty, over MAX_PARTICIPANTS or names anyone      *)
(* twice.                                                                  *)
(***************************************************************************)
THEOREM RoomsAreWellFormed == ManagerSpec => []RoomsWellFormed
<1>1. ManagerInit => RoomsWellFormed
  BY DEF ManagerInit, NoRooms, RoomsWellFormed, WellFormed
<1>2. RoomTypeOK /\ RoomsWellFormed /\ [ManagerNext]_managerVars => RoomsWellFormed'
  <2> SUFFICES ASSUME RoomTypeOK, WellFormed(rooms), [ManagerNext]_managerVars
               PROVE  WellFormed(rooms')
    BY DEF RoomsWellFormed, WellFormed
  <2>1. rooms \in [DOMAIN rooms -> Seq(Participant)]
    BY DEF RoomTypeOK
  <2>2. ASSUME NEW p \in Participant, CreateRoom(p)
        PROVE  WellFormed(rooms')
    <3>1. PICK r \in RoomId \ used : rooms' = Created(rooms, r, p)
      BY <2>2 DEF CreateRoom
    <3> QED
      BY <2>1, <3>1, CreatedProperties
  <2>3. ASSUME NEW p \in Participant, NEW r \in RoomId, JoinRoom(p, r)
        PROVE  WellFormed(rooms')
    BY <2>1, <2>3, JoinedProperties DEF JoinRoom
  <2>4. ASSUME NEW p \in Participant, NEW r \in RoomId, LeaveRoom(p, r)
        PROVE  WellFormed(rooms')
    BY <2>1, <2>4, LeftProperties DEF LeaveRoom
  <2>5. CASE UNCHANGED managerVars
    BY <2>5 DEF managerVars
  <2> QED
    BY <2>2, <2>3, <2>4, <2>5 DEF ManagerNext
<1> QED
  BY <1>1, <1>2, RoomTypeCorrect, PTL DEF ManagerSpec

(***************************************************************************)
(* A room id that was handed out and whose room has emptied never names a  *)
(* room again: late calls with it find nothing.                            *)
(***************************************************************************)
THEOREM DissolvedRoomsStayDissolved == ManagerSpec => DissolvedStaysDissolved
<1>1. RoomTypeOK /\ [ManagerNext]_managerVars
        => [used \ DOMAIN rooms \subseteq used' \ DOMAIN rooms']_managerVars
  <2> SUFFICES ASSUME RoomTypeOK, ManagerNext
               PROVE  used \ DOMAIN rooms \subseteq used' \ DOMAIN rooms'
    OBVIOUS
  <2>1. rooms \in [DOMAIN rooms -> Seq(Participant)]
    BY DEF RoomTypeOK
  <2>2. ASSUME NEW p \in Participant, CreateRoom(p)
        PROVE  used \ DOMAIN rooms \subseteq used' \ DOMAIN rooms'
    <3>1. PICK r \in RoomId \ used :
            rooms' = Created(rooms, r, p) /\ used' = used \cup {r}
      BY <2>2 DEF CreateRoom
    <3>2. DOMAIN rooms' = DOMAIN rooms \cup {r}
      BY <2>1, <3>1, CreatedProperties
    <3> QED
      BY <3>1, <3>2
  <2>3. ASSUME NEW p \in Participant, NEW r \in RoomId, JoinRoom(p, r)
        PROVE  used \ DOMAIN rooms \subseteq used' \ DOMAIN rooms'
    BY <2>1, <2>3, JoinedProperties DEF JoinRoom
  <2>4. ASSUME NEW p \in Participant, NEW r \in RoomId, LeaveRoom(p, r)
        PROVE  used \ DOMAIN rooms \subseteq used' \ DOMAIN rooms'
    BY <2>1, <2>4, LeftProperties DEF LeaveRoom
  <2> QED
    BY <2>2, <2>3, <2>4 DEF ManagerNext
<1> QED
  BY <1>1, RoomTypeCorrect, PTL DEF ManagerSpec, DissolvedStaysDissolved
-----------------------------------------------------------------------------
\* Leaving swaps nobody who stays.
LEMMA RetainKeepsOrder ==
  ASSUME NEW list \in Seq(Participant), NEW x,
         NEW p \in Range(list) \ {x}, NEW q \in Range(list) \ {x}
  PROVE  Precedes(Retain(list, x), p, q) <=> Precedes(list, p, q)
<1> DEFINE rest == Retain(list, x)
<1>1. /\ rest \in Seq(Participant)
      /\ DOMAIN rest = 1 .. Len(rest)
      /\ DOMAIN list = 1 .. Len(list) /\ Len(list) \in Nat /\ Len(rest) \in Nat
  BY RetainProperties, LenProperties
<1>2. Kept(list, x) \subseteq 1 .. Len(list)
  BY KeptFinite
<1>3. PICK f \in [1 .. Len(rest) -> Kept(list, x)] :
        /\ \A n \in 1 .. Len(rest) : rest[n] = list[f[n]]
        /\ \A m, n \in 1 .. Len(rest) : m < n => f[m] < f[n]
        /\ \A i \in Kept(list, x) : \E n \in 1 .. Len(rest) : f[n] = i
  BY RetainIndices
<1> HIDE DEF rest
<1>4. ASSUME Precedes(rest, p, q)
      PROVE  Precedes(list, p, q)
  <2>1. PICK m, n \in 1 .. Len(rest) : m < n /\ rest[m] = p /\ rest[n] = q
    BY <1>1, <1>4 DEF Precedes
  <2>2. f[m] \in DOMAIN list /\ f[n] \in DOMAIN list /\ f[m] < f[n]
    BY <1>1, <1>2, <1>3, <2>1
  <2>3. list[f[m]] = p /\ list[f[n]] = q
    BY <1>3, <2>1
  <2> QED
    BY <2>2, <2>3 DEF Precedes
<1>5. ASSUME Precedes(list, p, q)
      PROVE  Precedes(rest, p, q)
  <2>1. PICK i, j \in DOMAIN list : i < j /\ list[i] = p /\ list[j] = q
    BY <1>5 DEF Precedes
  <2>2. i \in Kept(list, x) /\ j \in Kept(list, x)
    BY <2>1 DEF Kept
  <2>3. PICK m, n \in 1 .. Len(rest) : f[m] = i /\ f[n] = j
    BY <1>3, <2>2
  <2>4. m < n
    <3>1. ~(n < m)
      BY <1>1, <1>3, <2>1, <2>3
    <3>2. m # n
      BY <1>1, <2>1, <2>3
    <3> QED
      BY <1>1, <3>1, <3>2
  <2>5. rest[m] = p /\ rest[n] = q
    BY <1>3, <2>1, <2>3
  <2> QED
    BY <1>1, <2>4, <2>5 DEF Precedes
<1> QED
  BY <1>4, <1>5 DEF rest

\* A newcomer is behind everyone, and the others are as they were.
LEMMA AppendKeepsOrder ==
  ASSUME NEW list \in Seq(Participant), NEW x \in Participant \ Range(list),
         NEW p \in Range(list), NEW q \in Range(list) \cup {x}
  PROVE  Precedes(Append(list, x), p, q)
           <=> (q \in Range(list) => Precedes(list, p, q))
<1>1. /\ DOMAIN Append(list, x) = 1 .. Len(list) + 1
      /\ \A i \in 1 .. Len(list) : Append(list, x)[i] = list[i]
      /\ Append(list, x)[Len(list) + 1] = x
      /\ DOMAIN list = 1 .. Len(list) /\ Len(list) \in Nat
  BY AppendProperties, LenProperties
<1>2. CASE q = x
  <2>1. PICK i \in DOMAIN list : list[i] = p
    BY DEF Range
  <2>2. i < Len(list) + 1 /\ i \in DOMAIN Append(list, x)
          /\ Len(list) + 1 \in DOMAIN Append(list, x)
    BY <1>1, <2>1
  <2>3. Precedes(Append(list, x), p, q)
    BY <1>1, <1>2, <2>1, <2>2 DEF Precedes
  <2> QED
    BY <1>2, <2>3
<1>3. CASE q # x
  <2>1. q \in Range(list) /\ p # x
    BY <1>3
  <2>2. \A i \in DOMAIN Append(list, x) :
          Append(list, x)[i] \in {p, q} => i \in DOMAIN list /\ Append(list, x)[i] = list[i]
    BY <1>1, <1>3, <2>1
  <2>3. Precedes(Append(list, x), p, q) => Precedes(list, p, q)
    BY <2>2 DEF Precedes
  <2>4. Precedes(list, p, q) => Precedes(Append(list, x), p, q)
    BY <1>1 DEF Precedes
  <2> QED
    BY <2>1, <2>3, <2>4
<1> QED
  BY <1>2, <1>3

\* What is said of two lists of a room, before and after a call.
OrderKept(before, after) ==
  \A p \in Range(before), q \in Range(after) :
    p \in Range(after) =>
      (Precedes(after, p, q) <=>
         /\ p # q
         /\ q \in Range(before) => Precedes(before, p, q))

\* In a list without duplicates nobody is ahead of himself.
LEMMA NobodyPrecedesHimself ==
  ASSUME NEW list \in Seq(Participant), NoDuplicates(list), NEW p
  PROVE  ~Precedes(list, p, p)
<1>1. DOMAIN list \subseteq Int
  BY LenProperties
<1> QED
  BY <1>1 DEF Precedes, NoDuplicates

(***************************************************************************)
(* The list of a room is the order of joining, whoever leaves or joins     *)
(* again in between: nobody who stays overtakes another, and every         *)
(* newcomer goes behind all the others.                                    *)
(***************************************************************************)
THEOREM ListsKeepJoinOrder == ManagerSpec => JoinOrderKept
<1>1. RoomTypeOK /\ RoomsWellFormed /\ RoomTypeOK' /\ RoomsWellFormed' /\ ManagerNext
        => \A r \in DOMAIN rooms \cap DOMAIN rooms' : OrderKept(rooms[r], rooms'[r])
  <2> SUFFICES ASSUME RoomTypeOK, WellFormed(rooms), RoomTypeOK', WellFormed(rooms'), ManagerNext,
                      NEW r \in DOMAIN rooms \cap DOMAIN rooms'
               PROVE  OrderKept(rooms[r], rooms'[r])
    BY DEF RoomsWellFormed, WellFormed
  <2>1. /\ rooms \in [DOMAIN rooms -> Seq(Participant)]
        /\ rooms[r] \in Seq(Participant) /\ NoDuplicates(rooms[r])
        /\ rooms'[r] \in Seq(Participant) /\ NoDuplicates(rooms'[r])
        /\ DOMAIN rooms \subseteq used
    BY DEF RoomTypeOK, WellFormed
  <2>2. \A p : ~Precedes(rooms[r], p, p) /\ ~Precedes(rooms'[r], p, p)
    BY <2>1, NobodyPrecedesHimself
  <2>3. CASE rooms'[r] = rooms[r]
    BY <2>2, <2>3 DEF OrderKept
  <2>4. ASSUME NEW x \in Participant \ Range(rooms[r]),
               rooms'[r] = Append(rooms[r], x)
        PROVE  OrderKept(rooms[r], rooms'[r])
    <3>1. Range(rooms'[r]) = Range(rooms[r]) \cup {x}
      BY <2>1, <2>4, AppendMember
    <3> QED
      BY <2>1, <2>2, <2>4, <3>1, AppendKeepsOrder DEF OrderKept
  <2>5. ASSUME NEW x, rooms'[r] = Retain(rooms[r], x)
        PROVE  OrderKept(rooms[r], rooms'[r])
    <3>1. Range(rooms'[r]) = Range(rooms[r]) \ {x}
      BY <2>1, <2>5, RetainProperties
    <3> QED
      BY <2>1, <2>2, <2>5, <3>1, RetainKeepsOrder DEF OrderKept
  <2>6. ASSUME NEW p \in Participant, CreateRoom(p)
        PROVE  OrderKept(rooms[r], rooms'[r])
    <3>1. PICK s \in RoomId \ used : rooms' = Created(rooms, s, p)
      BY <2>6 DEF CreateRoom
    <3>2. rooms'[r] = rooms[r]
      BY <2>1, <3>1 DEF Created
    <3> QED
      BY <2>3, <3>2
  <2>7. ASSUME NEW p \in Participant, NEW s \in RoomId, JoinRoom(p, s)
        PROVE  OrderKept(rooms[r], rooms'[r])
    <3>1. s \in DOMAIN rooms /\ rooms' = Joined(rooms, s, p)
      BY <2>7 DEF JoinRoom
    <3>2. CASE s # r \/ p \in Range(rooms[s])
      <4>1. rooms'[r] = rooms[r]
        BY <3>1, <3>2 DEF Joined
      <4> QED
        BY <2>3, <4>1
    <3>3. CASE s = r /\ p \notin Range(rooms[s])
      <4>1. rooms'[r] = Append(rooms[r], p)
        BY <3>1, <3>3 DEF Joined
      <4> QED
        BY <2>4, <3>3, <4>1
    <3> QED
      BY <3>2, <3>3
  <2>8. ASSUME NEW p \in Participant, NEW s \in RoomId, LeaveRoom(p, s)
        PROVE  OrderKept(rooms[r], rooms'[r])
    <3>1. s \in DOMAIN rooms /\ rooms' = Left(rooms, s, p)
      BY <2>8 DEF LeaveRoom
    <3>2. rooms'[r] = rooms[r] \/ rooms'[r] = Retain(rooms[r], p)
      BY <2>1, <3>1 DEF Left, Restrict
    <3> QED
      BY <2>3, <2>5, <3>2
  <2> QED
    BY <2>6, <2>7, <2>8 DEF ManagerNext
<1>2. (\A r \in DOMAIN rooms \cap DOMAIN rooms' : OrderKept(rooms[r], rooms'[r]))
        <=> (\A r \in DOMAIN rooms \cap DOMAIN rooms' :
               \A p \in Range(rooms[r]), q \in Range(rooms'[r]) :
                 p \in Range(rooms'[r]) =>
                   (Precedes(rooms'[r], p, q) <=>
                      /\ p # q
                      /\ q \in Range(rooms[r]) => Precedes(rooms[r], p, q)))
  BY DEF OrderKept
<1> QED
  BY <1>1, <1>2, RoomTypeCorrect, RoomsAreWellFormed, PTL DEF ManagerSpec, JoinOrderKept
-----------------------------------------------------------------------------
\* RoomMembership counts as this module does.
LEMMA SameCardinality ==
  ASSUME NEW S
  PROVE  Membership!Cardinality(S) = Cardinality(S)
BY DEF Membership!Cardinality, Cardinality

(***************************************************************************)
(* RoomManager implements RoomMembership: behind the ordered lists a room  *)
(* is opened once, gains and loses one member at a time, stays within the  *)
(* limit and never comes back, whoever calls.                              *)
(***************************************************************************)
THEOREM ManagerImplementsMembership == ManagerSpec => MembershipSpec
<1> DEFINE members == [r \in RoomId |-> MembersOf(rooms, r)]
<1>1. ManagerInit => Membership!Init
  BY DEF ManagerInit, NoRooms, Membership!Init, MembersOf, ListOf, Range
<1>2. RoomTypeOK /\ RoomsWellFormed /\ RoomTypeOK' /\ RoomsWellFormed' /\ [ManagerNext]_managerVars
        => [Membership!Next]_(Membership!vars)
  <2> SUFFICES ASSUME RoomTypeOK, WellFormed(rooms), RoomTypeOK', WellFormed(rooms'),
                      [ManagerNext]_managerVars
               PROVE  [Membership!Next]_(Membership!vars)
    BY DEF RoomsWellFormed, WellFormed
  <2>1. /\ rooms \in [DOMAIN rooms -> Seq(Participant)]
        /\ rooms' \in [DOMAIN rooms' -> Seq(Participant)]
        /\ DOMAIN rooms \subseteq RoomId
    BY DEF RoomTypeOK
  <2>2. ASSUME NEW p \in Participant, CreateRoom(p)
        PROVE  \E r \in RoomId : Membership!Open(p, r)
    <3>1. PICK r \in RoomId \ used :
            rooms' = Created(rooms, r, p) /\ used' = used \cup {r}
      BY <2>2 DEF CreateRoom
    <3>2. \A x : MembersOf(rooms', x) = IF x = r THEN {p} ELSE MembersOf(rooms, x)
      BY <2>1, <3>1, CreatedMembers
    <3>3. members' = [members EXCEPT ![r] = {p}]
      BY <3>2
    <3> QED
      BY <3>1, <3>3 DEF Membership!Open
  <2>3. ASSUME NEW p \in Participant, NEW r \in RoomId, JoinRoom(p, r)
        PROVE  Membership!Enter(p, r)
    <3>1. /\ r \in DOMAIN rooms
          /\ rooms' = Joined(rooms, r, p)
          /\ used' = used
      BY <2>3 DEF JoinRoom
    <3>2. /\ DOMAIN rooms' = DOMAIN rooms
          /\ \A x : MembersOf(rooms', x) =
                      IF x = r THEN MembersOf(rooms, r) \cup {p} ELSE MembersOf(rooms, x)
      BY <2>1, <3>1, JoinedProperties
    <3>3. members' = [members EXCEPT ![r] = @ \cup {p}]
      BY <3>2
    <3>4. Cardinality(MembersOf(rooms', r)) <= MaxParticipants
      <4>1. /\ rooms'[r] \in Seq(Participant)
            /\ Len(rooms'[r]) \in 1 .. MaxParticipants
            /\ MembersOf(rooms', r) = Range(rooms'[r])
        BY <2>1, <3>1, <3>2 DEF WellFormed, MembersOf, ListOf
      <4>2. /\ IsFiniteSet(Range(rooms'[r]))
            /\ Cardinality(Range(rooms'[r])) <= Len(rooms'[r])
        BY <4>1, MembersCounted
      <4>3. Cardinality(Range(rooms'[r])) \in Nat
        BY <4>2, FS_CardinalityType
      <4> QED
        BY <4>1, <4>2, <4>3, MaxParticipantsAssumption
    <3>5. members[r] # {}
      <4>1. rooms[r] \in Seq(Participant) /\ Len(rooms[r]) \in 1 .. MaxParticipants
        BY <2>1, <3>1 DEF WellFormed
      <4>2. rooms[r][1] \in Range(rooms[r])
        BY <4>1, LenProperties, MaxParticipantsAssumption DEF Range
      <4> QED
        BY <3>1, <4>2 DEF MembersOf, ListOf
    <3>6. members[r] \cup {p} = MembersOf(rooms', r)
      BY <3>2
    <3> QED
      BY <3>1, <3>3, <3>4, <3>5, <3>6, SameCardinality DEF Membership!Enter
  <2>4. ASSUME NEW p \in Participant, NEW r \in RoomId, LeaveRoom(p, r)
        PROVE  Membership!Exit(p, r)
    <3>1. r \in DOMAIN rooms /\ rooms' = Left(rooms, r, p) /\ used' = used
      BY <2>4 DEF LeaveRoom
    <3>2. \A x : MembersOf(rooms', x) =
                   IF x = r THEN MembersOf(rooms, r) \ {p} ELSE MembersOf(rooms, x)
      BY <2>1, <3>1, LeftProperties
    <3>3. members' = [members EXCEPT ![r] = @ \ {p}]
      BY <3>2
    <3> QED
      BY <3>1, <3>3 DEF Membership!Exit
  <2>5. CASE UNCHANGED managerVars
    BY <2>5 DEF managerVars, Membership!vars
  <2> QED
    BY <2>2, <2>3, <2>4, <2>5 DEF ManagerNext, Membership!Next
<1> QED
  BY <1>1, <1>2, RoomTypeCorrect, RoomsAreWellFormed, PTL
     DEF ManagerSpec, MembershipSpec, Membership!Spec
=============================================================================
