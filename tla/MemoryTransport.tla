--------------------------- MODULE MemoryTransport ---------------------------
(***************************************************************************)
(* The two in-process carriers a syncer can be run on: WebrtcTransport, a  *)
(* pair of ends over one shared list of payloads                           *)
(* (syncer/src/webrtc_transport.rs), and InMemorySignalingHub, a queue of  *)
(* signaling messages per registered peer (webrtc_transport/               *)
(* signaling_hub.rs).  A payload is the number of its sender's send.       *)
(***************************************************************************)
EXTENDS Integers, Sequences, SequencesExt, Subsequences

CONSTANTS
  Ends,          \* the two ends of the pair
  MaxPosts       \* bound: sends of each end

ASSUME EndsAssumption == \E d, e \in Ends : d # e /\ Ends = {d, e}

VARIABLES
  registered,    \* ends whose register_participant named themselves
  failOnce,      \* ends whose inject_failure_once is set
  bus,           \* WebrtcBus.messages, of both directions
  failures,      \* ends with a Failure in WebrtcState.pending
  posted,        \* per end, the payloads it sent while registered
  polled,        \* per end, what its polls have returned
  queues,        \* InMemorySignalingHub.inner
  offered,       \* per end, the signals sent to it while it was registered
  drained        \* per end, what drain_for has returned

busVars == <<registered, failOnce, bus, failures, posted, polled>>
hubVars == <<queues, offered, drained>>
carrierVars == <<busVars, hubVars>>

CarrierInit ==
  /\ registered = {} /\ failOnce \in SUBSET Ends
  /\ bus = <<>> /\ failures = {}
  /\ posted = [e \in Ends |-> <<>>] /\ polled = posted
  /\ queues = [e \in {} |-> <<>>]
  /\ offered = posted /\ drained = posted

OtherEnd(e) == CHOOSE d \in Ends : d # e

Register(e) ==
  /\ registered' = registered \cup {e}
  /\ UNCHANGED <<failOnce, bus, failures, posted, polled, hubVars>>

(***************************************************************************)
(* The failure injected into the first send that is not a control message  *)
(* is reported to the sender; the payload is delivered all the same.       *)
(***************************************************************************)
Inject(e, control) ==
  IF e \in failOnce /\ ~control
  THEN failures' = failures \cup {e} /\ failOnce' = failOnce \ {e}
  ELSE UNCHANGED <<failures, failOnce>>

\* Before the registration a send is dropped.
Post(e, control) ==
  /\ e \in registered /\ Len(posted[e]) < MaxPosts
  /\ Inject(e, control)
  /\ LET payload == Len(posted[e]) + 1
     IN  /\ bus' = Append(bus, [to |-> OtherEnd(e), from |-> e, payload |-> payload])
         /\ posted' = [posted EXCEPT ![e] = Append(@, payload)]
  /\ UNCHANGED <<registered, polled, hubVars>>

\* The messages of the bus on their way to e, by their indices.
Addressed(e) == {k \in DOMAIN bus : bus[k].to = e}

PayloadsOf(messages) == [k \in DOMAIN messages |-> messages[k].payload]

\* The list walked from its end (for mutation).
TakenBackwards(e) == Reverse(Selected(bus, Addressed(e)))

Taken(e) == Selected(bus, Addressed(e))

PollBus(e) ==
  /\ e \in registered
  /\ polled' = [polled EXCEPT ![e] = @ \o PayloadsOf(Taken(e))]
  /\ bus' = Selected(bus, DOMAIN bus \ Addressed(e))
  /\ failures' = failures \ {e}
  /\ UNCHANGED <<registered, failOnce, posted, hubVars>>

\* insert(participant, VecDeque::new()) (for mutation).
HubRegisterAnew(e) ==
  /\ queues' = [d \in DOMAIN queues \cup {e} |-> IF d = e THEN <<>> ELSE queues[d]]
  /\ UNCHANGED <<busVars, offered, drained>>

HubRegister(e) ==
  /\ queues' = [d \in DOMAIN queues \cup {e} |->
                  IF d \in DOMAIN queues THEN queues[d] ELSE <<>>]
  /\ UNCHANGED <<busVars, offered, drained>>

\* A signal to a peer that never registered is dropped.
HubSend(to) ==
  /\ to \in DOMAIN queues /\ Len(offered[to]) < MaxPosts
  /\ LET signal == Len(offered[to]) + 1
     IN  /\ queues' = [queues EXCEPT ![to] = Append(@, signal)]
         /\ offered' = [offered EXCEPT ![to] = Append(@, signal)]
  /\ UNCHANGED <<busVars, drained>>

DrainFor(e) ==
  /\ e \in DOMAIN queues
  /\ drained' = [drained EXCEPT ![e] = @ \o queues[e]]
  /\ queues' = [queues EXCEPT ![e] = <<>>]
  /\ UNCHANGED <<busVars, offered>>

BusNext ==
  \E e \in Ends :
    \/ Register(e)
    \/ \E control \in BOOLEAN : Post(e, control)
    \/ PollBus(e)

HubNext == \E e \in Ends : HubRegister(e) \/ HubSend(e) \/ DrainFor(e)

BusSpec == CarrierInit /\ [][BusNext]_carrierVars
HubSpec == CarrierInit /\ [][HubNext]_carrierVars
-----------------------------------------------------------------------------
(***************************************************************************)
(* Both directions share one list, and a poll removes from the middle of   *)
(* it while it walks; still each end gets what the other posted once and   *)
(* in order, however the two ends' sends and polls interleave.             *)
(* (webrtc_transport.rs lines 906 to 916)                                  *)
(***************************************************************************)
BusKeepsOrder ==
  \A e \in Ends :
    polled[e] \o PayloadsOf(Selected(bus, Addressed(e))) = posted[OtherEnd(e)]

(***************************************************************************)
(* Registering a second time loses nothing that waits: what was drained,   *)
(* with what is queued, is what was sent to a registered peer, in order.   *)
(* (signaling_hub.rs lines 32 to 35)                                       *)
(***************************************************************************)
HubLosesNothing ==
  \A e \in DOMAIN queues : drained[e] \o queues[e] = offered[e]
=============================================================================
