----------------------------- MODULE SendOrder -----------------------------
(***************************************************************************)
(* The send tasks of bloom/ws/src/server.rs and the order they finish in.  *)
(* Whatever the server sends is a spawned task.  BloomServer takes the     *)
(* order below as given; WsDelivery, which has the locks and their queues, *)
(* shows that tasks finish in no other.                                    *)
(***************************************************************************)
EXTENDS Integers, Sequences

VARIABLES
  outbox,    \* spawned sends that are not done, oldest first
  peers      \* WebSocketBroadcast.peers: participant id to connection

\* A send to the handler's own sink, or to whoever is registered under an id.
Direct(c, m) == [via |-> "sink", dest |-> c, msg |-> m]
SendTo(p, m) == [via |-> "peers", dest |-> p, msg |-> m]

\* The connection a send is written to, if there is one.
Reached(t) ==
  IF t.via = "sink" THEN {t.dest}
  ELSE {peers[p] : p \in DOMAIN peers \cap {t.dest}}

(***************************************************************************)
(* A direct send queues for its own sink.  A broadcast queues for the map  *)
(* of peers, which it keeps until its message is out, and then for the     *)
(* sink it found there.  Both locks are served first come first served, so *)
(* direct sends may overtake broadcasts but neither kind overtakes its     *)
(* own.                                                                    *)
(***************************************************************************)
Runnable(i) ==
  \A j \in 1 .. i - 1 :
    /\ outbox[j].via = "sink" => outbox[j].dest \notin Reached(outbox[i])
    /\ outbox[j].via = "peers" => outbox[i].via = "sink"

Finish(i) ==
  outbox' = SubSeq(outbox, 1, i - 1) \o SubSeq(outbox, i + 1, Len(outbox))
=============================================================================
