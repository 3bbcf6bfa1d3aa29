------------------------------- MODULE MCParts -------------------------------
(***************************************************************************)
(* The parts of the system that share no state, checked side by side: one  *)
(* of them is chosen at the start and runs alone, the others keep their    *)
(* initial state.  So the states are the sum of the parts', not the        *)
(* product.                                                                *)
(***************************************************************************)
EXTENDS WsRateLimiter, RoomManager, SyncRateLimiter, SyncCodec,
        SignalingAdapter, MemoryTransport, VoiceTrack, Client, Handshake

VARIABLE part

\* Lengths up to the limits of a message, and one past each.
MCMessages ==
  {PoseMessage(v, finite) : v \in {1, 2}, finite \in BOOLEAN}
  \cup {ChatMessage(v, s, m, 1) :
          v \in {1, 2}, s \in {0, 1, 4}, m \in 0 .. MaxMessageLen + 1}
  \cup {ControlMessage(type, "p") : type \in {"join", "leave"}}
  \cup {SignalingMessage(type, v, room, token, ice, sdp, candidate) :
          type \in SignalingTypes, v \in {1, 2}, room \in {0, 1},
          token \in {0, 1}, ice \in {0, 1}, sdp \in {0, 1, 5},
          candidate \in {0, MaxCandidateLen, MaxCandidateLen + 1}}

\* One thing wrong with an envelope, from the outside in.
Damaged(b) ==
  {[b EXCEPT !.form = x] : x \in {"not_json", "array"}}
  \cup {[b EXCEPT !.v = x] : x \in {"missing", "not_u32", "2"}}
  \cup {[b EXCEPT !.kind = x] : x \in {"missing", "not_string", "music", "voice"}}
  \cup {[b EXCEPT !.body = x] : x \in {"missing", "array"}}
  \cup {[b EXCEPT !.fields = @ \ {x}] : x \in b.fields}
  \cup {[b EXCEPT !.typed = FALSE], [b EXCEPT !.size = MaxBytes + 1]}
  \cup {[b EXCEPT !.kind = "chat", !.typed = FALSE]}

MCForeign ==
  {Encode(m) : m \in MCMessages}
  \cup UNION {Damaged(Encode(m)) : m \in {x \in MCMessages : EncodeError(x) = "ok"}}
  \cup {[Encode(m) EXCEPT !.kind = "signaling.ice"] :
          m \in {x \in MCMessages : x.type = "offer"}}

\* IpcConfig's context, and the default one, which no message satisfies.
FullContext == [roomId |-> 1, authToken |-> 1, icePolicy |-> 1]
MCContexts == {FullContext, [FullContext EXCEPT !.icePolicy = 0],
               [roomId |-> 0, authToken |-> 0, icePolicy |-> 0]}
MCPayloads == {[sdp |-> 0, candidate |-> 0], [sdp |-> 1, candidate |-> 1]}

\* At the limit, just over it, and a chunk over it.
MCRequests == {[size |-> n, path |-> TRUE, upgrade |-> TRUE] : n \in {3, 4, 5}}
  \cup {[size |-> 3, path |-> TRUE, upgrade |-> FALSE],
        [size |-> 2, path |-> FALSE, upgrade |-> TRUE]}
-----------------------------------------------------------------------------
Parts == {"ws_limiter", "rooms", "limiter", "codec", "adapter", "bus", "hub",
          "voice", "bootstrap", "node", "door"}

\* What a part may start from is open for the part that runs only.
PartsInit ==
  /\ part \in Parts
  /\ Init /\ ManagerInit /\ LimiterInit /\ CodecInit
  /\ AdapterInit /\ (part # "adapter" => context = FullContext)
  /\ CarrierInit /\ (part # "bus" => failOnce = {})
  /\ VoiceInit /\ ClientInit
  /\ HandshakeInit
  /\ part # "door" => \A c \in Callers : asked[c].size = 2

allVars ==
  <<part, vars, managerVars, limiterVars, codecVars, adapterVars, carrierVars,
    voiceVars, clientVars, serverVars>>

PartsNext ==
  /\ UNCHANGED part
  /\ \/ part = "ws_limiter" /\ Next
     \/ part # "ws_limiter" /\ UNCHANGED vars
  /\ \/ part = "rooms" /\ ManagerNext
     \/ part # "rooms" /\ UNCHANGED managerVars
  /\ \/ part = "limiter" /\ LimiterNext
     \/ part # "limiter" /\ UNCHANGED limiterVars
  /\ \/ part = "codec" /\ CodecNext
     \/ part # "codec" /\ UNCHANGED codecVars
  /\ \/ part = "adapter" /\ AdapterNext
     \/ part # "adapter" /\ UNCHANGED adapterVars
  /\ \/ part = "bus" /\ BusNext
     \/ part = "hub" /\ HubNext
     \/ part \notin {"bus", "hub"} /\ UNCHANGED carrierVars
  /\ \/ part = "voice" /\ VoiceNext
     \/ part # "voice" /\ UNCHANGED voiceVars
  /\ \/ part = "bootstrap" /\ BootstrapNext
     \/ part = "node" /\ NodeNext
     \/ part \notin {"bootstrap", "node"} /\ UNCHANGED clientVars
  /\ \/ part = "door" /\ HandshakeNext
     \/ part # "door" /\ UNCHANGED serverVars

PartsSpec == PartsInit /\ [][PartsNext]_allVars
=============================================================================
