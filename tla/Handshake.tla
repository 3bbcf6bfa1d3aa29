------------------------------ MODULE Handshake ------------------------------
(***************************************************************************)
(* The server before a connection has a participant (bloom/ws/src/         *)
(* server.rs): the accept loop with its shutdown signal, and per           *)
(* connection the task that reads an HTTP request in chunks and answers    *)
(* it.  A client is the number of bytes it has sent; its request ends      *)
(* after the first request.size of them, and what follows is WebSocket     *)
(* data sent early.                                                        *)
(***************************************************************************)
EXTENDS Integers

CONSTANTS
  Callers,        \* TCP clients
  Requests,       \* [size, path, upgrade]: what a client may ask for
  Chunk,          \* the read buffer, 1024 bytes in the code
  MaxHandshake,   \* MAX_HANDSHAKE_SIZE
  MaxStream       \* bound: bytes a client sends

ASSUME HandshakeAssumption ==
  /\ Requests \subseteq [size : Nat \ {0}, path : BOOLEAN, upgrade : BOOLEAN]
  /\ Chunk \in Nat \ {0} /\ MaxHandshake \in Nat

VARIABLES
  loop,           \* the accept loop: "accepting", "signalled" or "ended"
  asked,          \* per client, its request
  sent,           \* per client, bytes sent
  stage,          \* per client: "calling", "reading", an answer, or "serving"
  read,           \* per client, bytes in buf
  tail            \* per client, bytes handed to the WebSocket stream as read

serverVars == <<loop, asked, sent, stage, read, tail>>

HandshakeInit ==
  /\ loop = "accepting"
  /\ asked \in [Callers -> Requests]
  /\ sent = [c \in Callers |-> 0]
  /\ stage = [c \in Callers |-> "calling"]
  /\ read = sent /\ tail = sent

ClientSends(c) ==
  /\ sent[c] < MaxStream
  /\ sent' = [sent EXCEPT ![c] = @ + 1]
  /\ UNCHANGED <<loop, asked, stage, read, tail>>

\* WsServerHandle::shutdown, up to the join of the accept loop.
SignalShutdown ==
  /\ loop = "accepting"
  /\ loop' = "signalled"
  /\ UNCHANGED <<asked, sent, stage, read, tail>>

\* select! takes either branch when both are ready.
EndLoop ==
  /\ loop = "signalled"
  /\ loop' = "ended"
  /\ UNCHANGED <<asked, sent, stage, read, tail>>

Accept(c) ==
  /\ loop # "ended" /\ stage[c] = "calling"
  /\ stage' = [stage EXCEPT ![c] = "reading"]
  /\ UNCHANGED <<loop, asked, sent, read, tail>>

\* What becomes of a whole request.
Answers == {"not_found", "upgrade_required", "serving"}

Answer(request) ==
  CASE ~request.path    -> "not_found"
    [] ~request.upgrade -> "upgrade_required"
    [] OTHER            -> "serving"

\* Request::try_parse after a read, external but for where the request ends.
Parsed(c, length) ==
  IF length >= asked[c].size
  THEN /\ stage' = [stage EXCEPT ![c] = Answer(asked[c])]
       /\ tail' = [tail EXCEPT ![c] = length - asked[c].size]
  ELSE UNCHANGED <<stage, tail>>

\* The size looked at between the read and the parser (for mutation).
ReadChunkThenCheck(c) ==
  /\ stage[c] = "reading"
  /\ \E n \in 1 .. Chunk :
       /\ read[c] + n <= sent[c]
       /\ read' = [read EXCEPT ![c] = @ + n]
       /\ IF read[c] + n >= MaxHandshake
          THEN stage' = [stage EXCEPT ![c] = "too_large"] /\ UNCHANGED tail
          ELSE Parsed(c, read[c] + n)
  /\ UNCHANGED <<loop, asked, sent>>

\* One read returns what is there, a chunk at most.
ReadChunk(c) ==
  /\ stage[c] = "reading" /\ read[c] < MaxHandshake
  /\ \E n \in 1 .. Chunk :
       /\ read[c] + n <= sent[c]
       /\ read' = [read EXCEPT ![c] = @ + n]
       /\ Parsed(c, read[c] + n)
  /\ UNCHANGED <<loop, asked, sent>>

\* "handshake request too large"
TooLarge(c) ==
  /\ stage[c] = "reading" /\ read[c] >= MaxHandshake
  /\ stage' = [stage EXCEPT ![c] = "too_large"]
  /\ UNCHANGED <<loop, asked, sent, read, tail>>

\* The client closes, or what it has sent is no HTTP: the task ends.
HangUp(c) ==
  /\ stage[c] = "reading"
  /\ read[c] = sent[c] \/ read[c] > 0
  /\ stage' = [stage EXCEPT ![c] = "hung_up"]
  /\ UNCHANGED <<loop, asked, sent, read, tail>>

HandshakeNext ==
  \/ SignalShutdown \/ EndLoop
  \/ \E c \in Callers :
       \/ ClientSends(c)
       \/ Accept(c) \/ ReadChunk(c) \/ TooLarge(c) \/ HangUp(c)

HandshakeSpec == HandshakeInit /\ [][HandshakeNext]_serverVars
-----------------------------------------------------------------------------
(***************************************************************************)
(* A request within MAX_HANDSHAKE_SIZE is never called too large, whatever *)
(* a client that does not wait for the answer sends behind it and however  *)
(* the bytes fall into reads; one that is a chunk longer is never          *)
(* answered; and no more than that is ever buffered.  In between, the      *)
(* reads decide: the size is looked at before a read and not after it.     *)
(* When a client is served, the bytes behind its request are all with the  *)
(* WebSocket stream or still to be read.  (server.rs lines 359 to 378 and  *)
(* 430 to 434)                                                             *)
(***************************************************************************)
FittingIsRead ==
  \A c \in Callers :
    /\ read[c] < MaxHandshake + Chunk
    /\ stage[c] = "too_large" => asked[c].size > MaxHandshake
    /\ stage[c] \in Answers => asked[c].size < MaxHandshake + Chunk
    /\ stage[c] = "serving" =>
         tail[c] + (sent[c] - read[c]) = sent[c] - asked[c].size
=============================================================================
