--------------------------- MODULE WsRateLimiter ---------------------------
(***************************************************************************)
(* The rate limiter of one WebSocket connection                            *)
(* (bloom/ws/src/rate_limit.rs): a queue of the times of the messages let  *)
(* through, and a cooldown of one window once the limit is hit.  Time is   *)
(* whole ticks of the monotonic clock; several messages may arrive in one. *)
(***************************************************************************)
EXTENDS Integers, Sequences

CONSTANTS
  Limit,        \* limit_per_window, 20 in the code
  Window,       \* window, one second in the code
  NoCooldown,   \* None, as cooldown_until
  MaxTime       \* bound: the clock stops here

ASSUME LimiterAssumption ==
  /\ Limit \in Nat
  /\ Window \in Nat \ {0}
  /\ NoCooldown \notin Nat
  /\ MaxTime \in Nat

VARIABLES
  now,          \* Clock::now
  timestamps,   \* RateLimiter.timestamps, oldest first
  cooldown,     \* RateLimiter.cooldown_until
  verdict,      \* what check answered in this step
  history       \* the times of all messages ever allowed

vars == <<now, timestamps, cooldown, verdict, history>>

Verdict == {"none", "allowed", "dropped"}

Init ==
  /\ now = 0
  /\ timestamps = <<>>
  /\ cooldown = NoCooldown
  /\ verdict = "none"
  /\ history = <<>>

Tick ==
  /\ now < MaxTime
  /\ now' = now + 1
  /\ verdict' = "none"
  /\ UNCHANGED <<timestamps, cooldown, history>>

\* A client that goes on sending has its cooldown extended (for mutation).
DropExtending ==
  /\ cooldown # NoCooldown
  /\ now < cooldown
  /\ cooldown' = now + Window
  /\ verdict' = "dropped"
  /\ UNCHANGED <<now, timestamps, history>>

\* During the cooldown nothing is recorded and the cooldown does not grow.
DropInCooldown ==
  /\ cooldown # NoCooldown
  /\ now < cooldown
  /\ verdict' = "dropped"
  /\ UNCHANGED <<now, timestamps, cooldown, history>>

\* The queue check works on: a cooldown that is over has emptied it.
Remembered == IF cooldown = NoCooldown THEN timestamps ELSE <<>>

(***************************************************************************)
(* The loop that pops the front while it is older than the window: the     *)
(* first n times are, the next one is not.                                 *)
(***************************************************************************)
Expires(queue, n) ==
  /\ \A i \in 1 .. n : now - queue[i] > Window
  /\ n < Len(queue) => now - queue[n + 1] <= Window

\* The limit off by one (for mutation).
AtLimitLate(kept) == Len(kept) > Limit

AtLimit(kept) == Len(kept) >= Limit

\* The cooldown over as soon as it begins (for mutation).
EnterShortCooldown(kept) ==
  /\ timestamps' = kept
  /\ cooldown' = now
  /\ verdict' = "dropped"
  /\ UNCHANGED history

EnterCooldown(kept) ==
  /\ timestamps' = kept
  /\ cooldown' = now + Window
  /\ verdict' = "dropped"
  /\ UNCHANGED history

Allow(kept) ==
  /\ timestamps' = Append(kept, now)
  /\ cooldown' = NoCooldown
  /\ verdict' = "allowed"
  /\ history' = Append(history, now)

CheckWindow ==
  /\ cooldown # NoCooldown => now >= cooldown
  /\ \E n \in 0 .. Len(Remembered) :
       /\ Expires(Remembered, n)
       /\ LET kept == SubSeq(Remembered, n + 1, Len(Remembered)) IN
          \/ AtLimit(kept) /\ EnterCooldown(kept)
          \/ ~AtLimit(kept) /\ Allow(kept)
  /\ UNCHANGED now

Next == Tick \/ DropInCooldown \/ CheckWindow

Spec == Init /\ [][Next]_vars
-----------------------------------------------------------------------------
(***************************************************************************)
(* Every variable has its type; the queue never outgrows the limit, so a   *)
(* connection costs bounded memory however much its client sends.          *)
(***************************************************************************)
TypeOK ==
  /\ now \in Nat
  /\ timestamps \in Seq(Nat)
  /\ Len(timestamps) <= Limit
  /\ cooldown \in Nat \cup {NoCooldown}
  /\ verdict \in Verdict
  /\ history \in Seq(Nat)

(***************************************************************************)
(* Any Limit + 1 messages let through in a row span at least a window,     *)
(* although the queue is emptied whenever a cooldown ends, with times in   *)
(* it that a sliding window would still count (rate_limit.rs line 92).     *)
(***************************************************************************)
WindowBound ==
  \A i \in DOMAIN history :
    i + Limit \in DOMAIN history => history[i + Limit] - history[i] >= Window

(***************************************************************************)
(* Only a client that was too fast is refused: when a message is dropped,  *)
(* Limit messages have been let through in the two windows before it.  In  *)
(* particular messages dropped in a cooldown do not prolong it.            *)
(***************************************************************************)
DroppedForCause ==
  verdict = "dropped" =>
    /\ Len(history) >= Limit
    /\ \A i \in DOMAIN history :
         i > Len(history) - Limit => now - history[i] < 2 * Window
=============================================================================
