--------------------------- MODULE SyncRateLimiter ---------------------------
(***************************************************************************)
(* The syncer's rate limiter (syncer/src/rate_limiter.rs): per session a   *)
(* window that starts with a message and a count of the messages let       *)
(* through in it.  The stream kind is only echoed by a refusal.            *)
(***************************************************************************)
EXTENDS Integers, Sequences, Functions

CONSTANTS
  Sessions,     \* session ids
  SyncLimit,    \* limit_per_window, not zero
  SyncWindow,   \* window, in ticks of the clock
  MaxClock      \* bound: the clock stops here

ASSUME SyncLimiterAssumption == SyncLimit \in Nat \ {0} /\ SyncWindow \in Nat

VARIABLES
  clock,      \* Clock::now
  counters,   \* RateLimiter.sessions: window_start and count of some sessions
  passed,     \* the times of all messages let through, per session
  refused     \* the session refused in this step, if any

limiterVars == <<clock, counters, passed, refused>>

LimiterInit ==
  /\ clock = 0
  /\ counters = [s \in {} |-> [start |-> 0, count |-> 0]]
  /\ passed = [s \in Sessions |-> <<>>]
  /\ refused = {}

\* Instant::duration_since is zero, not negative, for a later start.
Elapsed(at, start) == IF at > start THEN at - start ELSE 0

ShouldReset(counter, at) == Elapsed(at, counter.start) >= SyncWindow

\* A new window that goes on counting (for mutation).
CurrentWindowUncleared(s) ==
  IF s \notin DOMAIN counters THEN [start |-> clock, count |-> 0]
  ELSE IF ShouldReset(counters[s], clock) THEN [counters[s] EXCEPT !.start = clock]
  ELSE counters[s]

CurrentWindow(s) ==
  IF s \notin DOMAIN counters \/ ShouldReset(counters[s], clock)
  THEN [start |-> clock, count |-> 0]
  ELSE counters[s]

CheckAndRecord(s) ==
  LET window == CurrentWindow(s)
      allowed == window.count < SyncLimit
      after == IF allowed THEN [window EXCEPT !.count = @ + 1] ELSE window
  IN  /\ counters' = [t \in DOMAIN counters \cup {s} |->
                        IF t = s THEN after ELSE counters[t]]
      /\ passed' = IF allowed THEN [passed EXCEPT ![s] = Append(@, clock)] ELSE passed
      /\ refused' = IF allowed THEN {} ELSE {s}
      /\ UNCHANGED clock

\* retain with its test inverted (for mutation).
RetainedInverted(at) ==
  {s \in DOMAIN counters : ShouldReset(counters[s], at) \/ counters[s].count = 0}

Retained(at) ==
  {s \in DOMAIN counters : ~ShouldReset(counters[s], at) \/ counters[s].count > 0}

\* Nothing in the repository calls it; a caller may pass any instant.
PurgeInactive ==
  /\ \E at \in 0 .. MaxClock : counters' = Restrict(counters, Retained(at))
  /\ refused' = {}
  /\ UNCHANGED <<clock, passed>>

Advance ==
  /\ clock < MaxClock
  /\ clock' = clock + 1
  /\ refused' = {}
  /\ UNCHANGED <<counters, passed>>

LimiterNext ==
  \/ \E s \in Sessions : CheckAndRecord(s)
  \/ PurgeInactive
  \/ Advance

LimiterSpec == LimiterInit /\ [][LimiterNext]_limiterVars
-----------------------------------------------------------------------------
(***************************************************************************)
(* A session that stays at the boundary of two windows gets at most twice  *)
(* the limit through in one window's length: any 2 * SyncLimit + 1 of its  *)
(* messages in a row span at least a window, whatever was purged between   *)
(* them and whatever other sessions send.  (rate_limiter.rs lines 112-120) *)
(***************************************************************************)
BurstBound ==
  \A s \in Sessions : \A i \in DOMAIN passed[s] :
    i + 2 * SyncLimit \in DOMAIN passed[s] =>
      passed[s][i + 2 * SyncLimit] - passed[s][i] >= SyncWindow

(***************************************************************************)
(* A session is only refused for its own messages: when it is, SyncLimit   *)
(* of them were let through less than a window ago.  A busy session does   *)
(* not use up another's window and a window that is over is forgotten.     *)
(***************************************************************************)
RefusedForCause ==
  \A s \in refused :
    /\ Len(passed[s]) >= SyncLimit
    /\ clock - passed[s][Len(passed[s]) - SyncLimit + 1] < SyncWindow
=============================================================================
