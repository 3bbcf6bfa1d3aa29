\* The limiter of a connection: three messages in two ticks, and a clock that
\* runs for three windows and a half.  Rooms: one participant more than a room
\* takes, and two rooms to mix up.  A part stops at its bounds.
SPECIFICATION PartsSpec
CONSTANTS
  Limit = 3
  Window = 2
  MaxTime = 7
  NoCooldown = NoCooldown
  Participant = {p1, p2, p3, p4}
  RoomId = {r1, r2}
  MaxParticipants = 3
  Sessions = {s1, s2}
  SyncLimit = 2
  SyncWindow = 2
  MaxClock = 5
  MaxBytes = 6
  MaxMessageLen = 3
  MaxCandidateLen = 2
  Messages <- MCMessages
  Foreign <- MCForeign
  Peers = {q1, q2}
  NotAnId = NotAnId
  Contexts <- MCContexts
  Payloads <- MCPayloads
  MaxInbox = 3
  Ends = {e1, e2}
  MaxPosts = 3
  MaxCalls = 4
  NoTrack = NoTrack
  MaxPending = 2
  MaxEvents = 5
  MaxFrame = 3
  Callers = {c1}
  Requests <- MCRequests
  Chunk = 2
  MaxHandshake = 3
  MaxStream = 6
INVARIANT TypeOK
INVARIANT WindowBound
INVARIANT DroppedForCause
INVARIANT RoomTypeOK
INVARIANT RoomsWellFormed
INVARIANT BurstBound
INVARIANT RefusedForCause
INVARIANT EncodedIsAccepted
INVARIANT AcceptedIsSendable
INVARIANT OneSessionPerPeer
INVARIANT ForgottenIsClosed
INVARIANT BusKeepsOrder
INVARIANT HubLosesNothing
INVARIANT OneTrackButForOverlaps
INVARIANT RunningIsStarted
INVARIANT InputOnceInOrder
INVARIANT FittingIsRead
PROPERTY JoinOrderKept
PROPERTY DissolvedStaysDissolved
PROPERTY MembershipSpec
CHECK_DEADLOCK FALSE
