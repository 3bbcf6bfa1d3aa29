\* Two clients that may create or join a room while they are in another.
\* Clients may stop for good: every run of the instance ends somewhere.
SPECIFICATION FairSpec
CONSTANTS
  p1 = p1  p2 = p2  p3 = p3
  Participant = {p1, p2}
  RoomId = {r1, r2}
  MaxParticipants = 2
  Conn = {1, 2}
  IdOf <- Fresh2
  NoRoom = NoRoom
  MaxBacklog = 1
  LeavesFirst = FALSE
INVARIANTS
  TypeOK
  HandlerIsMember
  NewsIsCurrent
  RelayFromKnownPeer
PROPERTIES
  MembershipSpec
  BreakIsAnnounced
CHECK_DEADLOCK FALSE
