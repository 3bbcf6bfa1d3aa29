\* Three clients for a room that takes two.
\* Clients may stop for good: every run of the instance ends somewhere.
SPECIFICATION Spec
CONSTANTS
  p1 = p1  p2 = p2  p3 = p3
  Participant = {p1, p2, p3}
  RoomId = {r1}
  MaxParticipants = 2
  Conn = {1, 2, 3}
  IdOf <- Fresh3
  NoRoom = NoRoom
  MaxBacklog = 1
  LeavesFirst = TRUE
INVARIANTS
  RoomsWellFormed
  MembersAttached
PROPERTIES
  GreetedBeforeListed
CHECK_DEADLOCK FALSE
