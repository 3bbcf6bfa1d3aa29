\* Two connections claim the id p1, as ServerOverrides allows; p2 looks on.
\* Clients may stop for good: every run of the instance ends somewhere.
SPECIFICATION Spec
CONSTANTS
  p1 = p1  p2 = p2  p3 = p3
  Participant = {p1, p2}
  RoomId = {r1}
  MaxParticipants = 2
  Conn = {1, 2, 3}
  IdOf <- Doubled3
  NoRoom = NoRoom
  MaxBacklog = 0
  LeavesFirst = FALSE
INVARIANTS
  CurrentConnection
CHECK_DEADLOCK FALSE
