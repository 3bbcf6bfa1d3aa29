\* Two clients that create and join rooms without leaving the last one.
SPECIFICATION Spec
CONSTANTS
  p1 = p1  p2 = p2  p3 = p3
  Participant = {p1, p2}
  RoomId = {r1, r2}
  MaxParticipants = 2
  Conn = {1, 2}
  IdOf <- Fresh2
  NoRoom = NoRoom
  MaxBacklog = 1
  LeavesFirst = FALSE
INVARIANTS
  AbnormalCloseLeaves
CHECK_DEADLOCK FALSE
