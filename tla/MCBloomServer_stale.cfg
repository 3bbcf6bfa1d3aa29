\* The first connection of p1 breaks while the second one is at work.
SPECIFICATION Spec
CONSTANTS
  p1 = p1  p2 = p2  p3 = p3
  Participant = {p1, p2}
  RoomId = {r1}
  MaxParticipants = 2
  Conn = {1, 2, 3}
  IdOf <- Doubled3
  NoRoom = NoRoom
  MaxBacklog = 0
  LeavesFirst = FALSE
INVARIANTS
  HandlerIsMember
CHECK_DEADLOCK FALSE
