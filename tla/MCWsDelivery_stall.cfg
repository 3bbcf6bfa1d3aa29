\* Two clients and one send, to a client that has stopped reading.
\* Clients may stop for good: every run of the instance ends somewhere.
SPECIFICATION FairSpec
CONSTANTS
  c1 = c1  c2 = c2  p1 = p1  p2 = p2
  Conn = {c1, c2}
  Participant = {p1, p2}
  IdOf <- Fresh
  MissAllowed = 1
  MaxSends = 1
PROPERTIES
  StalledIsDropped
CHECK_DEADLOCK FALSE
