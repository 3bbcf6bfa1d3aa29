\* Two clients, of whom either may stall, vanish or break; two sends.
\* Clients may stop for good: every run of the instance ends somewhere.
SPECIFICATION FairSpec
CONSTANTS
  c1 = c1  c2 = c2  p1 = p1  p2 = p2
  Conn = {c1, c2}
  Participant = {p1, p2}
  IdOf <- Fresh
  MissAllowed = 1
  MaxSends = 2
INVARIANTS
  TypeOK
PROPERTIES
  SendsAreOrdered
  EverySendEnds
  VanishedIsDropped
CHECK_DEADLOCK FALSE
