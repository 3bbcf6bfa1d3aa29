\* One connection, and three joins in any order: one id of a is not on it.
\* The applications may fall silent: every run of the instance ends somewhere.
SPECIFICATION Spec
CONSTANTS
  MaxBytes = 3
  MaxMessageLen = 2
  MaxCandidateLen = 1
  Unparsable = "unparsable"
  Limit = 1
  Users <- MCUsers
  Chats <- MCChats
  Poses <- MCPoses
  MaxLinks = 1
  MaxJoins = 3
  MaxSends = 2
  MaxTroubles = 0
CHECK_DEADLOCK FALSE
INVARIANT ChatOncePerPeer
INVARIANT PeersUnderstand
