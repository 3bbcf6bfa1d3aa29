\* Two connections one after the other, and one failure or shutdown.
\* The applications may fall silent: every run of the instance ends somewhere.
SPECIFICATION Spec
CONSTANTS
  MaxBytes = 3
  MaxMessageLen = 2
  MaxCandidateLen = 1
  Unparsable = "unparsable"
  Limit = 1
  Users <- MCUsers
  Chats <- MCChats
  Poses <- GoodPose
  MaxLinks = 2
  MaxJoins = 2
  MaxSends = 2
  MaxTroubles = 1
CHECK_DEADLOCK FALSE
INVARIANT TypeOK
INVARIANT ToldIsTable
INVARIANT FailureIsTold
PROPERTY AnnouncedIsHeard
