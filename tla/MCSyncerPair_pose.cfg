\* Both sides join and the answering side sends one pose.
SPECIFICATION Spec
CONSTANTS
  MaxBytes = 3
  MaxMessageLen = 2
  MaxCandidateLen = 1
  Unparsable = "unparsable"
  Limit = 1
  Users <- MCUsers
  Chats <- MCChats
  Poses <- GoodPose
  MaxLinks = 1
  MaxJoins = 2
  MaxSends = 1
  MaxTroubles = 0
CHECK_DEADLOCK FALSE
INVARIANT PoseIsDelivered
