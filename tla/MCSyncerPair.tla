----------------------------- MODULE MCSyncerPair -----------------------------
(* Small instances of SyncerPair.                                          *)
EXTENDS SyncerPair

\* The application of side a also joins for a participant this pair does not
\* connect.
MCUsers == [i \in Sides |-> IF i = "a" THEN {"a", "c"} ELSE {"b"}]

\* A good chat, one the encoder must refuse, one too long for the parser.
MCChats == {[version |-> 1, sender |-> 1, message |-> 1],
            [version |-> 1, sender |-> 1, message |-> 0],
            [version |-> 1, sender |-> 3, message |-> 1]}

\* A good pose, one with a coordinate that is no number, one of a version the
\* encoder must refuse.
MCPoses == {[version |-> 1, finite |-> TRUE], [version |-> 1, finite |-> FALSE],
            [version |-> 2, finite |-> TRUE]}

GoodPose == {[version |-> 1, finite |-> TRUE]}
=============================================================================
