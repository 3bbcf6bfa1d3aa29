--------------------------- MODULE MCBloomServer ---------------------------
(* Small instances of BloomServer for TLC: connections are 1, 2, ...       *)
EXTENDS BloomServer, TLC

CONSTANTS p1, p2, p3

\* Fresh ids, as RoomId::new gives them.
Fresh2 == <<p1, p2>>
Fresh3 == <<p1, p2, p3>>

\* ServerOverrides: the second connection claims the id of the first.
Doubled3 == <<p1, p1, p2>>
=============================================================================
