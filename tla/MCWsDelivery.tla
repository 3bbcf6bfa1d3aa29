---------------------------- MODULE MCWsDelivery ----------------------------
(* Small instances of WsDelivery for TLC.                                  *)
EXTENDS WsDelivery, TLC

CONSTANTS c1, c2, p1, p2

\* UUIDs as in the code.
Fresh == c1 :> p1 @@ c2 :> p2
=============================================================================
