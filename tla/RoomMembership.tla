--------------------------- MODULE RoomMembership ---------------------------
(***************************************************************************)
(* What rooms promise to their users: who is in which room, and nothing of *)
(* how the table, the handlers, the grace timers and the sends keep track  *)
(* of it.  RoomManager and BloomServer implement this specification.       *)
(*                                                                         *)
(* A room is opened once, by its first member.  From then on it gains and  *)
(* loses one member at a time, never exceeds the limit, and is closed for  *)
(* good when the last one goes.                                            *)
(***************************************************************************)
EXTENDS Integers, FiniteSets

CONSTANTS Participant, RoomId, MaxParticipants

VARIABLES
  member,   \* the members of each room
  opened    \* the rooms that have ever been opened

vars == <<member, opened>>

Init ==
  /\ member = [r \in RoomId |-> {}]
  /\ opened = {}

Open(p, r) ==
  /\ r \notin opened
  /\ opened' = opened \cup {r}
  /\ member' = [member EXCEPT ![r] = {p}]

Enter(p, r) ==
  /\ member[r] # {}
  /\ Cardinality(member[r] \cup {p}) <= MaxParticipants
  /\ member' = [member EXCEPT ![r] = @ \cup {p}]
  /\ UNCHANGED opened

Exit(p, r) ==
  /\ member' = [member EXCEPT ![r] = @ \ {p}]
  /\ UNCHANGED opened

Next ==
  \E p \in Participant, r \in RoomId : Open(p, r) \/ Enter(p, r) \/ Exit(p, r)

Spec == Init /\ [][Next]_vars
=============================================================================
