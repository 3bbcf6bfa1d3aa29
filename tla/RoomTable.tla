----------------------------- MODULE RoomTable -----------------------------
(***************************************************************************)
(* The data of bloom/core/src/room.rs: a table from room ids to the        *)
(* ordered list of the room's participants, and what each operation of     *)
(* RoomManager makes of a table.  A table is a function whose domain is    *)
(* the set of rooms that exist; the methods of RoomManager are operators   *)
(* from the table before the call to the table after it, so that both the  *)
(* core alone (RoomManager) and the server around it (BloomServer) use     *)
(* the same definitions.                                                   *)
(***************************************************************************)
EXTENDS Integers, Sequences, FiniteSets, Functions, Subsequences

CONSTANTS
  Participant,      \* ParticipantId, a UUID
  RoomId,           \* RoomId, a UUID
  MaxParticipants   \* MAX_PARTICIPANTS, 8 in the code

ASSUME MaxParticipantsAssumption == MaxParticipants \in Nat \ {0}

NoRooms == [r \in {} |-> <<>>]

\* Vec::retain(|q| q != p): the entries other than p, in their old order.
Kept(list, p) == {i \in DOMAIN list : list[i] # p}

Retain(list, p) == Selected(list, Kept(list, p))

\* create_room: a room that holds its owner only.
Created(rooms, r, owner) ==
  [x \in DOMAIN rooms \cup {r} |-> IF x = r THEN <<owner>> ELSE rooms[x]]

\* The limit off by one (for mutation).
IsFullLate(rooms, r, p) ==
  /\ Len(rooms[r]) > MaxParticipants
  /\ p \notin Range(rooms[r])

\* The test on which join_room answers RoomFull.
IsFull(rooms, r, p) ==
  /\ Len(rooms[r]) >= MaxParticipants
  /\ p \notin Range(rooms[r])

\* A newcomer put in front (for mutation).
JoinedInFront(rooms, r, p) ==
  IF p \in Range(rooms[r]) THEN rooms ELSE [rooms EXCEPT ![r] = <<p>> \o @]

\* join_room on a room that exists and is not full: a member stays where it is.
Joined(rooms, r, p) ==
  IF p \in Range(rooms[r]) THEN rooms ELSE [rooms EXCEPT ![r] = Append(@, p)]

\* The room removed whoever leaves it (for mutation).
LeftAltogether(rooms, r, p) == Restrict(rooms, DOMAIN rooms \ {r})

\* leave_room on a room that exists: the room goes with its last participant.
Left(rooms, r, p) ==
  IF Retain(rooms[r], p) = <<>>
  THEN Restrict(rooms, DOMAIN rooms \ {r})
  ELSE [rooms EXCEPT ![r] = Retain(@, p)]

\* participants(): the list of a room, empty here where the code has None.
ListOf(rooms, r) == IF r \in DOMAIN rooms THEN rooms[r] ELSE <<>>

MembersOf(rooms, r) == Range(ListOf(rooms, r))

NoDuplicates(list) == \A i, j \in DOMAIN list : list[i] = list[j] => i = j

(***************************************************************************)
(* What every table the core builds looks like: no room is empty, none is  *)
(* over the limit, none lists a participant twice.                         *)
(***************************************************************************)
WellFormed(rooms) ==
  \A r \in DOMAIN rooms :
    /\ Len(rooms[r]) \in 1 .. MaxParticipants
    /\ NoDuplicates(rooms[r])
=============================================================================
