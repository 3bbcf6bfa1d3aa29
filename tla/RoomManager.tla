---------------------------- MODULE RoomManager ----------------------------
(***************************************************************************)
(* bloom/core on its own: a RoomManager called by anybody in any order.    *)
(* Callers are freer here than in the WebSocket server: a participant may  *)
(* sit in several rooms and may leave a room it is not in.                 *)
(***************************************************************************)
EXTENDS RoomTable

VARIABLES
  rooms,   \* RoomManager.rooms
  used     \* room ids handed out so far; RoomId::new never repeats a UUID

managerVars == <<rooms, used>>

ManagerInit ==
  /\ rooms = NoRooms
  /\ used = {}

\* An id that may come up again (for mutation).
CreateRoomAnyId(p) ==
  \E r \in RoomId \ DOMAIN rooms :
    rooms' = Created(rooms, r, p) /\ UNCHANGED used

CreateRoom(p) ==
  \E r \in RoomId \ used :
    /\ rooms' = Created(rooms, r, p)
    /\ used' = used \cup {r}

\* entry().or_default() in place of get_mut() (for mutation).
JoinOrOpenRoom(p, r) ==
  /\ r \in used
  /\ r \in DOMAIN rooms => ~IsFull(rooms, r, p)
  /\ rooms' = IF r \in DOMAIN rooms THEN Joined(rooms, r, p) ELSE Created(rooms, r, p)
  /\ UNCHANGED used

\* Some(Ok(..)); the answers RoomFull and None leave the table alone.
JoinRoom(p, r) ==
  /\ r \in DOMAIN rooms
  /\ ~IsFull(rooms, r, p)
  /\ rooms' = Joined(rooms, r, p)
  /\ UNCHANGED used

LeaveRoom(p, r) ==
  /\ r \in DOMAIN rooms
  /\ rooms' = Left(rooms, r, p)
  /\ UNCHANGED used

ManagerNext ==
  \/ \E p \in Participant : CreateRoom(p)
  \/ \E p \in Participant, r \in RoomId : JoinRoom(p, r) \/ LeaveRoom(p, r)

ManagerSpec == ManagerInit /\ [][ManagerNext]_managerVars
-----------------------------------------------------------------------------
\* A table of lists of participants, whose rooms have ids handed out before.
RoomTypeOK ==
  /\ used \subseteq RoomId
  /\ DOMAIN rooms \subseteq used
  /\ rooms \in [DOMAIN rooms -> Seq(Participant)]

(***************************************************************************)
(* However calls are ordered, no room in the table is empty, holds more    *)
(* than MAX_PARTICIPANTS or lists a participant twice: join_room tests the *)
(* limit before the duplicate, and a member that joins a full room again   *)
(* must be neither refused nor appended (room.rs lines 50 to 57).          *)
(***************************************************************************)
RoomsWellFormed == WellFormed(rooms)

(***************************************************************************)
(* The list of a room is the order of joining (room.rs line 11): no call   *)
(* swaps two participants that stay, and a newcomer goes behind them.      *)
(***************************************************************************)
Precedes(list, p, q) ==
  \E i, j \in DOMAIN list : i < j /\ list[i] = p /\ list[j] = q

JoinOrderKept ==
  [][\A r \in DOMAIN rooms \cap DOMAIN rooms' :
       \A p \in Range(rooms[r]), q \in Range(rooms'[r]) :
         p \in Range(rooms'[r]) =>
           (Precedes(rooms'[r], p, q) <=>
              /\ p # q
              /\ q \in Range(rooms[r]) => Precedes(rooms[r], p, q))]_managerVars

(***************************************************************************)
(* A room that emptied is gone for good: leave_room removes the entry, so  *)
(* a late join_room with the old id finds nothing and does not bring the   *)
(* room back (room.rs lines 60 and 75).                                    *)
(***************************************************************************)
DissolvedStaysDissolved ==
  [][used \ DOMAIN rooms \subseteq used' \ DOMAIN rooms']_managerVars

\* Behind its lists the table keeps the promises of RoomMembership.
Membership == INSTANCE RoomMembership
  WITH member <- [r \in RoomId |-> MembersOf(rooms, r)], opened <- used

MembershipSpec == Membership!Spec
=============================================================================
