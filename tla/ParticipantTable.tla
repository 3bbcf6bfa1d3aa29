--------------------------- MODULE ParticipantTable ---------------------------
(***************************************************************************)
(* The participants a syncer knows (participant_table.rs): the map of      *)
(* sessions and the order of joining.  Session numbers are allocated and   *)
(* never read, so the map is the set of its keys.  Every operation gives   *)
(* the table after it and the events for the application.                  *)
(***************************************************************************)
EXTENDS Sequences, SequencesExt

CONSTANT Unparsable  \* a participant id that ParticipantId::from_str refuses

Event(type, about) == [type |-> type, about |-> about]

EmptyTable == [sessions |-> {}, order |-> <<>>]

\* A rejoin that is not told as a PeerLeft first (for mutation).
ApplyJoinSilently(table, p) ==
  [table  |-> [sessions |-> table.sessions \cup {p},
               order    |-> Append(RemoveFirst(table.order, p), p)],
   events |-> <<Event("PeerJoined", p)>>]

ApplyJoin(table, p) ==
  LET rejoin == p \in table.sessions
  IN  [table  |-> [sessions |-> table.sessions \cup {p},
                   order    |-> Append(RemoveFirst(table.order, p), p)],
       events |-> (IF rejoin THEN <<Event("PeerLeft", p)>> ELSE <<>>)
                    \o <<Event("PeerJoined", p)>>]

\* Without remove_from_order (for mutation).
ApplyLeaveInOrder(table, p) ==
  [table  |-> [table EXCEPT !.sessions = @ \ {p}],
   events |-> IF p \in table.sessions
                THEN <<Event("PeerLeft", p)>> ELSE <<>>]

ApplyLeave(table, p) ==
  [table  |-> [sessions |-> table.sessions \ {p},
               order    |-> RemoveFirst(table.order, p)],
   events |-> IF p \in table.sessions
                THEN <<Event("PeerLeft", p)>> ELSE <<>>]

\* apply_pending_peer_event: a control message that came from the peer
ApplyPeerEvent(table, control) ==
  IF control.participant = Unparsable
  THEN [table |-> table, events |-> <<Event("Error", "invalid_participant_id")>>]
  ELSE IF control.type = "join" THEN ApplyJoin(table, control.participant)
                                ELSE ApplyLeave(table, control.participant)
=============================================================================
