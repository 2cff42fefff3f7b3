----------------------------- MODULE SessionMap -----------------------------
(***************************************************************************)
(* What the signaling node's SessionRegistry promises its callers: a       *)
(* partial map from session ids to the room the session is in.  There is   *)
(* no index: the registry's second map, by_room_id, is an implementation   *)
(* matter that SessionRegistry.tla shows to be invisible.                  *)
(*                                                                         *)
(* The last answer of clear_room is part of the interface, because         *)
(* State::close_rooms_due_to_sfu_addr clears the room field in Redis of    *)
(* exactly the sessions it names.                                          *)
(***************************************************************************)
CONSTANTS
    Sessions,   \* session ids
    Rooms,      \* room ids
    NoRoom      \* SessionState.room_id = None

VARIABLES
    room,       \* known session -> its room, or NoRoom
    affected    \* sessions returned by the last clear_room

vars == <<room, affected>>

Known == DOMAIN room

Init ==
    /\ room = [s \in {} |-> NoRoom]
    /\ affected = {}

Put(s, r) ==
    /\ room' = [t \in Known \cup {s} |-> IF t = s THEN r ELSE room[t]]
    /\ affected' = {}

Drop(s) ==
    /\ room' = [t \in Known \ {s} |-> room[t]]
    /\ affected' = {}

Move(s, r) ==
    /\ room' = [t \in Known |-> IF t = s THEN r ELSE room[t]]
    /\ affected' = {}

\* Everyone in room r is put out of it, and the caller learns who they were.
ClearRoom(r) ==
    /\ room' = [t \in Known |-> IF room[t] = r THEN NoRoom ELSE room[t]]
    /\ affected' = {t \in Known : room[t] = r}

Clear ==
    /\ room' = [s \in {} |-> NoRoom]
    /\ affected' = {}

Next ==
    \/ \E s \in Sessions, r \in Rooms \cup {NoRoom} : Put(s, r) \/ Move(s, r)
    \/ \E s \in Sessions : Drop(s)
    \/ \E r \in Rooms : ClearRoom(r)
    \/ Clear

Spec == Init /\ [][Next]_vars
=============================================================================
