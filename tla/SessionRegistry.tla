--------------------------- MODULE SessionRegistry ---------------------------
(***************************************************************************)
(* services/signaling/src/session_registry.rs: the in-memory table of the  *)
(* sessions attached to one signaling node.  Two maps are kept under one   *)
(* RwLock, so each method is one atomic action:                            *)
(*                                                                         *)
(*   bySession   by_session_id : session id -> SessionState (here its room)*)
(*   byRoom      by_room_id    : room id -> set of session ids             *)
(*                                                                         *)
(* The nickname in SessionState is copied around and never inspected by    *)
(* the registry, so it is left out.                                        *)
(***************************************************************************)
EXTENDS FiniteSets

CONSTANTS
    Sessions,
    Rooms,
    NoRoom

ASSUME NoRoomAssumption == NoRoom \notin Rooms

VARIABLES
    bySession,  \* partial function Sessions -> Rooms \cup {NoRoom}
    byRoom,     \* partial function Rooms -> SUBSET Sessions
    affected    \* what the last clear_room returned

vars == <<bySession, byRoom, affected>>

MaybeRoom == Rooms \cup {NoRoom}

\* The types of the two maps and of the answer of clear_room.
TypeOK ==
    /\ DOMAIN bySession \subseteq Sessions
    /\ bySession \in [DOMAIN bySession -> MaybeRoom]
    /\ DOMAIN byRoom \subseteq Rooms
    /\ byRoom \in [DOMAIN byRoom -> SUBSET Sessions]
    /\ affected \subseteq Sessions

-----------------------------------------------------------------------------
\* HashMap operations on a partial function.

\* insert: k now maps to v.
With(f, k, v) == [x \in DOMAIN f \cup {k} |-> IF x = k THEN v ELSE f[x]]

\* remove: k has no entry any more.
Without(f, k) == [x \in DOMAIN f \ {k} |-> f[x]]

\* Mutant: the id is taken out, but an emptied set stays in the map.
RemoveRoomLinkKeepsEmpty(index, s, r) ==
    IF r \notin DOMAIN index THEN index ELSE With(index, r, index[r] \ {s})

\* remove_room_link: take s out of r's set, and drop a set that becomes empty.
RemoveRoomLink(index, s, r) ==
    IF r \notin DOMAIN index THEN index
    ELSE IF index[r] \ {s} = {} THEN Without(index, r)
    ELSE With(index, r, index[r] \ {s})

\* entry(r).or_default().insert(s)
AddRoomLink(index, s, r) ==
    With(index, r, (IF r \in DOMAIN index THEN index[r] ELSE {}) \cup {s})

\* The index after s's link to its previous room, if any, is removed.
Unlinked(s) ==
    IF s \in DOMAIN bySession /\ bySession[s] # NoRoom
    THEN RemoveRoomLink(byRoom, s, bySession[s])
    ELSE byRoom

\* The index after s moves from its previous room to r (which may be NoRoom).
Relinked(s, r) ==
    IF r = NoRoom THEN Unlinked(s) ELSE AddRoomLink(Unlinked(s), s, r)

-----------------------------------------------------------------------------
Init ==
    /\ bySession = [s \in {} |-> NoRoom]
    /\ byRoom = [r \in {} |-> {}]
    /\ affected = {}

\* check_session and Attach store what Redis says about the session.
Upsert(s, r) ==
    /\ bySession' = With(bySession, s, r)
    /\ byRoom' = Relinked(s, r)
    /\ affected' = {}

\* Logout and cleanup_connection forget the session.
Remove(s) ==
    /\ bySession' = Without(bySession, s)
    /\ byRoom' = Unlinked(s)
    /\ affected' = {}

\* A successful create, join or leave; an unknown session is left unknown.
SetRoom(s, r) ==
    /\ IF s \in DOMAIN bySession
       THEN /\ bySession' = With(bySession, s, r)
            /\ byRoom' = Relinked(s, r)
       ELSE UNCHANGED <<bySession, byRoom>>
    /\ affected' = {}

\* Mutant: the index forgets the room while its sessions stay in it.
ClearRoomIndexOnly(r) ==
    /\ byRoom' = Without(byRoom, r)
    /\ affected' = IF r \in DOMAIN byRoom THEN byRoom[r] ELSE {}
    /\ UNCHANGED bySession

\* The sessions indexed under r that are still known lose their room; they
\* are found through byRoom alone, never by scanning bySession.
ClearRoom(r) ==
    LET ids == IF r \in DOMAIN byRoom THEN byRoom[r] ELSE {}
    IN  /\ byRoom' = Without(byRoom, r)
        /\ bySession' = [s \in DOMAIN bySession |->
                            IF s \in ids THEN NoRoom ELSE bySession[s]]
        /\ affected' = ids \cap DOMAIN bySession

\* State::run_purge.
Clear ==
    /\ bySession' = [s \in {} |-> NoRoom]
    /\ byRoom' = [r \in {} |-> {}]
    /\ affected' = {}

Next ==
    \/ \E s \in Sessions, r \in MaybeRoom : Upsert(s, r)
    \/ \E s \in Sessions, r \in MaybeRoom : SetRoom(s, r)
    \/ \E s \in Sessions : Remove(s)
    \/ \E r \in Rooms : ClearRoom(r)
    \/ Clear

Spec == Init /\ [][Next]_vars

-----------------------------------------------------------------------------
(* Properties *)

\* The two maps never disagree: the set kept for a room is exactly the set of
\* known sessions in that room, and no empty set is kept.  ClearRoom, which
\* looks only at by_room_id, relies on it to find every session of a room
\* whose SFU died (session_registry.rs clear_room, remove_room_link).
IndexExact ==
    /\ DOMAIN byRoom = {r \in Rooms :
                            \E s \in DOMAIN bySession : bySession[s] = r}
    /\ \A r \in DOMAIN byRoom :
            byRoom[r] = {s \in DOMAIN bySession : bySession[s] = r}

\* The registry implements the index-free map of SessionMap: in particular
\* clear_room reports and clears exactly the sessions of the room.
Abstract == INSTANCE SessionMap WITH room <- bySession

RefinesMap == Abstract!Spec
=============================================================================
