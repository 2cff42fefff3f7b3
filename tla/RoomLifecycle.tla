---------------------------- MODULE RoomLifecycle ----------------------------
(***************************************************************************)
(* What the room plane promises of a room, without the Redis keys, the     *)
(* handlers and the sweeps that bring it about: it is opened once, on one  *)
(* signaling node and one SFU, stays there until it is closed, and never   *)
(* opens again.  Nobody is a member of a room that was not opened.         *)
(***************************************************************************)
CONSTANTS
    Rooms,
    Users,
    Places,     \* where a room can live
    Nowhere

VARIABLES
    stage,      \* "unused", "open" or "closed"
    place,      \* where an open room lives
    members

vars == <<stage, place, members>>

Init ==
    /\ stage = [r \in Rooms |-> "unused"]
    /\ place = [r \in Rooms |-> Nowhere]
    /\ members = [r \in Rooms |-> {}]

Open(r, b) ==
    /\ stage[r] = "unused"
    /\ stage' = [stage EXCEPT ![r] = "open"]
    /\ place' = [place EXCEPT ![r] = b]
    /\ UNCHANGED members

Close(r) ==
    /\ stage[r] = "open"
    /\ stage' = [stage EXCEPT ![r] = "closed"]
    /\ place' = [place EXCEPT ![r] = Nowhere]
    /\ UNCHANGED members

\* A join that found the room open may still add its member after the close.
Add(r, u) ==
    /\ stage[r] # "unused"
    /\ members' = [members EXCEPT ![r] = @ \cup {u}]
    /\ UNCHANGED <<stage, place>>

Remove(r, us) ==
    /\ members' = [members EXCEPT ![r] = @ \ us]
    /\ UNCHANGED <<stage, place>>

Next ==
    \E r \in Rooms :
        \/ \E b \in Places : Open(r, b)
        \/ Close(r)
        \/ \E u \in Users : Add(r, u)
        \/ \E us \in SUBSET Users : Remove(r, us)

Spec == Init /\ [][Next]_vars
=============================================================================
