----------------------------- MODULE MCRoomPlane -----------------------------
(* RoomPlane for TLC: users, nodes, rooms and handlers are interchangeable. *)
EXTENDS RoomPlane, TLC

Symmetry ==
    UNION {Permutations(Users), Permutations(Nodes), Permutations(Rooms),
           Permutations(Procs)}
=============================================================================
