----------------------------- MODULE MCClientApp -----------------------------
(***************************************************************************)
(* ClientApp for TLC.  Sessions, rooms, peers and request slots are        *)
(* interchangeable: nothing compares them but by equality, and no liveness *)
(* property is checked.                                                    *)
(***************************************************************************)
EXTENDS ClientApp, TLC

Symmetry ==
    Permutations(Sessions) \cup Permutations(Rooms)
        \cup Permutations(Peers) \cup Permutations(Requests)
=============================================================================
