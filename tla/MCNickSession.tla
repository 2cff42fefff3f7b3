---------------------------- MODULE MCNickSession ----------------------------
(* NickSession with interchangeable sessions, for the safety run. *)
EXTENDS NickSession, TLC

Symmetry == Permutations(Sessions)
=============================================================================
