---------------------------- MODULE MCModeration ----------------------------
(* Moderation for TLC: one patron submits twice, another once. *)
EXTENDS Moderation, TLC
CONSTANTS d1, d2, d3, u1, u2
MCIds == {d1, d2, d3}
MCOwner == d1 :> u1 @@ d2 :> u1 @@ d3 :> u2
Symmetry == Permutations({d1, d2}) \cup Permutations(Submitters)
=============================================================================
