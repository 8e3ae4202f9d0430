-------------------------------- MODULE Lists --------------------------------
(***************************************************************************)
(* Array.filter over the lists the stores keep.  ListTheorems has what the *)
(* proofs cite about it.                                                   *)
(***************************************************************************)
EXTENDS Integers, Sequences, FiniteSets, Functions

\* The items of s that are in T, in their order.  It is written with positions,
\* not SelectSeq, so that its properties can be proved.
Kept(s, T) ==
  LET at == {i \in 1..Len(s) : s[i] \in T}
  IN  [k \in 1..Cardinality(at) |->
         s[CHOOSE i \in at : Cardinality({j \in at : j < i}) = k - 1]]

Without(s, x) == Kept(s, Range(s) \ {x})
=============================================================================
