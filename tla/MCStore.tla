------------------------------ MODULE MCStore -------------------------------
(* Instances of Store for TLC.                                             *)
EXTENDS Store

CharIdSet == {1, 2, 3}
CampIdSet == {1, 2}
OwnerSet == {1, 2}

CONSTANTS a, b
TextSet == {a, b}

\* The calls treat all texts alike.
TextSymmetry == Permutations(TextSet)
=============================================================================
