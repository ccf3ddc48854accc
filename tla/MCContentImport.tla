--------------------------- MODULE MCContentImport ---------------------------
(***************************************************************************)
(* Two curricula that grades can move between, a leaf that uses a question,*)
(* and a school that lists curricula.                                      *)
(***************************************************************************)
EXTENDS ContentImport, TLC

CONSTANTS A, B, c1, c2, s1, m1, m2, f1, x1

MCOrgs == {A, B}
MCCurricula == {c1, c2}
MCHomes == [m \in Middles |-> MCCurricula]
MCUses == [l \in Leaves |-> x1]
Symmetry == Permutations(MCOrgs) \cup Permutations(MCCurricula)
=============================================================================
