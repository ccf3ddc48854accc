------------------------- MODULE MCGradeSubmission -------------------------
(* The instance TLC checks: two questions of the container, one foreign id. *)
EXTENDS GradeSubmission, TLC

CONSTANTS q1, q2, x1

MCQuestions == {q1, q2}
MCForeign == {x1}
Symmetry == Permutations(MCQuestions)
=============================================================================
