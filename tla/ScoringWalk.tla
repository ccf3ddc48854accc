---------------------------- MODULE ScoringWalk ----------------------------
(***************************************************************************)
(* What Scoring's arithmetic must satisfy, checked by a walk over every    *)
(* (marks, questions) pair up to MaxCount.  The same pair stands for       *)
(* (points, total points) of a progress row.                               *)
(***************************************************************************)
EXTENDS Scoring

CONSTANT MaxCount

ASSUME MaxCountAssumption == MaxCount \in Nat /\ MaxCount < 4000

VARIABLES marks, active

walkVars == <<marks, active>>

WalkInit == marks = 0 /\ active = 0

(* One more distinct correct answer (one more point). *)
OneMoreRight == marks < MaxCount /\ marks' = marks + 1 /\ UNCHANGED active

(* One more active question (one more point to be had). *)
OneMoreQuestion == active < MaxCount /\ active' = active + 1 /\ UNCHANGED marks

WalkNext == OneMoreRight \/ OneMoreQuestion

WalkSpec == WalkInit /\ [][WalkNext]_walkVars

(* Both counts stay below the 4000 for which ToFixed2 agrees with toFixed. *)
WalkTypeOK == marks \in 0..MaxCount /\ active \in 0..MaxCount

-----------------------------------------------------------------------------
(***************************************************************************)
(* Rounding to two decimals never decides a pass: an attempt passes exactly*)
(* when at least four fifths of the active questions are right, although   *)
(* quizPassResult and practicePassResult compare the ROUNDED percentage.   *)
(* An empty quiz fails, an empty practice passes.  calculatescore, whose   *)
(* bands are written on the rounded percentage as well, gives a star       *)
(* exactly to the attempts that pass.                                      *)
(***************************************************************************)
PassIsExact ==
    /\ quizPassResult(marks, active).ispass     = (active > 0 /\ 5 * marks >= 4 * active)
    /\ practicePassResult(marks, active).ispass = (5 * marks >= 4 * active)
    /\ (calculatescore(quizPassResult(marks, active).percentage) > 0)
         = quizPassResult(marks, active).ispass

(***************************************************************************)
(* The `completed` flag of a lesson row (points against lessonPassMark) and*)
(* its stored `progress` (a rounded percentage) never tell a reader        *)
(* different things when the lesson has no passing_points of its own.      *)
(***************************************************************************)
CompletedAgreesWithProgress ==
    active > 0 =>
        (LessonCompleted(marks, 0, active) <=> percentCompleted(progressPercent(marks, active)))

=============================================================================
