------------------------------- MODULE Reward -------------------------------
(***************************************************************************)
(* How the points and stars of one submission are added to the learner's   *)
(* progress rows: LessonBusiness.updateUserReward, updateLevelQuizReward,  *)
(* addstudentscores and addstudentlevelquizscores, as functions from the   *)
(* rows they read to the rows they write.                                  *)
(***************************************************************************)
EXTENDS Scoring

(***************************************************************************)
(* A row of studentlessonsprogress, studentlevelsprogress or               *)
(* studentgradesprogress.  `flag` is added_completed_scores on a lesson    *)
(* row and added_default_score on a level row; a grade row has no such     *)
(* column and keeps FALSE.  `progress` is left out: it is always written   *)
(* with `points` and is a function of it.                                  *)
(***************************************************************************)
ProgressRow == [points : Int, completed : BOOLEAN, scores : Nat, flag : BOOLEAN]

NoRow == [points |-> 0, completed |-> FALSE, scores |-> 0, flag |-> FALSE, absent |-> TRUE]

(* oldpoints === null *)
NoOld == -1

Positive(n) == IF n > 0 THEN n ELSE 0

(* if (oldpoints) points = points - oldpoints: null and 0 are both "nothing to take off". *)
Delta(points, oldpoints) == IF oldpoints \in {NoOld, 0} THEN points ELSE points - oldpoints

(* A deduction that would go below zero is not applied at all. *)
AddPoints(current, d) == IF d < 0 /\ current + d < 0 THEN current ELSE current + d

(* A first submission writes the row as it is, whatever the lesson's total. *)
NewLessonRow(d, passing, total) ==
    [points |-> Positive(d), completed |-> d >= 0 /\ LessonCompleted(d, passing, total),
     scores |-> 0, flag |-> FALSE]

(* How far the lesson would go over its total. *)
Overflow(row, d, total) ==
    IF row # NoRow /\ AddPoints(row.points, d) > total THEN AddPoints(row.points, d) - total ELSE 0

(* The lesson row after a reward of d points: capped at the lesson's total. *)
LessonRow(row, d, passing, total) ==
    IF row = NoRow THEN NewLessonRow(d, passing, total)
    ELSE LET p == AddPoints(row.points, d) - Overflow(row, d, total)
         IN  [row EXCEPT !.points = p, !.completed = LessonCompleted(p, passing, total)]

(* The whole submitted delta goes on to the level and the grade. *)
LandedPoints_all(row, d, total) == d

(* What is left of the submission for the level and the grade once the lesson is capped. *)
LandedPoints(row, d, total) ==
    IF Overflow(row, d, total) > 0 THEN Positive(d - Overflow(row, d, total)) ELSE d

(* A level or grade row after d more points: no cap. *)
TotalRow(row, d, total) ==
    IF row = NoRow
    THEN [points |-> Positive(d), completed |-> d >= 0 /\ percentCompleted(progressPercent(d, total)),
          scores |-> 0, flag |-> FALSE]
    ELSE LET p == AddPoints(row.points, d)
         IN  [row EXCEPT !.points = p, !.completed = percentCompleted(progressPercent(p, total))]

(* The bonus star given at every visit of a full lesson. *)
Bonus_everytime(row, total) == IF row # NoRow /\ progressPercent(row.points, total) >= 10000 THEN 1 ELSE 0

(* The one bonus star of a lesson that reached all of its points. *)
Bonus(row, total) ==
    IF row # NoRow /\ progressPercent(row.points, total) >= 10000 /\ ~row.flag THEN 1 ELSE 0

(* Stars are only added to a row that exists. *)
Starred(row, stars) == IF row = NoRow THEN row ELSE [row EXCEPT !.scores = @ + stars]

StarredLesson(row, stars, total) ==
    IF row = NoRow THEN row
    ELSE [row EXCEPT !.scores = @ + stars + Bonus(row, total), !.flag = @ \/ Bonus(row, total) = 1]

(* The star every level quiz gives once. *)
DefaultStar(row) == IF row # NoRow /\ ~row.flag THEN 1 ELSE 0

StarredLevel(row, stars) ==
    IF row = NoRow THEN row ELSE [row EXCEPT !.scores = @ + stars + DefaultStar(row), !.flag = TRUE]

=============================================================================
