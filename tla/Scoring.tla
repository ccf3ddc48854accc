------------------------------ MODULE Scoring ------------------------------
(***************************************************************************)
(* The arithmetic that turns right answers into a percentage, a pass,      *)
(* stars and a "completed" flag: quizscore.ts, practicescore.ts,           *)
(* progress-rules.ts, lesson-quiz-pass.ts and ResultBusiness.calculatescore.*)
(*                                                                         *)
(* A percentage is stored with two decimals (Number(x.toFixed(2))); here   *)
(* it is the integer number of hundredths of a percent, so 80 % is 8000.   *)
(***************************************************************************)
EXTENDS Integers

(* COMPLETED_PERCENTAGE (80), in hundredths of a percent. *)
COMPLETED_PERCENTAGE == 8000

(***************************************************************************)
(* Number((num * 100 / den).toFixed(2)) for num, den naturals, den > 0:    *)
(* the nearest hundredth, halves upwards.  toFixed rounds the exact value  *)
(* of the double; for den < 4000 the only ties are multiples of 1/8, which *)
(* a double holds exactly, so the two agree.                               *)
(***************************************************************************)
ToFixed2(num, den) == (20000 * num + den) \div (2 * den)

(* Math.min(100, ...), in hundredths. *)
CapAt100(pct) == IF pct > 10000 THEN 10000 ELSE pct

(* A plausible slip: the strict comparison the lesson rule once had. *)
quizPassResult_strict(marks, activecount) ==
    IF activecount <= 0
    THEN [marks |-> 0, percentage |-> 0, ispass |-> FALSE]
    ELSE LET pct == CapAt100(ToFixed2(marks, activecount))
         IN  [marks |-> marks, percentage |-> pct, ispass |-> pct > COMPLETED_PERCENTAGE]

(* A quiz with no active question is failed, never passed. *)
quizPassResult(marks, activecount) ==
    IF activecount <= 0
    THEN [marks |-> 0, percentage |-> 0, ispass |-> FALSE]
    ELSE LET pct == CapAt100(ToFixed2(marks, activecount))
         IN  [marks |-> marks, percentage |-> pct, ispass |-> pct >= COMPLETED_PERCENTAGE]

(* A practice with no active question cannot be failed. *)
practicePassResult(marks, activecount) ==
    IF activecount <= 0
    THEN [marks |-> marks, percentage |-> 10000, ispass |-> TRUE]
    ELSE LET pct == CapAt100(ToFixed2(marks, activecount))
         IN  [marks |-> marks, percentage |-> pct, ispass |-> pct >= COMPLETED_PERCENTAGE]

(* The stars of an attempt. *)
calculatescore(percentage) ==
    CASE percentage >= 8000 /\ percentage < 9100 -> 1
      [] percentage >= 9100 /\ percentage < 9600 -> 2
      [] percentage >= 9600                      -> 3
      [] OTHER                                   -> 0

(* Number.POSITIVE_INFINITY: no number of points reaches it. *)
Unreachable == -1

lessonPassMark_floor(passing_points, total_points) ==
    IF passing_points > 0 THEN passing_points
    ELSE IF total_points > 0 THEN (total_points * 80) \div 100
    ELSE Unreachable

(* A lesson's own pass mark, else 80 % of its total rounded up, else never. *)
lessonPassMark(passing_points, total_points) ==
    IF passing_points > 0 THEN passing_points
    ELSE IF total_points > 0 THEN (total_points * 80 + 99) \div 100
    ELSE Unreachable

(* lessonprogress.points >= lessonPassMark(lesson), as every write of `completed` computes it. *)
LessonCompleted(points, passing_points, total_points) ==
    LET mark == lessonPassMark(passing_points, total_points)
    IN  mark # Unreachable /\ points >= mark

(* The stored `progress` of a lesson, level or grade row. *)
progressPercent(points, total) == ToFixed2(points, total)

percentCompleted(progress) == progress >= COMPLETED_PERCENTAGE

(* With the organisation's rule on, an attempt that does not pass is stored with 0 points. *)
lessonQuizAttemptPoints(ruleOn, ispass, points) == IF ruleOn /\ ~ispass THEN 0 ELSE points

=============================================================================
