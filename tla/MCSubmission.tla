---------------------------- MODULE MCSubmission ----------------------------
(***************************************************************************)
(* Small instances: a lesson with a practice "p" and a quiz "q", in level  *)
(* "v" with a level quiz, and a baseline "b".  The lesson's total is what  *)
(* its activities add up to.                                               *)
(***************************************************************************)
EXTENDS Submission

CONSTANTS r1, r2, r3, r4, r5

MCActivities == {"p", "q", "v", "b"}
MCKindOf == [a \in MCActivities |->
    CASE a = "p" -> "practice" [] a = "q" -> "quiz" [] a = "v" -> "levelquiz" [] a = "b" -> "baseline"]
MCWorth == [a \in MCActivities |-> IF a = "b" THEN 0 ELSE 1]
MCTotalOf == [t \in Tables |-> IF t = "lesson" THEN 2 ELSE 3]
MCPercentages == {5000, 10000}

(* One after another: two attempts at a quiz, a practice, a level quiz and its copy. *)
SerialReq == {r1, r2, r3, r4, r5}
SerialActivityOf == [r \in SerialReq |-> IF r \in {r1, r2} THEN "q" ELSE IF r = r3 THEN "p" ELSE "v"]
SerialStartOf == [r \in SerialReq |-> IF r = r2 THEN 2 ELSE 1]

(* At the same time: two attempts at the quiz. *)
PairReq == {r1, r2}
PairActivityOf == [r \in PairReq |-> "q"]
PairStartOf == [r \in PairReq |-> IF r = r1 THEN 1 ELSE 2]

(* At the same time: a quiz result, its copy, and a baseline result. *)
MixedReq == {r1, r2, r3}
MixedActivityOf == [r \in MixedReq |-> IF r = r3 THEN "b" ELSE "q"]
MixedStartOf == [r \in MixedReq |-> 1]
=============================================================================
