---------------------------- MODULE Recalculation ----------------------------
(***************************************************************************)
(* scripts/recalc-lesson-quiz-points.js next to the handlers of Progress:  *)
(* the one-off that takes back what failed quiz attempts earned before the *)
(* organisation switched requireLessonQuizPass on.  The server is stopped  *)
(* while it runs, and a learner is one transaction, so it is one action; a *)
(* learner whose transaction fails is unchanged.                           *)
(***************************************************************************)
EXTENDS Progress

(* What becomes of a quiz's rows: credited once, left alone, or no pass at all. *)
CountedPass(q)   == ispass(q)
OnlyUncounted(q) == ~ispass(q) /\ \E r \in rows[q] : r.ispass
NoPass(q)        == rows[q] # {} /\ \A r \in rows[q] : ~r.ispass

(* zeroRows: the attempts that are no pass stop holding points. *)
Zeroed(q) ==
    IF OnlyUncounted(q) THEN rows[q]
    ELSE {IF r.ispass THEN r ELSE [r EXCEPT !.points = 0] : r \in rows[q]}

(* The first attempt's points instead of the newest's. *)
Amount_first(l) ==
    SumFunctionOnSet([q \in Quizzes |-> Oldest(rows[q]).points], {q \in In(l, Quizzes) : NoPass(q)})

(* What the app counts as credited for the quizzes of a lesson that have no pass. *)
Amount(l) == HeldByAttempts(rows, {q \in In(l, Quizzes) : NoPass(q)})

(* What the other parts of the lesson add up to. *)
Rest(l) ==
    HeldByLearning(learnt, In(l, Learnings))
    + HeldByAttempts(rows, In(l, Practices) \cup {q \in In(l, Quizzes) : OnlyUncounted(q)})
    + PassesHold(l)

(* The lesson goes down to what its other parts add up to, never by more than the credit taken off. *)
Reduction(l) ==
    LET old == totals.lesson[l].points
    IN  IF totals.lesson[l] = NoRow THEN Amount(l) ELSE Min({Amount(l), old - Min({old, Rest(l)})})

(* What a level or the grade loses with its lessons. *)
Lost(ls) == SumFunctionOnSet([l \in Lessons |-> Reduction(l)], ls)

(* A level or grade row that loses n points, not below 0; without a row there is nothing to reduce. *)
Reduced(row, n, total) ==
    IF row = NoRow \/ n = 0 THEN row
    ELSE LET p == Positive(row.points - n)
         IN  [row EXCEPT !.points = p, !.completed = percentCompleted(progressPercent(p, total))]

ReducedLesson(l) ==
    LET row == totals.lesson[l]
        p   == row.points - Reduction(l)
    IN  IF row = NoRow \/ Amount(l) = 0 THEN row
        ELSE [row EXCEPT !.points = p, !.completed = LessonCompleted(p, PassingPoints[l], TotalPoints[l])]

Recalculate ==
    /\ rule
    /\ rows' = [a \in Attempted |-> IF a \in Quizzes THEN Zeroed(a) ELSE rows[a]]
    /\ totals' =
         [lesson |-> [l \in Lessons |-> ReducedLesson(l)],
          level  |-> [v \in Levels |->
                        Reduced(totals.level[v], Lost(LessonsOf(v)), LevelPoints[v])],
          grade  |-> Reduced(totals.grade, Lost(Lessons), GradePoints)]
    /\ UNCHANGED <<points, rule, require, learnt, daily, actives, edits>>

RecalcNext == Next \/ Recalculate

RecalcSpec == Init /\ [][RecalcNext]_vars

(* What the lesson should be worth under the rule: its other activities, and each counted pass once. *)
Deserved(l) == HeldByLearning(learnt, In(l, Learnings)) + HeldByAttempts(rows, In(l, Practices)) + PassesHold(l)

(***************************************************************************)
(* After a recalculation every lesson holds what its other activities and  *)
(* its counted passes deserve under the rule, unless a quiz was left alone *)
(* for a pass that does not count, and "running it twice with --apply      *)
(* changes nothing the second time", whatever attempts, re-weightings and  *)
(* switched rules came before.                                             *)
(***************************************************************************)
RecalculationSettles ==
    [][Recalculate =>
        /\ \A l \in Lessons : Slack(l) /\ (\A q \in In(l, Quizzes) : ~OnlyUncounted(q)) =>
               totals'.lesson[l].points = Deserved(l)
        /\ \A l \in Lessons : Amount(l)' = 0
        /\ \A q \in Quizzes : Zeroed(q)' = rows'[q]]_vars

=============================================================================
