------------------------------ MODULE Progress ------------------------------
(***************************************************************************)
(* One learner's points and stars: every result handler of                 *)
(* result.controller.ts and the learning report of lesson.controller.ts,   *)
(* each as one atomic action (requests handled one after another; Submission*)
(* has them interleave), together with what changes under the learner's    *)
(* feet: re-imported content, the organisation's pass rule and the grading *)
(* settings.                                                               *)
(*                                                                         *)
(* The same points are kept in two ledgers: the attempt rows               *)
(* (studentprogress, studentlearningprogress), which the daily row and the *)
(* reports add up, and the running totals of the lesson, level and grade   *)
(* rows, which each handler moves by a difference.                         *)
(***************************************************************************)
EXTENDS Reward, FiniteSetsExt

CONSTANTS
    Learnings, Practices, Quizzes,  \* activities of lessons
    Lessons, Levels,                \* a level's quiz goes by the level's own id
    LessonOf,                       \* activity -> lesson
    LevelOf,                        \* lesson -> level
    TotalPoints, PassingPoints,     \* lessons.total_points, lessons.passing_points
    LevelPoints, GradePoints,       \* levels.points, grades.points
    MaxPoints,                      \* bound: points an activity can be worth, per activity
    Percentages,                    \* the results an attempt can score
    MaxStart,                       \* bound: distinct start times of attempts, per activity
    MaxViews,                       \* bound: views of a learning item
    MaxEdits,                       \* bound: content changes
    Ordered,                        \* TRUE: attempts arrive in the order they were started
    RuleMayChange,                  \* TRUE: the pass rule may be switched during the behaviour
    RequireMayBecome                \* what the grading requirement may be switched to

Attempted == Practices \cup Quizzes \cup Levels   \* what has studentprogress rows
Activities == Learnings \cup Attempted

ASSUME ProgressAssumption ==
    /\ LessonOf \in [Learnings \cup Practices \cup Quizzes -> Lessons]
    /\ LevelOf \in [Lessons -> Levels]
    /\ TotalPoints \in [Lessons -> Nat \ {0}] /\ PassingPoints \in [Lessons -> Nat]
    /\ LevelPoints \in [Levels -> Nat \ {0}] /\ GradePoints \in Nat \ {0}
    /\ MaxPoints \in [Activities -> Nat]
    /\ \A a \in Learnings \cup Practices \cup Quizzes : MaxPoints[a] <= TotalPoints[LessonOf[a]]
    /\ MaxStart \in [Attempted -> Nat] /\ MaxViews \in Nat /\ MaxEdits \in Nat
    /\ {Ordered, RuleMayChange} \cup RequireMayBecome \subseteq BOOLEAN
    /\ Percentages \subseteq 0..10000
    /\ IsFiniteSet(Activities) /\ IsFiniteSet(Lessons)
    /\ Learnings \cap Attempted = {}       \* every table has ids of its own
    /\ Practices \cap Quizzes = {} /\ (Practices \cup Quizzes) \cap Levels = {}

VARIABLES
    points,    \* content: what each activity is worth now
    rule,      \* organisations.settingsconfig.requireLessonQuizPass
    require,   \* GRADING_MODE=enforce and REQUIRE_GRADED_ANSWERS both on
    rows,      \* studentprogress rows of each practice, quiz and level quiz
    learnt,    \* studentlearningprogress row of each learning item
    totals,    \* the lesson, level and grade progress rows
    daily,     \* today's studentpoints.lessonpoints of each lesson (NoDaily: no row)
    actives,   \* what has a studentactives row today
    edits      \* content changes so far

vars == <<points, rule, require, rows, learnt, totals, daily, actives, edits>>

Attempt == [start : Nat \ {0}, points : Nat, scores : 0..3, ispass : BOOLEAN, verified : BOOLEAN]

NotSeen == [viewed |-> 0, points |-> 0, absent |-> TRUE]
NoDaily == -1

-----------------------------------------------------------------------------
(* Which past passes count. *)
countedpassclause(row) == require => row.verified

(* The passes of an activity that count; practice is never gated. *)
Passes(a) == {r \in rows[a] : r.ispass /\ (a \in Practices \/ countedpassclause(r))}

ispass(a) == Passes(a) # {}

hasTried(a) == rows[a] # {}

(* ORDER BY starttime DESC / ASC, LIMIT 1 *)
Newest(rs) == CHOOSE r \in rs : \A s \in rs : s.start <= r.start
Oldest(rs) == CHOOSE r \in rs : \A s \in rs : s.start >= r.start

(* The points of a row, unless they are what is to be credited now. *)
OldPoints(rs, row, new) == IF rs # {} /\ row.points # new THEN row.points ELSE NoOld

getoldpoints(a, new) == OldPoints(rows[a], Newest(rows[a]), new)

getpassoldpoints_newest(a, new) == getoldpoints(a, new)

getpassoldpoints(a, new) == OldPoints(Passes(a), Oldest(Passes(a)), new)

(* Rule on: a failed attempt older than the newest stored one moves no points. *)
StaleAttempt(a, start, pass) ==
    a \in Quizzes /\ rule /\ ~pass /\ rows[a] # {} /\ Newest(rows[a]).start > start

-----------------------------------------------------------------------------
updateUserReward(t, l, new, old) ==
    LET d      == Delta(new, old)
        v      == LevelOf[l]
        landed == LandedPoints(t.lesson[l], d, TotalPoints[l])
    IN  [lesson |-> [t.lesson EXCEPT ![l] = LessonRow(@, d, PassingPoints[l], TotalPoints[l])],
         level  |-> [t.level EXCEPT ![v] = TotalRow(@, landed, LevelPoints[v])],
         grade  |-> TotalRow(t.grade, landed, GradePoints)]

updateLevelQuizReward(t, v, new, old) ==
    [t EXCEPT !.level[v] = TotalRow(@, Delta(new, old), LevelPoints[v]),
              !.grade    = TotalRow(@, Delta(new, old), GradePoints)]

(* The reward of an activity, to the rows above it. *)
Rewarded(t, a, new, old) ==
    IF a \in Levels THEN updateLevelQuizReward(t, a, new, old) ELSE updateUserReward(t, LessonOf[a], new, old)

addstudentscores(t, l, stars) ==
    LET all == stars + Bonus(t.lesson[l], TotalPoints[l])
        v   == LevelOf[l]
    IN  [t EXCEPT !.lesson[l] = StarredLesson(@, stars, TotalPoints[l]),
                  !.level[v]  = Starred(@, all),
                  !.grade     = Starred(@, all)]

addstudentlevelquizscores(t, v, stars) ==
    [t EXCEPT !.level[v] = StarredLevel(@, stars),
              !.grade    = Starred(@, stars + DefaultStar(t.level[v]))]

Scored(t, a, stars) ==
    IF a \in Levels THEN addstudentlevelquizscores(t, a, stars) ELSE addstudentscores(t, LessonOf[a], stars)

-----------------------------------------------------------------------------
(* What a lesson's activities hold, as getuserlessoncompletedprogress adds it up. *)
HeldByAttempts(rs, as) ==
    SumFunctionOnSet([a \in Attempted |-> IF rs[a] = {} THEN 0 ELSE Newest(rs[a]).points], as)
HeldByLearning(ln, as) ==
    SumFunctionOnSet([a \in Learnings |-> IF ln[a].viewed > 0 THEN ln[a].points ELSE 0], as)

In(l, as) == {a \in as : LessonOf[a] = l}

Held(rs, ln, l) == HeldByLearning(ln, In(l, Learnings)) + HeldByAttempts(rs, In(l, Practices \cup Quizzes))

(* What the counted passes of a lesson's quizzes hold. *)
PassesHold(l) ==
    SumFunctionOnSet([q \in Quizzes |-> IF ispass(q) THEN Oldest(Passes(q)).points ELSE 0], In(l, Quizzes))

(* updateuserdailypoints for a lesson; updateuserdailypointsBylevelquiz for every lesson of the level. *)
DailyPoints(dy, rs, ln, a) ==
    [l \in Lessons |-> IF (a \in Levels /\ LevelOf[l] = a) \/ (a \notin Levels /\ LessonOf[a] = l)
                       THEN Held(rs, ln, l) ELSE dy[l]]

-----------------------------------------------------------------------------
Init ==
    /\ points = MaxPoints
    /\ rule \in BOOLEAN
    /\ require \in BOOLEAN
    /\ rows = [a \in Attempted |-> {}]
    /\ learnt = [a \in Learnings |-> NotSeen]
    /\ totals = [lesson |-> [l \in Lessons |-> NoRow], level |-> [v \in Levels |-> NoRow], grade |-> NoRow]
    /\ daily = [l \in Lessons |-> NoDaily]
    /\ actives = {}
    /\ edits = 0

(* An attempt at an activity already passed only brings its points up to date. *)
PassedAgain(a) ==
    /\ ispass(a)
    /\ LET old == IF rule /\ a \in Quizzes THEN getpassoldpoints(a, points[a]) ELSE getoldpoints(a, points[a])
       IN  totals' = IF old # NoOld THEN Rewarded(totals, a, points[a], old) ELSE totals
    /\ \E p \in Passes(a) :      \* findOne with no order: any pass that counts
         rows' = [rows EXCEPT ![a] = (@ \ {p}) \cup {[p EXCEPT !.points = points[a]]}]
    /\ daily' = DailyPoints(daily, rows', learnt, a)
    /\ actives' = actives \cup {a}
    /\ UNCHANGED <<points, rule, require, learnt, edits>>

(* The stored row of an attempt; the stars come from the percentage, not from the gated pass. *)
NewAttempt(a, start, pct, ver) ==
    LET pass == pct >= COMPLETED_PERCENTAGE /\ (a \in Practices \/ ~require \/ ver)
    IN  [start |-> start, ispass |-> pass, verified |-> ver,
         scores |-> IF a \in Practices THEN 0 ELSE calculatescore(pct),
         points |-> IF a \in Quizzes THEN lessonQuizAttemptPoints(rule, pass, points[a]) ELSE points[a]]

(* A reward at every attempt, changed points or not. *)
RewardDue_always(a, row) == TRUE

(* A first attempt, or one whose points differ from those held. *)
RewardDue(a, row) ==
    /\ ~StaleAttempt(a, row.start, row.ispass)
    /\ ~hasTried(a) \/ getoldpoints(a, row.points) # NoOld

(* A replay of a stored lesson attempt changes neither rows nor totals; a level quiz replay fails. *)
Replayed(a, row) ==
    /\ a \notin Levels
    /\ UNCHANGED <<rows, totals>>

(* A fresh attempt: its row, its reward, then its stars. *)
Created(a, row) ==
    /\ rows' = [rows EXCEPT ![a] = @ \cup {row}]
    /\ LET rewarded == IF RewardDue(a, row)
                       THEN Rewarded(totals, a, row.points, getoldpoints(a, row.points)) ELSE totals
       IN  totals' = Scored(rewarded, a, row.scores)

(* savelessonpracticeresult, savelessonquizresult, savelevelquizresult of an activity not yet passed. *)
Submit(a, start, pct, ver) ==
    /\ ~ispass(a)
    /\ Ordered => \A r \in rows[a] : r.start <= start
    /\ LET row == NewAttempt(a, start, pct, ver)
       IN  IF \E r \in rows[a] : r.start = start
           THEN Replayed(a, row)
           ELSE Created(a, row)
    /\ daily' = DailyPoints(daily, rows', learnt, a)
    /\ actives' = actives \cup {a}
    /\ UNCHANGED <<points, rule, require, learnt, edits>>

(* The learning row after a report; a reward is due on the first completed view or on changed points. *)
LearntAfter(a, ended) ==
    LET row  == learnt[a]
        done == row.viewed > 0 \/ ended
    IN  [viewed |-> row.viewed + (IF ended THEN 1 ELSE 0), points |-> IF done THEN points[a] ELSE 0]

LearningOld(a, ended) ==
    LET row == learnt[a]
    IN  IF row # NotSeen /\ (row.viewed > 0 \/ ended) /\ row.points # points[a] THEN row.points ELSE NoOld

(* updatelearningprogress: a report on a learning item, complete (ended) or not. *)
updatelearningprogress(a, ended) ==
    /\ ended => learnt[a].viewed < MaxViews
    /\ learnt' = [learnt EXCEPT ![a] = LearntAfter(a, ended)]
    /\ LET old == LearningOld(a, ended)
           due == old # NoOld \/ (ended /\ learnt'[a].viewed = 1)
           t   == IF due THEN updateUserReward(totals, LessonOf[a], points[a], old) ELSE totals
       IN  totals' = IF ended THEN addstudentscores(t, LessonOf[a], 0) ELSE t
    /\ daily' = DailyPoints(daily, rows, learnt', a)
    /\ actives' = actives \cup {a}
    /\ UNCHANGED <<points, rule, require, rows, edits>>

(* A content import re-weights an activity. *)
ImportContent(a) ==
    /\ edits < MaxEdits
    /\ edits' = edits + 1
    /\ \E n \in 0..MaxPoints[a] : n # points[a] /\ points' = [points EXCEPT ![a] = n]
    /\ UNCHANGED <<rule, require, rows, learnt, totals, daily, actives>>

(* The organisation switches its pass rule; the operator restarts with other grading settings. *)
SwitchRule ==
    /\ RuleMayChange /\ edits < MaxEdits /\ edits' = edits + 1 /\ rule' = ~rule
    /\ UNCHANGED <<points, require, rows, learnt, totals, daily, actives>>
SwitchRequire ==
    /\ (~require) \in RequireMayBecome /\ edits < MaxEdits /\ edits' = edits + 1 /\ require' = ~require
    /\ UNCHANGED <<points, rule, rows, learnt, totals, daily, actives>>

(* `verified` is enumerated where some rule reads it: never for practice, else while `require` is or may come on. *)
MayBeVerified(a) == IF a \in Practices \/ ~(require \/ TRUE \in RequireMayBecome) THEN {FALSE} ELSE BOOLEAN

Next ==
    \/ \E a \in Attempted :
          \/ PassedAgain(a)
          \/ \E start \in 1..MaxStart[a], pct \in Percentages, ver \in MayBeVerified(a) : Submit(a, start, pct, ver)
    \/ \E a \in Learnings, ended \in BOOLEAN : updatelearningprogress(a, ended)
    \/ \E a \in Activities : ImportContent(a)
    \/ SwitchRule
    \/ SwitchRequire

Spec == Init /\ [][Next]_vars

-----------------------------------------------------------------------------
Row == ProgressRow \cup {NoRow}

(* Types: stars are 0 to 3 per attempt, points never negative in the attempt rows. *)
TypeOK ==
    /\ points \in [Activities -> Nat] /\ rule \in BOOLEAN /\ require \in BOOLEAN
    /\ rows \in [Attempted -> SUBSET Attempt]
    /\ learnt \in [Learnings -> [viewed : Nat, points : Nat] \cup {NotSeen}]
    /\ totals \in [lesson : [Lessons -> Row], level : [Levels -> Row], grade : Row]
    /\ daily \in [Lessons -> Nat \cup {NoDaily}]
    /\ actives \subseteq Activities /\ edits \in 0..MaxEdits

PointsOf(row) == row.points
ScoresOf(row) == row.scores

LessonsOf(v) == {l \in Lessons : LevelOf[l] = v}
LevelQuizHeld(v) == HeldByAttempts(rows, {v})

(***************************************************************************)
(* The two ledgers agree: the running total of every lesson row is the sum *)
(* of what the lesson's attempt and learning rows hold, although each      *)
(* handler moves the total by a difference it works out from one old row   *)
(* (getoldpoints) and content and rule may change in between.  For content *)
(* whose activities never add up to more than the lesson's total, and an   *)
(* operator who does not switch the grading requirement on and off again.  *)
(* A level's points are those of its lessons and its quiz, and the grade's *)
(* those of its levels.                                                    *)
(***************************************************************************)
LedgersAgree ==
    /\ \A l \in Lessons : PointsOf(totals.lesson[l]) = Held(rows, learnt, l)
    /\ \A v \in Levels : PointsOf(totals.level[v]) =
          SumFunctionOnSet([l \in Lessons |-> PointsOf(totals.lesson[l])], LessonsOf(v)) + LevelQuizHeld(v)
    /\ PointsOf(totals.grade) = SumFunctionOnSet([v \in Levels |-> PointsOf(totals.level[v])], Levels)

StarsOf(rs) == SumFunctionOnSet([r \in rs |-> ScoresOf(r)], rs)
StarsHeld(as) == SumFunctionOnSet([a \in Attempted |-> StarsOf(rows[a])], as)
Once(row) == IF row.flag THEN 1 ELSE 0

(***************************************************************************)
(* Stars are neither lost nor counted twice: a lesson's are those of its   *)
(* quizzes' attempt rows and its one bonus star, a level's those of its    *)
(* lessons, its quiz attempts and the one default star, the grade's those  *)
(* of its levels.                                                          *)
(***************************************************************************)
StarsAddUp ==
    /\ \A l \in Lessons : ScoresOf(totals.lesson[l]) = StarsHeld(In(l, Quizzes)) + Once(totals.lesson[l])
    /\ \A v \in Levels : ScoresOf(totals.level[v]) = StarsHeld({v}) + Once(totals.level[v])
          + SumFunctionOnSet([l \in Lessons |-> ScoresOf(totals.lesson[l])], LessonsOf(v))
    /\ ScoresOf(totals.grade) = SumFunctionOnSet([v \in Levels |-> ScoresOf(totals.level[v])], Levels)

(* The lesson's activities together are never worth more than its total: the cap plays no part. *)
Slack(l) == SumFunctionOnSet(MaxPoints, In(l, Activities \ Levels)) <= TotalPoints[l]

(***************************************************************************)
(* With the pass rule on, a quiz is worth to its lesson exactly what its   *)
(* earliest counted pass holds, in whatever order failed and passing       *)
(* attempts arrive: a pass is never credited twice and never lost.         *)
(***************************************************************************)
PassCreditedOnce ==
    rule => \A l \in Lessons : Slack(l) =>
        PointsOf(totals.lesson[l]) =
            HeldByLearning(learnt, In(l, Learnings)) + HeldByAttempts(rows, In(l, Practices))
            + PassesHold(l)

(***************************************************************************)
(* The level accrues what landed on the lesson: no step adds points to one *)
(* of the two and other points, or none, to the other, also where the      *)
(* lesson is full and keeps only part of a submission.  (A deduction the   *)
(* lesson is too low for is another matter: the lesson skips it, the level *)
(* does not.)                                                              *)
(***************************************************************************)
LevelAccruesWhatLanded ==
    [][\A v \in Levels : rows'[v] = rows[v] =>
        LET onlevel   == PointsOf(totals'.level[v]) - PointsOf(totals.level[v])
            onlessons == SumFunctionOnSet([l \in Lessons |-> PointsOf(totals'.lesson[l]) - PointsOf(totals.lesson[l])],
                                          LessonsOf(v))
        IN  onlevel > 0 \/ onlessons > 0 => onlevel = onlessons]_vars

=============================================================================
