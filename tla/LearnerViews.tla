---------------------------- MODULE LearnerViews ----------------------------
(***************************************************************************)
(* The numbers a learner's screens show.  Five readers decide for          *)
(* themselves which lessons and practices are done, each from its own      *)
(* columns: lesson/level, level/library, student/summary, level/progress   *)
(* and the activity route.                                                 *)
(*                                                                         *)
(* A percentage is in hundredths, as in Scoring.                           *)
(***************************************************************************)
EXTENDS ContentViews, Scoring

(* points * 100 / 0 in JavaScript: above every bound. *)
Infinity == 1000000

(* 0 without points; otherwise the points against the lesson's total of today. *)
shownProgress(points, total) ==
    IF points = 0 THEN 0 ELSE IF total = 0 THEN Infinity ELSE ToFixed2(points, total)

(* The caller's row for a lesson, if there is one. *)
LessonRows(user, l) == {db.studentlessonsprogress[<<k, l>>] : k \in {user.studentid} \cap Learners} \ {None}

-----------------------------------------------------------------------------
(* lesson/level: the numbers of one lesson. *)
LessonTile(user, l) ==
    LET rows == LessonRows(user, l)
    IN  [progress  |-> IF rows = {} THEN 0
                       ELSE shownProgress((CHOOSE r \in rows : TRUE).points, db.lessons[l].total_points),
         completed |-> \E r \in rows : r.completed]

(* level/library. *)
isLessonComplete_hundred(user, l) ==
    \E r \in LessonRows(user, l) : shownProgress(r.points, db.lessons[l].total_points) >= 10000

isLessonComplete(user, l) ==
    \E r \in LessonRows(user, l) :
        r.completed \/ shownProgress(r.points, db.lessons[l].total_points) >= 10000

LibraryLevel(user, v) ==
    [number_lessons           |-> Cardinality(LessonsOf(v)),
     number_completed_lessons |-> Cardinality({l \in LessonsOf(v) : isLessonComplete(user, l)})]

(* student/summary: from the stored percentage, not from the points. *)
doneLessonIds(user) == {l \in Lessons : \E r \in LessonRows(user, l) : r.completed \/ r.progress >= 10000}

(* A level without a live lesson is never completed. *)
SummaryLevel(user, v) ==
    LET done == LessonsOf(v) \cap doneLessonIds(user)
    IN  [lessonsCompleted |-> Cardinality(done), lessonsTotal |-> Cardinality(LessonsOf(v)),
         completed |-> LessonsOf(v) # {} /\ done = LessonsOf(v)]

(* a comes before b: by the grade's order, then by the level's. *)
LevelBefore(a, b) ==
    LET ga == db.grades[db.levels[a].gradeid].gradeorder
        gb == db.grades[db.levels[b].gradeid].gradeorder
    IN  ga < gb \/ (ga = gb /\ db.levels[a].levelorder < db.levels[b].levelorder)

(* The counts of one curriculum, and the level to go on with: at most one, the first not completed. *)
SummaryCurriculum(user, c) ==
    LET counted == {v \in UNION {LevelsOf(g) : g \in GradesOf(c)} : LessonsOf(v) # {}}
        done    == {v \in counted : SummaryLevel(user, v).completed}
    IN  [levelsTotal |-> Cardinality(counted), levelsCompleted |-> Cardinality(done),
         currentLevel |-> {v \in counted \ done : \A w \in counted \ done : ~LevelBefore(w, v)}]

(* student/summary: every enrolled curriculum's. *)
getprogresssummary(user) == [c \in getEnrolledCurriculums(user) |-> SummaryCurriculum(user, c)]

(* level/progress: points against the pass mark, of rows earned in this grade. *)
LevelListing(user, gradeid, v) ==
    [number_lessons           |-> Cardinality(LessonsOf(v)),
     number_completed_lessons |-> Cardinality({l \in LessonsOf(v) :
        \E r \in LessonRows(user, l) :
            r.gradeid = gradeid
            /\ LessonCompleted(r.points, db.lessons[l].passing_points, db.lessons[l].total_points)})]

-----------------------------------------------------------------------------
(* The practices of a lesson.  BestOf: the best marks of the caller's attempts. *)
BestOf(user, ref) == {db.studentprogress[<<k, ref>>] : k \in {user.studentid} \cap Learners} \ {None}

buildpracticesprogress_empty(user, p) ==
    LET best   == BestOf(user, p)
        active == Cardinality(getpracticequestions({p}))
    IN  CASE best = {} -> "todo"
          [] active = 0 -> "inProgress"
          [] \A m \in best : CapAt100(ToFixed2(m, active)) < COMPLETED_PERCENTAGE -> "inProgress"
          [] OTHER -> "done"

(* The best marks against the questions active today; done when there is nothing left to score against. *)
buildpracticesprogress(user, p) ==
    LET best   == BestOf(user, p)
        active == Cardinality(getpracticequestions({p}))
    IN  CASE best = {} -> "todo"
          [] active > 0 /\ \A m \in best : CapAt100(ToFixed2(m, active)) < COMPLETED_PERCENTAGE -> "inProgress"
          [] OTHER -> "done"

=============================================================================
