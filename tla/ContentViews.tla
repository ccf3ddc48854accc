---------------------------- MODULE ContentViews ----------------------------
(***************************************************************************)
(* What the content routes answer: for each route the content it names in  *)
(* its path (what ContentAccessGuard checks) and the content rows its      *)
(* handler reads.  A row is <<kind, id>>.  Names, texts, order and         *)
(* translations of the rows are left out; a search text is taken to match  *)
(* everything, which is the widest answer.                                 *)
(***************************************************************************)
EXTENDS ContentAccess

Rows(kind, ids) == {kind} \X ids

(* The condition of almost every list: switched on and not marked deleted. *)
Shown(row) == row.status /\ ~row.isdeleted

GradesOf(c)  == FindAll("grades",  LAMBDA g : g.curriculumid = c /\ Shown(g))
LevelsOf(g)  == FindAll("levels",  LAMBDA v : v.gradeid = g /\ Shown(v))
LessonsOf(v) == FindAll("lessons", LAMBDA l : l.levelid = v /\ Shown(l))

-----------------------------------------------------------------------------
(* Curricula. *)

findallcurriculum(user) == Rows("curriculum", curriculumIdsInScope(user))

findcurriculum(curriculumid) == Rows("curriculum", {curriculumid} \cap Curricula)

(* The map: inner joins down to the lessons, so a curriculum, grade or level without any is not in it. *)
findcurriculumgrades(curriculumid) ==
    LET ls == UNION {UNION {LessonsOf(v) : v \in LevelsOf(g)} : g \in GradesOf(curriculumid)}
        vs == {db.lessons[l].levelid : l \in ls}
    IN  IF \E c \in Find("curriculums", curriculumid) : Shown(c)
        THEN Rows("lesson", ls) \cup Rows("level", vs)
             \cup Rows("grade", {db.levels[v].gradeid : v \in vs})
             \cup {<<"curriculum", curriculumid>> : l \in ls}
        ELSE {}

(* studentsOfSchool(schoolScopeFromToken): the learners of the school the token names. *)
studentsOfSchool(user) == FindAll("students", LAMBDA k : k.schoolid = user.schoolid)

(* std is the learner the query's learner or class finds in the caller's school, or None. *)
getCurriculumsWithFilter(user, std) ==
    LET narrowed == IF callerKindOf(user) = "staff" /\ std # None
                    THEN curriculumIdsInScope(user) \cap db.students[std].curriculumids
                    ELSE curriculumIdsInScope(user)
    IN  Rows("curriculum", {c \in narrowed : Shown(db.curriculums[c])})

(* What curriculum/subjects, the progress summary and the library start from. *)
getEnrolledCurriculums(user) == {c \in enrolledCurriculumIds(user) : Shown(db.curriculums[c])}

getCurriculumsWithSubject(user) == Rows("curriculum", getEnrolledCurriculums(user))

-----------------------------------------------------------------------------
(* Grades and levels. *)

getgradesbycurriculumid(curriculumid) == Rows("grade", GradesOf(curriculumid))

getusergradesprogess(curriculumid) == Rows("grade", GradesOf(curriculumid))

(* A grade that is switched off is still listed here; a class narrows to its first learner's curriculum. *)
getGradesWithFilter(user, curid, std) ==
    LET keep == (IF curid = None THEN Curricula ELSE {curid})
                \cap (IF std = None THEN Curricula ELSE {db.students[std].curriculumid})
    IN  Rows("grade", FindAll("grades", LAMBDA g :
            ~g.isdeleted /\ g.curriculumid \in curriculumIdsInScope(user) \cap keep))

getlevelsbygradeid(gradeid) == Rows("level", LevelsOf(gradeid))

getuserlevelsprogress(gradeid) == Rows("level", LevelsOf(gradeid))

getLevelsWithFilter_drafts(user, gradeid) ==
    Rows("level", FindAll("levels", LAMBDA v :
        ~v.isdeleted /\ v.gradeid \in gradeIdsInScope(user) /\ gradeid \in {None, v.gradeid}))

getLevelsWithFilter(user, gradeid) ==
    Rows("level", FindAll("levels", LAMBDA v :
        Shown(v) /\ v.gradeid \in gradeIdsInScope(user) /\ gradeid \in {None, v.gradeid}))

(* One call for everything a learner is enrolled in, tier by tier. *)
LibraryGrades(user)  == UNION {GradesOf(c) : c \in getEnrolledCurriculums(user)}
LibraryLevels(user)  == UNION {LevelsOf(g) : g \in LibraryGrades(user)}

getLibrary(user) ==
    IF user.studentid = None THEN {}
    ELSE Rows("curriculum", getEnrolledCurriculums(user)) \cup Rows("grade", LibraryGrades(user))
         \cup Rows("level", LibraryLevels(user))

-----------------------------------------------------------------------------
(* Lessons and their activities. *)

ActiveIn(table, lessons) == FindAll(table, LAMBDA a : a.lessonid \in lessons /\ a.status)

(* The level itself is answered only when it has a level quiz. *)
LevelWithQuiz(levelid) ==
    {<<"level", levelid>> : q \in
        FindAll("levelquizquestions", LAMBDA q : q.levelid = levelid /\ q.status /\
                \E v \in Find("levels", levelid) : v.status)}

getlessonsbylevelid(levelid) == Rows("lesson", LessonsOf(levelid)) \cup LevelWithQuiz(levelid)

getuserlessonsprogress(levelid) == Rows("lesson", LessonsOf(levelid)) \cup LevelWithQuiz(levelid)

(* A lesson that is switched off is still listed here. *)
getLessonsWithFilter(user, levelid) ==
    Rows("lesson", FindAll("lessons", LAMBDA l :
        ~l.isdeleted /\ l.levelid \in levelIdsInScope(user) /\ levelid \in {None, l.levelid}))

ShownLesson(lessonid) == {l \in {lessonid} \cap Lessons : Shown(db.lessons[l])}

(* The lesson with its level and grade, whatever their own switches. *)
getuserlessonprogress(lessonid) ==
    LET ls == ShownLesson(lessonid)
        vs == {db.lessons[l].levelid : l \in ls}
    IN  Rows("lesson", ls) \cup Rows("level", vs) \cup Rows("grade", {db.levels[v].gradeid : v \in vs})

(* The bricks of a lesson; its plans only for a teacher's account. *)
getlessonbricks(lessonid, user) ==
    LET ls == ShownLesson(lessonid)
    IN  Rows("lesson", ls) \cup Rows("lessonlearning", ActiveIn("lessonlearnings", ls))
        \cup Rows("lessonpractice", ActiveIn("lessonpractices", ls))
        \cup Rows("lessonquiz", ActiveIn("lessonquizzes", ls))
        \cup (IF user.is_teacher_acc THEN Rows("lessonplan", ActiveIn("lessonplans", ls)) ELSE {})

(* The shared core of the two activity routes. *)
getactivitiesprogressforlessons(lessons) ==
    Rows("lessonlearning", ActiveIn("lessonlearnings", lessons))
    \cup Rows("lessonpractice", ActiveIn("lessonpractices", lessons))
    \cup Rows("lessonquiz", ActiveIn("lessonquizzes", lessons))

getlessonactivitiesprogress(lessonid) == getactivitiesprogressforlessons({lessonid} \cap Lessons)

getlevelactivitiesprogress(levelid) ==
    Rows("lesson", LessonsOf(levelid)) \cup getactivitiesprogressforlessons(LessonsOf(levelid))

DocumentsOf(rows) == {r.documentid : r \in rows} \ {None}

(* The further documents of a learning item, those of the caller's organisation only. *)
getlearningitemdocuments(lessonlearningid, user) ==
    LET linked == {db.lessonlearningdocuments[k].documentid :
                     k \in FindAll("lessonlearningdocuments", LAMBDA k : k.lessonlearningid = lessonlearningid)}
    IN  {d \in linked : db.documents[d].organisationid = user.organisationid}

(* A learning item by id, switched on or not, with its primary and its further documents. *)
getlearninglesson(lessonlearningid, user) ==
    Rows("lessonlearning", {lessonlearningid} \cap Learnings)
    \cup Rows("document", DocumentsOf(Find("lessonlearnings", lessonlearningid)))
    \cup Rows("document", getlearningitemdocuments(lessonlearningid, user))

getplanlesson(lessonplanid) ==
    Rows("lessonplan", {lessonplanid} \cap Plans)
    \cup Rows("document", DocumentsOf(Find("lessonplans", lessonplanid)))

-----------------------------------------------------------------------------
(* Questions: the active ones of their container. *)

getpracticequestions(practices) ==
    Rows("lessonpracticequestion",
         FindAll("lessonpracticequestions", LAMBDA q : q.lessonpracticeid \in practices /\ q.status))

getquizquestions(quizzes) ==
    Rows("lessonquizquestion",
         FindAll("lessonquizquestions", LAMBDA q : q.lessonquizid \in quizzes /\ q.status))

(* A lesson with its active activities, their questions and the learning items' documents. *)
getlessonquestions(lessonid) ==
    LET ls == ShownLesson(lessonid)
        learnings == ActiveIn("lessonlearnings", ls)
    IN  Rows("lesson", ls) \cup getactivitiesprogressforlessons(ls)
        \cup getpracticequestions(ActiveIn("lessonpractices", ls))
        \cup getquizquestions(ActiveIn("lessonquizzes", ls))
        \cup Rows("document", DocumentsOf({db.lessonlearnings[n] : n \in learnings}))

(* Only a level that is switched on; one with no active question is not answered. *)
getlevelquestions(levelid) ==
    LET qs == FindAll("levelquizquestions", LAMBDA q :
                  q.levelid = levelid /\ q.status /\ db.levels[levelid].status)
    IN  Rows("levelquizquestion", qs) \cup {<<"level", levelid>> : q \in qs}

(* The same, with the learner's answers: nothing before a first attempt. *)
getlevelquestionsanswers(levelid, user) ==
    IF user.studentid # None /\ db.studentprogress[<<user.studentid, levelid>>] # None
    THEN getlevelquestions(levelid) \ {<<"level", levelid>>} ELSE {}

getbaselinequestions(curriculumbaselineid) ==
    LET qs == FindAll("baselinequestion", LAMBDA q :
                  q.curriculumbaselineid = curriculumbaselineid /\ q.status
                  /\ db.curriculumbaseline[curriculumbaselineid].status)
    IN  Rows("baselinequestion", qs) \cup {<<"baseline", curriculumbaselineid>> : q \in qs}

(* The baseline findOne finds for a curriculum (b, any of its live ones), if it is meant for the school. *)
getCurriculumBaseline(curriculumid, schoolid, b) ==
    LET row == db.curriculumbaseline[b]
    IN  {<<"baseline", b>> : s \in {s \in row.schoolid :
            s = schoolid /\ row.curriculumid = curriculumid /\ Shown(row)}}

-----------------------------------------------------------------------------
(***************************************************************************)
(* The controllers.  XRoutes gives each route of a controller the kind of  *)
(* content its path names, which ContentAccessGuard checks after           *)
(* AccessGuard, or None for a list with AccessGuard alone.  XController is *)
(* what the route's handler answers once the guards have let it through:   *)
(* id is the id in the path (in the query, for a list), std the learner    *)
(* the query of a list finds in the caller's school.                       *)
(***************************************************************************)
CurriculumRoutes ==
    [get |-> None, all |-> None, subjects |-> None,
     one |-> "curriculum", map |-> "curriculum", baseline |-> "curriculum"]

(* The baseline route is about the school the token names; the school in its path is not read. *)
BaselineHandler(user, curriculumid) ==
    UNION {getCurriculumBaseline(curriculumid, user.schoolid, b) : b \in Baselines}

CurriculumController(route, user, id, std) ==
    CASE route = "get"      -> findallcurriculum(user)
      [] route = "all"      -> getCurriculumsWithFilter(user, std)
      [] route = "subjects" -> getCurriculumsWithSubject(user)
      [] route = "one"      -> findcurriculum(id)
      [] route = "map"      -> findcurriculumgrades(id)
      [] route = "baseline" -> BaselineHandler(user, id)

GradeRoutes == [all |-> None, curriculum |-> "curriculum", progress |-> "curriculum"]

GradeController(route, user, id, std) ==
    CASE route = "all"        -> getGradesWithFilter(user, id, std)
      [] route = "curriculum" -> getgradesbycurriculumid(id)
      [] route = "progress"   -> getusergradesprogess(id)

LevelRoutes == [library |-> None, all |-> None, grade |-> "grade", progress |-> "grade"]

LevelController(route, user, id, std) ==
    CASE route = "library"  -> getLibrary(user)
      [] route = "all"      -> getLevelsWithFilter(user, id)
      [] route = "grade"    -> getlevelsbygradeid(id)
      [] route = "progress" -> getuserlevelsprogress(id)

LessonRoutes ==
    [all |-> None, level |-> "level", progress |-> "level", steps |-> "level",
     lessonprogress |-> "lesson", activities |-> "lesson"]

LessonController(route, user, id, std) ==
    CASE route = "all"            -> getLessonsWithFilter(user, id)
      [] route = "level"          -> getlessonsbylevelid(id)
      [] route = "progress"       -> getuserlessonsprogress(id)
      [] route = "steps"          -> getlevelactivitiesprogress(id)
      [] route = "lessonprogress" -> getuserlessonprogress(id)
      [] route = "activities"     -> getlessonactivitiesprogress(id)

LearningRoutes == [learning |-> "lessonlearning", bricks |-> "lesson", plan |-> "lessonplan"]

LearningController(route, user, id, std) ==
    CASE route = "learning" -> getlearninglesson(id, user)
      [] route = "bricks"   -> getlessonbricks(id, user)
      [] route = "plan"     -> getplanlesson(id)

QuestionRoutes ==
    [lesson |-> "lesson", level |-> "level", answers |-> "level",
     practice |-> "lessonpractice", quiz |-> "lessonquiz", baseline |-> "baseline"]

QuestionController(route, user, id, std) ==
    CASE route = "lesson"   -> getlessonquestions(id)
      [] route = "level"    -> getlevelquestions(id)
      [] route = "answers"  -> getlevelquestionsanswers(id, user)
      [] route = "practice" -> getpracticequestions({id})
      [] route = "quiz"     -> getquizquestions({id})
      [] route = "baseline" -> getbaselinequestions(id)

Controllers ==
    [curriculum |-> CurriculumRoutes, grade |-> GradeRoutes, level |-> LevelRoutes,
     lesson |-> LessonRoutes, learning |-> LearningRoutes, question |-> QuestionRoutes]

Handler(ctl, route, user, id, std) ==
    CASE ctl = "curriculum" -> CurriculumController(route, user, id, std)
      [] ctl = "grade"      -> GradeController(route, user, id, std)
      [] ctl = "level"      -> LevelController(route, user, id, std)
      [] ctl = "lesson"     -> LessonController(route, user, id, std)
      [] ctl = "learning"   -> LearningController(route, user, id, std)
      [] ctl = "question"   -> QuestionController(route, user, id, std)

(* The ids a path or a query may name, by the kind the route is guarded with. *)
IdsFor(ctl, route) ==
    LET kind == Controllers[ctl][route]
    IN  CASE kind = "curriculum"     -> Curricula
          [] kind = "grade"          -> Grades
          [] kind = "level"          -> Levels
          [] kind = "lesson"         -> Lessons
          [] kind = "lessonlearning" -> Learnings
          [] kind = "lessonplan"     -> Plans
          [] kind = "lessonpractice" -> Practices
          [] kind = "lessonquiz"     -> Quizzes
          [] kind = "baseline"       -> Baselines
          [] kind = None             -> {None} \cup (CASE ctl = "grade"  -> Curricula
                                                       [] ctl = "level"  -> Grades
                                                       [] ctl = "lesson" -> Levels
                                                       [] OTHER          -> {})

(* The guards in front of a route. *)
Admitted(ctl, route, user, id) ==
    IF Controllers[ctl][route] = None THEN AccessGuard(user, {})
    ELSE ContentAccessGuard(user, Controllers[ctl][route], id)

=============================================================================
