--------------------------- MODULE ContentAccess ---------------------------
(***************************************************************************)
(* Which curriculum a piece of content belongs to, and whether the caller  *)
(* may see it: content-access.ts, the guard built on it, and the claims    *)
(* every request is judged on.                                             *)
(*                                                                         *)
(* db is the database of one moment: for each table a function from ids to *)
(* rows.  status stands for the table's own switch (gradestatus,           *)
(* levelstatus, ...).  A caller is the payload of a token: the claims as   *)
(* they were when the person signed in, the rows as they are now.          *)
(***************************************************************************)
EXTENDS Naturals, FiniteSets

CONSTANTS
    Orgs, Schools, Curricula, Grades, Levels, Lessons, Documents, Learners, Logins, Classes,
    Learnings, Plans, Practices, Quizzes, Baselines, Links,
    PracticeQuestions, QuizQuestions, LevelQuestions, BaselineQuestions,
    None        \* no row, no value

(* The kinds of content a path may name. *)
PathKinds == {"curriculum", "grade", "level", "lesson", "baseline",
              "lessonlearning", "lessonplan", "lessonpractice", "lessonquiz"}

ASSUME NoneAssumption == None \notin PathKinds

VARIABLE db

-----------------------------------------------------------------------------
(* The tables.  Every content table has its parent's id and its switch. *)

CurriculumRow == [organisationid : Orgs, status : BOOLEAN, isdeleted : BOOLEAN]

GradeRow == [curriculumid : Curricula, status : BOOLEAN, isdeleted : BOOLEAN, gradeorder : Nat]

LevelRow == [gradeid : Grades, status : BOOLEAN, isdeleted : BOOLEAN, levelorder : Nat, points : Nat]

LessonRow == [levelid : Levels, status : BOOLEAN, isdeleted : BOOLEAN,
              total_points : Nat, passing_points : Nat]

LearningRow == [lessonid : Lessons, status : BOOLEAN, documentid : Documents \cup {None}]

PlanRow == [lessonid : Lessons, status : BOOLEAN, documentid : Documents \cup {None}]

PracticeRow == [lessonid : Lessons, status : BOOLEAN]

QuizRow == [lessonid : Lessons, status : BOOLEAN]

(* schoolid is the list of schools the baseline is meant for. *)
BaselineRow == [curriculumid : Curricula, status : BOOLEAN, isdeleted : BOOLEAN, schoolid : SUBSET Schools]

(* A learning item's further documents. *)
LinkRow == [lessonlearningid : Learnings, documentid : Documents]

DocumentRow == [organisationid : Orgs]

(* A question attached to its container. *)
PracticeQuestionRow == [lessonpracticeid : Practices, status : BOOLEAN]
QuizQuestionRow     == [lessonquizid : Quizzes, status : BOOLEAN]
LevelQuestionRow    == [levelid : Levels, status : BOOLEAN]
BaselineQuestionRow == [curriculumbaselineid : Baselines, status : BOOLEAN]

ClassRow == [schoolid : Schools]

SchoolRow == [organisationid : Orgs, isdeleted : BOOLEAN, curriculums : SUBSET Curricula]

(* curriculumids is whatever list a roster push brought; it is not checked against anything. *)
StudentRow == [schooluserid : Logins, schoolid : Schools, standard : Classes, is_teacher_acc : BOOLEAN,
               curriculumid : Curricula, curriculumids : SUBSET Curricula]

LoginRow == [schoolid : Schools]

(* A learner's row for a lesson: where it was earned, and the numbers as they were written. *)
LessonProgressRow == [levelid : Levels, gradeid : Grades,
                      points : Nat, progress : Nat, completed : BOOLEAN]

(* The best marks of a learner's attempts at a practice, a quiz, a level quiz or a baseline. *)
References == Practices \cup Quizzes \cup Levels \cup Baselines

(* The tables together. *)
Database ==
    [organisations : [Orgs -> BOOLEAN],        \* neither suspended nor deleted
     schools : [Schools -> SchoolRow],
     curriculums : [Curricula -> CurriculumRow], grades : [Grades -> GradeRow],
     levels : [Levels -> LevelRow], lessons : [Lessons -> LessonRow],
     lessonlearnings : [Learnings -> LearningRow], lessonlearningdocuments : [Links -> LinkRow],
     lessonplans : [Plans -> PlanRow], lessonpractices : [Practices -> PracticeRow],
     lessonquizzes : [Quizzes -> QuizRow], curriculumbaseline : [Baselines -> BaselineRow],
     documents : [Documents -> DocumentRow],
     lessonpracticequestions : [PracticeQuestions -> PracticeQuestionRow],
     lessonquizquestions : [QuizQuestions -> QuizQuestionRow],
     levelquizquestions : [LevelQuestions -> LevelQuestionRow],
     baselinequestion : [BaselineQuestions -> BaselineQuestionRow],
     standards : [Classes -> ClassRow], students : [Learners -> StudentRow],
     schoolusers : [Logins -> LoginRow],
     studentlessonsprogress : [Learners \X Lessons -> LessonProgressRow \cup {None}],
     studentprogress : [Learners \X References -> Nat \cup {None}]]

(* findOne by primary key: the row, or nothing. *)
Find(table, id) == {db[table][x] : x \in {id} \cap DOMAIN db[table]}

(* findAll: the ids of the rows that satisfy a condition. *)
FindAll(table, Where(_)) == {x \in DOMAIN db[table] : Where(db[table][x])}

-----------------------------------------------------------------------------
(* Who is asking. *)

Roles == {"superadmin", "admin", "teacher", "learner"}

(* What a token carries.  studentid is the learner record of the login, if it has one. *)
Caller == [schooluserid : Logins, schooluserrole : Roles, organisationid : Orgs \cup {None},
           schoolid : Schools \cup {None}, studentid : Learners \cup {None}, is_teacher_acc : BOOLEAN]

StaffRoles == {"superadmin", "admin", "teacher"}

callerKindOf(user) == IF user.schooluserrole \in StaffRoles THEN "staff" ELSE "learner"

(* callerOf: the token names an organisation and a school. *)
claimsOf(user) == user.organisationid # None /\ user.schoolid # None

organisationIsActive(org) == TRUE \in Find("organisations", org)

(* What each request of a token must prove, on the rows as they are now. *)
checkTokenClaims(user) ==
    /\ claimsOf(user)
    /\ organisationIsActive(user.organisationid)
    /\ \E s \in Find("schools", user.schoolid) :
           ~s.isdeleted /\ s.organisationid = user.organisationid

-----------------------------------------------------------------------------
(* The curricula a piece of content belongs to; none for an id that names nothing. *)

curriculumOfGrade(gradeid) == {g.curriculumid : g \in Find("grades", gradeid)}

(* liveOnly: content under a level that is switched off belongs to no curriculum. *)
curriculumOfLevel(levelid, liveOnly) ==
    UNION {curriculumOfGrade(v.gradeid) : v \in {v \in Find("levels", levelid) : liveOnly => v.status}}

curriculumOfLesson(lessonid, liveOnly) ==
    UNION {curriculumOfLevel(l.levelid, liveOnly) : l \in Find("lessons", lessonid)}

curriculumOfBaseline(id) == {b.curriculumid : b \in Find("curriculumbaseline", id)}

(* The lessons that use a document, by a learning item, by one of its links or by a plan. *)
LessonsUsing(documentid) ==
    LET linked == {k.lessonlearningid :
                     k \in {db.lessonlearningdocuments[x] : x \in Links} \cap
                           [lessonlearningid : Learnings, documentid : {documentid}]}
    IN  {db.lessonlearnings[n].lessonid :
            n \in FindAll("lessonlearnings", LAMBDA n : n.documentid = documentid) \cup linked}
        \cup {db.lessonplans[p].lessonid :
            p \in FindAll("lessonplans", LAMBDA p : p.documentid = documentid)}

(* An activity's table, by the kind of content it is. *)
ActivityTable ==
    [lessonlearning |-> "lessonlearnings", lessonplan |-> "lessonplans",
     lessonpractice |-> "lessonpractices", lessonquiz |-> "lessonquizzes"]

curriculumIdsOf(kind, id, liveOnly) ==
    CASE kind = "curriculum"        -> {id} \cap Curricula
      [] kind = "grade"             -> curriculumOfGrade(id)
      [] kind = "level"             -> curriculumOfLevel(id, liveOnly)
      [] kind = "lesson"            -> curriculumOfLesson(id, liveOnly)
      [] kind = "baseline"          -> curriculumOfBaseline(id)
      [] kind = "document"          -> UNION {curriculumOfLesson(l, liveOnly) : l \in LessonsUsing(id)}
      [] kind \in DOMAIN ActivityTable ->
            UNION {curriculumOfLesson(a.lessonid, liveOnly) : a \in Find(ActivityTable[kind], id)}
      [] kind = "lessonpracticequestion" ->
            UNION {UNION {curriculumOfLesson(a.lessonid, liveOnly) : a \in Find("lessonpractices", q.lessonpracticeid)} :
                      q \in Find("lessonpracticequestions", id)}
      [] kind = "lessonquizquestion" ->
            UNION {UNION {curriculumOfLesson(a.lessonid, liveOnly) : a \in Find("lessonquizzes", q.lessonquizid)} :
                      q \in Find("lessonquizquestions", id)}
      [] kind = "levelquizquestion" ->
            UNION {curriculumOfLevel(q.levelid, liveOnly) : q \in Find("levelquizquestions", id)}
      [] kind = "baselinequestion" ->
            UNION {curriculumOfBaseline(q.curriculumbaselineid) : q \in Find("baselinequestion", id)}

-----------------------------------------------------------------------------
(* The curricula in play for a caller. *)

(* Of these curricula, the ones the organisation owns. *)
curriculaInScope(org, candidates) == {c \in candidates : db.curriculums[c].organisationid = org}

schoolCurriculumList(org, schoolid) ==
    UNION {s.curriculums : s \in {s \in Find("schools", schoolid) : s.organisationid = org}}

(* The learner's list as the database has it, not as the token remembers it. *)
learnerCurriculumList(studentid) == UNION {k.curriculumids : k \in Find("students", studentid)}

curriculumIdsInScope_listed(user) ==
    IF ~claimsOf(user) THEN {}
    ELSE IF callerKindOf(user) = "staff"
         THEN curriculaInScope(user.organisationid, schoolCurriculumList(user.organisationid, user.schoolid))
         ELSE learnerCurriculumList(user.studentid)

(* What the token's holder may see. *)
curriculumIdsInScope(user) ==
    IF ~claimsOf(user) THEN {}
    ELSE curriculaInScope(user.organisationid,
            IF callerKindOf(user) = "staff"
            THEN schoolCurriculumList(user.organisationid, user.schoolid)
            ELSE learnerCurriculumList(user.studentid))

(* What the token's holder is enrolled in: staff with a learner record stay within the school's list. *)
enrolledCurriculumIds(user) ==
    IF ~claimsOf(user) THEN {}
    ELSE {c \in curriculaInScope(user.organisationid, learnerCurriculumList(user.studentid)) :
            callerKindOf(user) = "staff" =>
                c \in schoolCurriculumList(user.organisationid, user.schoolid)}

(* May the token's holder see this content?  A document must be the organisation's own as well. *)
canAccessContent(user, kind, id) ==
    /\ claimsOf(user)
    /\ curriculumIdsOf(kind, id, TRUE) \cap curriculumIdsInScope(user) # {}
    /\ kind = "document" => \E d \in Find("documents", id) : d.organisationid = user.organisationid

gradeIdsInScope(user) ==
    FindAll("grades", LAMBDA g : g.curriculumid \in curriculumIdsInScope(user))

levelIdsInScope(user) ==
    FindAll("levels", LAMBDA v : v.gradeid \in gradeIdsInScope(user) /\ v.status)

-----------------------------------------------------------------------------
(* The guards of the routes. *)

(* AccessGuard: a live token with one of the roles; no roles named admits every role. *)
AccessGuard(user, roles) == checkTokenClaims(user) /\ (roles = {} \/ user.schooluserrole \in roles)

(* ContentAccessGuard: the content named in the path, or the 404 of content that is not there. *)
ContentAccessGuard(user, kind, id) == AccessGuard(user, {}) /\ canAccessContent(user, kind, id)

=============================================================================
