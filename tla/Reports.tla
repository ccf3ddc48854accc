------------------------------ MODULE Reports ------------------------------
(***************************************************************************)
(* Whose rows a report, an export or a teacher's screen may cover:         *)
(* report-scope.ts, export-scope.ts, and the readers built on them         *)
(* (report.business.ts, sync.report.ts, teacher.business.ts,               *)
(* student.business.ts).                                                   *)
(*                                                                         *)
(* An answer is [learners, content]: the learners it has rows of, and the  *)
(* content rows it names.  Scores, texts, order and paging are left out.   *)
(* A filter is a record with a value or None for each key a report reads.  *)
(***************************************************************************)
EXTENDS ContentViews

CONSTANTS
    TestStudent,    \* Default_Test_Student_ID, which a report without a filter is about
    Offline         \* the classroom Pi setting

ASSUME OfflineAssumption == Offline \in BOOLEAN

-----------------------------------------------------------------------------
(* Scopes. *)

(* null: the view of the platform, with no limit. *)
Unlimited == [organisationid |-> None, schoolids |-> Schools, curriculumids |-> Curricula, schooluserid |-> None]

(* No scope: the request is refused (401 or 400) before any query. *)
Refused == [organisationid |-> None, schoolids |-> {}, curriculumids |-> {}, schooluserid |-> None]

(* Every school of an active organisation, marked deleted or not. *)
schoolIdsOfOrganisation(org) ==
    IF organisationIsActive(org) THEN FindAll("schools", LAMBDA s : s.organisationid = org) ELSE {}

(* The server key: the header is "platform", an organisation's id, or refused. *)
ScopeOfKey(header) ==
    IF header = "platform" THEN Unlimited
    ELSE IF header \notin Orgs THEN Refused
    ELSE [organisationid |-> header, schoolids |-> schoolIdsOfOrganisation(header),
          curriculumids |-> curriculaInScope(header, Curricula), schooluserid |-> None]

(* A token: staff have their school and its list; anyone else only their own rows and no content filter. *)
ScopeOfToken(user) ==
    IF ~claimsOf(user) THEN Refused
    ELSE IF callerKindOf(user) = "learner"
    THEN [organisationid |-> user.organisationid, schoolids |-> {user.schoolid},
          curriculumids |-> {}, schooluserid |-> user.schooluserid]
    ELSE [organisationid |-> user.organisationid, schoolids |-> {user.schoolid},
          curriculumids |-> curriculaInScope(user.organisationid,
                                schoolCurriculumList(user.organisationid, user.schoolid)),
          schooluserid |-> None]

(* AccessOrServerSyncGuard and ReportScopeGuard: a request is a token or the key with its header. *)
resolveReportScope(request, roles) ==
    IF request.key THEN ScopeOfKey(request.header)
    ELSE IF AccessGuard(request.user, roles) THEN ScopeOfToken(request.user) ELSE Refused

learnersInScope(scope) ==
    FindAll("students", LAMBDA k : k.schoolid \in scope.schoolids
                                   /\ scope.schooluserid \in {None, k.schooluserid})

-----------------------------------------------------------------------------
(* Filters. *)

NoFilter == [studentid |-> None, standard |-> None, curriculumid |-> None,
             gradeid |-> None, levelid |-> None, lessonid |-> None]

FilterKinds == [curriculumid |-> "curriculum", gradeid |-> "grade", levelid |-> "level", lessonid |-> "lesson"]

contentFiltersInScope_nolesson(scope, f) ==
    \A key \in DOMAIN FilterKinds \ {"lessonid"} :
        curriculumIdsOf(FilterKinds[key], f[key], FALSE) \subseteq scope.curriculumids

(* A filter may name only a class, a learner and content of the scope, or something that is not there. *)
contentFiltersInScope(scope, f) ==
    /\ \A c \in Find("standards", f.standard) : c.schoolid \in scope.schoolids
    /\ \A k \in Find("students", f.studentid) :
           k.schoolid \in scope.schoolids /\ scope.schooluserid \in {None, k.schooluserid}
    /\ \A key \in DOMAIN FilterKinds :
           curriculumIdsOf(FilterKinds[key], f[key], FALSE) \subseteq scope.curriculumids

Nothing == [learners |-> {}, content |-> {}]

(***************************************************************************)
(* The learner a report about one learner is about: the one named, else    *)
(* one of the class, else the test learner; always one of the scope.       *)
(***************************************************************************)
LearnerMeant(scope, f) ==
    LET named == IF f.studentid # None THEN {f.studentid}
                 ELSE IF f.standard # None THEN FindAll("students", LAMBDA k : k.standard = f.standard)
                 ELSE {TestStudent}
    IN  named \cap learnersInScope(scope)

(* The learners of a class report: of the class named, else of the test learner's. *)
ClassMeant(scope, f) ==
    LET class == IF f.standard # None THEN {f.standard}
                 ELSE {db.students[k].standard : k \in {TestStudent} \cap learnersInScope(scope)}
    IN  {k \in learnersInScope(scope) : db.students[k].standard \in class}

NoTeachers(learners) == {k \in learners : ~db.students[k].is_teacher_acc}

LiveLessonsOf(c) ==
    {l \in UNION {UNION {LessonsOf(v) : v \in LevelsOf(g)} : g \in GradesOf(c)} : Shown(db.curriculums[c])}

Keeps(value, id) == value \in {None, id}

-----------------------------------------------------------------------------
(* The reports. *)

(* The lessons of the curriculum named, else of the learner's own, with the filters that name a lesson's tiers. *)
getStudentsScoresData(scope, f, k) ==
    LET cur == IF f.curriculumid # None THEN f.curriculumid ELSE db.students[k].curriculumid
        ls  == FindAll("lessons", LAMBDA l :
                  /\ Shown(l) /\ Keeps(f.levelid, l.levelid)
                  /\ Keeps(f.gradeid, db.levels[l.levelid].gradeid)
                  /\ cur = db.grades[db.levels[l.levelid].gradeid].curriculumid)
    IN  IF contentFiltersInScope(scope, f) /\ k \in LearnerMeant(scope, f)
        THEN [learners |-> {k}, content |-> Rows("lesson", {l \in ls : Keeps(f.lessonid, l)})]
        ELSE Nothing

(* The lesson named, if every tier of it is live; else the first live lesson of the curriculum of a learner k of the class. *)
getClassScoresData(scope, f, k) ==
    LET shown == IF f.lessonid # None
                 THEN {l \in {f.lessonid} \cap Lessons : l \in LiveLessonsOf(
                          db.grades[db.levels[db.lessons[l].levelid].gradeid].curriculumid)}
                 ELSE LiveLessonsOf(db.students[k].curriculumid)
    IN  IF contentFiltersInScope(scope, f) /\ k \in ClassMeant(scope, f)
        THEN [learners |-> NoTeachers(ClassMeant(scope, f)), content |-> Rows("lesson", shown)]
        ELSE Nothing

(* Without a learner or a class: the test learner, and no class.  Filters on content narrow the attempts. *)
getStudentLastCompletedQuiz(scope, f) ==
    LET named == {k \in learnersInScope(scope) :
                    /\ ~db.students[k].is_teacher_acc
                    /\ Keeps(f.standard, db.students[k].standard)
                    /\ IF f.studentid = None /\ f.standard = None THEN k = TestStudent
                       ELSE Keeps(f.studentid, k)}
        ls == {l \in Lessons : \E k \in named, q \in Quizzes :
                 db.lessonquizzes[q].lessonid = l /\ db.studentprogress[<<k, q>>] # None}
    IN  IF contentFiltersInScope(scope, f) THEN [learners |-> named, content |-> Rows("lesson", ls)] ELSE Nothing

getStudentStatus(scope, f) ==
    IF contentFiltersInScope(scope, f)
    THEN [learners |-> {k \in learnersInScope(scope) : Keeps(f.standard, db.students[k].standard)
                          /\ Keeps(f.studentid, k) /\ ~db.students[k].is_teacher_acc},
          content |-> {}]
    ELSE Nothing

(* A class and one grade: the one named, else one of the curriculum of a learner k of the class. *)
getStudentGradeProgress(scope, f, k) ==
    LET shown == IF f.gradeid # None THEN {f.gradeid} \cap Grades
                 ELSE {db.levels[db.lessons[l].levelid].gradeid : l \in LiveLessonsOf(db.students[k].curriculumid)}
    IN  IF contentFiltersInScope(scope, f) /\ k \in ClassMeant(scope, f)
        THEN [learners |-> ClassMeant(scope, f), content |-> Rows("grade", shown)] ELSE Nothing

(* One learner, and the live levels of the learner's own curriculum. *)
LearnerOrTest(scope, f) ==
    {IF f.studentid # None THEN f.studentid ELSE TestStudent} \cap learnersInScope(scope)

getStudentLevelProgress(scope, f, k) ==
    LET gs == {g \in GradesOf(db.students[k].curriculumid) :
                 Keeps(f.gradeid, g) /\ Shown(db.curriculums[db.grades[g].curriculumid])}
    IN  IF contentFiltersInScope(scope, f) /\ k \in LearnerOrTest(scope, f)
        THEN [learners |-> {k}, content |-> Rows("level", UNION {LevelsOf(g) : g \in gs})] ELSE Nothing

getStudentLessonProgress(scope, f, k) ==
    LET ls == {l \in LiveLessonsOf(db.students[k].curriculumid) :
                 Keeps(f.levelid, db.lessons[l].levelid) /\ Keeps(f.gradeid, db.levels[db.lessons[l].levelid].gradeid)}
    IN  IF contentFiltersInScope(scope, f) /\ k \in LearnerOrTest(scope, f)
        THEN [learners |-> {k}, content |-> Rows("lesson", ls)] ELSE Nothing

(* A head count, of the school named within the scope. *)
getStudentsOfflineOnline(scope, schoolid) ==
    [learners |-> {k \in learnersInScope(scope) : Keeps(schoolid, db.students[k].schoolid)}, content |-> {}]

getLevelQuizScoresData(scope, f, k) ==
    LET cur == IF f.curriculumid # None THEN f.curriculumid ELSE db.students[k].curriculumid
        vs  == FindAll("levels", LAMBDA v :
                  Shown(v) /\ Keeps(f.gradeid, v.gradeid) /\ db.grades[v.gradeid].curriculumid = cur)
    IN  IF contentFiltersInScope(scope, f)
           /\ k \in LearnerMeant(scope, [f EXCEPT !.standard = None])
        THEN [learners |-> {k}, content |-> Rows("level", {v \in vs : Keeps(f.levelid, v)})] ELSE Nothing

(* The level named, live or not; else one with a live lesson of the curriculum of a learner k of the class. *)
getClassLevelQuizScoresData(scope, f, k) ==
    LET shown == IF f.levelid # None THEN {f.levelid} \cap Levels
                 ELSE {db.lessons[l].levelid : l \in LiveLessonsOf(db.students[k].curriculumid)}
    IN  IF contentFiltersInScope(scope, f) /\ k \in ClassMeant(scope, f)
        THEN [learners |-> NoTeachers(ClassMeant(scope, f)), content |-> Rows("level", shown)] ELSE Nothing

(* Results of a baseline, which must be of a curriculum of the scope. *)
getStudentBaselineEndlineResults(scope, b) ==
    LET own == curriculumOfBaseline(b)
    IN  IF own # {} /\ own \subseteq scope.curriculumids
        THEN [learners |-> {k \in learnersInScope(scope) : db.studentprogress[<<k, b>>] # None},
              content |-> {<<"baseline", b>>}]
        ELSE Nothing

-----------------------------------------------------------------------------
(* The controller: every report a request in this scope may ask for, with the filter f and the learner k its lookups find. *)

StaffOnly == {"admin", "superadmin", "teacher"}

LearnerReports(scope, f, k) ==
    {getStudentsScoresData(scope, f, k), getClassScoresData(scope, f, k), getStudentLastCompletedQuiz(scope, f),
     getLevelQuizScoresData(scope, f, k), getClassLevelQuizScoresData(scope, f, k)}

ProgressReports(scope, f, k) ==
    {getStudentStatus(scope, f), getStudentGradeProgress(scope, f, k),
     getStudentLevelProgress(scope, f, k), getStudentLessonProgress(scope, f, k)}
    \cup {getStudentsOfflineOnline(scope, s) : s \in {None} \cup Schools}

(* The same readers without paging. *)
Downloads(scope, f, k) == LearnerReports(scope, f, k) \cup {getStudentStatus(scope, f)}

(* GET curriculum/:curriculumbaselineid/getstudentresult. *)
BaselineResults(scope) == {getStudentBaselineEndlineResults(scope, b) : b \in Baselines}

ReportController(scope, f, k) ==
    LearnerReports(scope, f, k) \cup ProgressReports(scope, f, k)
    \cup Downloads(scope, f, k) \cup BaselineResults(scope)

-----------------------------------------------------------------------------
(* Exports: six months of everything of the scope's learners and logins. *)

exportKeysOf(scope) ==
    [studentids |-> learnersInScope(scope),
     schooluserids |-> FindAll("schoolusers", LAMBDA u : u.schoolid \in scope.schoolids)
                       \cup {db.students[k].schooluserid : k \in learnersInScope(scope)}]

(* Progress by learner, sign-ins and usage by login. *)
getstudentdata(scope) == exportKeysOf(scope)

(* The server's log files name everyone: the platform, or a classroom Pi whose live schools are all in the scope. *)
mayTakeServerLogs(scope) ==
    \/ scope = Unlimited
    \/ Offline /\ \A s \in Schools : ~db.schools[s].isdeleted => s \in scope.schoolids

(* student/logintime: every login of a learner or of staff of the scope that may be asked for. *)
getlogintime(scope) ==
    IF scope = Unlimited THEN Logins
    ELSE {db.students[k].schooluserid : k \in learnersInScope(scope)}
         \cup {u \in Logins : db.schoolusers[u].schoolid \in scope.schoolids
                               /\ scope.schooluserid \in {None, u}}

(* What the export takes along: the rows of these keys, and the log files or not. *)
ExportController(scope) == [keys |-> getstudentdata(scope), logs |-> mayTakeServerLogs(scope)]

-----------------------------------------------------------------------------
(* The teacher's screens: the school is the one the token names. *)

classIsInSchool(standardid, schoolid) == \E c \in Find("standards", standardid) : c.schoolid = schoolid

studentIsInSchool(studentid, schoolid) == \E k \in Find("students", studentid) : k.schoolid = schoolid

(* schoolScopeOfLogin: the profile counts the learners of the school the login row has now. *)
getTeacherProfile(user, standardid) ==
    LET schoolid == db.schoolusers[user.schooluserid].schoolid
    IN  FindAll("students", LAMBDA k : k.schoolid = schoolid /\ k.standard = standardid
                                       /\ classIsInSchool(standardid, schoolid))

(* The class named, which must be the school's, else the class of one of its learners. *)
getStudentsScoresDataOfClass(user, standardid) ==
    {k \in studentsOfSchool(user) : db.students[k].standard = standardid
                                    /\ classIsInSchool(standardid, user.schoolid)}

(* One learner's statistics or last quiz: a learner of another school is not found. *)
assertTeacherStudent(user, studentid) ==
    {k \in {studentid} \cap Learners : studentIsInSchool(k, user.schoolid)}

(* student/all, for administrators: the school in the query must be the token's own. *)
getStudentsWithFilter(user, schoolid) ==
    IF user.schooluserrole \in {"admin", "superadmin"} /\ Keeps(schoolid, user.schoolid)
    THEN studentsOfSchool(user) ELSE {}

(* The learners the teacher's screens show, by the class, learner and school a request names. *)
TeacherController(user, standardid, studentid, schoolid) ==
    studentsOfSchool(user) \cup getStudentsScoresDataOfClass(user, standardid)
    \cup assertTeacherStudent(user, studentid) \cup getStudentsWithFilter(user, schoolid)
    \cup getTeacherProfile(user, standardid)

=============================================================================
