------------------------------- MODULE Access -------------------------------
(***************************************************************************)
(* Readers and writers together.  A request passes its guards, and only    *)
(* then does its handler read; content imports, roster pushes and learners'*)
(* results may commit in between and at any other time, while the tokens   *)
(* keep the claims of their sign-in.                                       *)
(*                                                                         *)
(* What the writers do to the rows is the subject of ContentImport, Roster *)
(* and Progress.  Here a write is one row of it; a larger import is        *)
(* several of these steps with no reader between them.                     *)
(***************************************************************************)
EXTENDS Reports, LearnerViews

CONSTANTS
    Callers,        \* the tokens in use
    Filters,        \* the report filters asked with
    Lists,          \* curriculum lists a push brings (a bound)
    Pushed,         \* the organisations whose rows change (a bound)
    Weights,        \* [total_points, passing_points] a lesson is given (a bound)
    Earned,         \* points a learner reaches, marks of an attempt (a bound)
    MaxPushes,      \* writes of one behaviour (a bound)
    Start           \* the database to begin with

ASSUME AccessAssumption ==
    /\ Callers \subseteq Caller /\ MaxPushes \in Nat /\ Pushed \subseteq Orgs
    /\ Lists \subseteq SUBSET Curricula /\ Earned \subseteq Nat
    /\ Weights \subseteq [total_points : Nat, passing_points : Nat]
    /\ Practices \cap Quizzes = {} /\ IsFiniteSet(Lessons) /\ IsFiniteSet(PracticeQuestions)

(***************************************************************************)
(* References that stay within one organisation in the tables t: an item's *)
(* own document, a learner's login, the quizzes a learner has tried, the   *)
(* login of a token.  Imports and pushes write both ends of each from one  *)
(* organisation's data, and a quiz is submitted past ContentAccessGuard.   *)
(***************************************************************************)
OwnerIn(t, l) == t.curriculums[t.grades[t.levels[t.lessons[l].levelid].gradeid].curriculumid].organisationid

SchoolOwnerIn(t, s) == t.schools[s].organisationid

OwnReferences(t) ==
    /\ \A n \in Learnings : t.lessonlearnings[n].documentid # None =>
          t.documents[t.lessonlearnings[n].documentid].organisationid = OwnerIn(t, t.lessonlearnings[n].lessonid)
    /\ \A p \in Plans : t.lessonplans[p].documentid # None =>
          t.documents[t.lessonplans[p].documentid].organisationid = OwnerIn(t, t.lessonplans[p].lessonid)
    /\ \A k \in Learners :
          LET owner == SchoolOwnerIn(t, t.students[k].schoolid)
          IN  /\ SchoolOwnerIn(t, t.schoolusers[t.students[k].schooluserid].schoolid) = owner
              /\ \A q \in Quizzes : t.studentprogress[<<k, q>>] # None => OwnerIn(t, t.lessonquizzes[q].lessonid) = owner
    /\ \A user \in Callers : claimsOf(user) =>
          SchoolOwnerIn(t, t.schoolusers[user.schooluserid].schoolid) = user.organisationid

ASSUME StartAssumption == Start \in Database /\ OwnReferences(Start)

(* Totals for which Scoring's rounding stands for toFixed. *)
ASSUME WeightAssumption ==
    /\ \A w \in Weights : w.total_points < 4000
    /\ \A l \in Lessons : Start.lessons[l].total_points < 4000

VARIABLES
    request,        \* the request between its guards and its handler, or None
    last,           \* the last answer, or None once a write has made it old
    pushes          \* writes so far

accessVars == <<db, request, last, pushes>>

AccessInit == db = Start /\ request = None /\ last = None /\ pushes = 0

-----------------------------------------------------------------------------
(* Requests. *)

(* No request on its way; every database is also reached so. *)
Quiet == request = None /\ last = None

(* fresh: nothing was written since the guards looked. *)
Ask(r) == request' = [r EXCEPT !.fresh = TRUE] /\ UNCHANGED <<db, last, pushes>>

Respond(content, learners, logins) ==
    /\ last' = [request |-> request, content |-> content, learners |-> learners, logins |-> logins]
    /\ request' = None
    /\ UNCHANGED <<db, pushes>>

(* A route of the content controllers, let through by its guards. *)
AskContent(user, ctl, route, id) ==
    /\ Admitted(ctl, route, user, id)
    /\ Ask([kind |-> "content", user |-> user, ctl |-> ctl, route |-> route, id |-> id, fresh |-> FALSE])

(* std: the learner a list's query finds in the caller's school. *)
ServeContent(std) ==
    /\ request # None /\ request.kind = "content"
    /\ std = None \/ (std \in studentsOfSchool(request.user) /\ request.route = "all")
    /\ Respond(Handler(request.ctl, request.route, request.user, request.id, std), {}, {})

(* ReportScopeGuard attaches the scope to the request; the handler reads within it. *)
AskReport(by) ==
    /\ resolveReportScope(by, StaffOnly) # Refused
    /\ Ask([kind |-> "report", scope |-> resolveReportScope(by, StaffOnly), fresh |-> FALSE])

ServeReport(f, k) ==
    /\ request # None /\ request.kind = "report"
    /\ \E answer \in ReportController(request.scope, f, k) : Respond(answer.content, answer.learners, {})

(* The export routes take a staff token; the log-in times any token or the key. *)
AskExport(user) ==
    /\ AccessGuard(user, StaffOnly)
    /\ Ask([kind |-> "export", scope |-> ScopeOfToken(user), fresh |-> FALSE])

ServeExport ==
    /\ request # None /\ request.kind = "export"
    /\ LET answer == ExportController(request.scope)
       IN  Respond({}, answer.keys.studentids, answer.keys.schooluserids)

AskLoginTime(by) ==
    /\ resolveReportScope(by, {}) # Refused
    /\ Ask([kind |-> "logintime", scope |-> resolveReportScope(by, {}), fresh |-> FALSE])

ServeLoginTime ==
    /\ request # None /\ request.kind = "logintime"
    /\ Respond({}, {}, getlogintime(request.scope))

AskTeacher(user) ==
    /\ AccessGuard(user, StaffOnly)
    /\ Ask([kind |-> "teacher", scope |-> ScopeOfToken(user), user |-> user, fresh |-> FALSE])

ServeTeacher(standardid, studentid, schoolid) ==
    /\ request # None /\ request.kind = "teacher"
    /\ Respond({}, TeacherController(request.user, standardid, studentid, schoolid), {})

Requesters == {[key |-> FALSE, header |-> None, user |-> u] : u \in Callers}
              \cup {[key |-> TRUE, header |-> h, user |-> None] : h \in Orgs \cup {"platform", None}}

-----------------------------------------------------------------------------
(* Writes. *)

Write(new) ==
    /\ new # db
    /\ db' = new /\ pushes' = pushes + 1
    /\ last' = None
    /\ request' = IF request = None THEN None ELSE [request EXCEPT !.fresh = FALSE]

OwnCurricula(org) == curriculaInScope(org, Curricula)
OwnGrades(org)    == FindAll("grades", LAMBDA g : g.curriculumid \in OwnCurricula(org))
OwnLevels(org)    == FindAll("levels", LAMBDA v : v.gradeid \in OwnGrades(org))
OwnLessons(org)   == FindAll("lessons", LAMBDA l : l.levelid \in OwnLevels(org))

(* A content import writes a row's switch or marks the row deleted. *)
SwitchContent(org) ==
    \/ \E c \in OwnCurricula(org) : Write([db EXCEPT !.curriculums[c].status = ~@])
    \/ \E g \in OwnGrades(org)    : Write([db EXCEPT !.grades[g].status = ~@])
    \/ \E v \in OwnLevels(org)    : Write([db EXCEPT !.levels[v].status = ~@])
    \/ \E l \in OwnLessons(org)   : Write([db EXCEPT !.lessons[l].status = ~@])
    \/ \E v \in OwnLevels(org)    : Write([db EXCEPT !.levels[v].isdeleted = TRUE])

(* The same for the activities and the questions, which have no deletion mark. *)
SwitchActivity(org) ==
    LET mine == OwnLessons(org)
    IN  \/ \E n \in FindAll("lessonlearnings", LAMBDA n : n.lessonid \in mine) :
               Write([db EXCEPT !.lessonlearnings[n].status = ~@])
        \/ \E p \in FindAll("lessonpractices", LAMBDA p : p.lessonid \in mine) :
               \E q \in FindAll("lessonpracticequestions", LAMBDA q : q.lessonpracticeid = p) :
                   Write([db EXCEPT !.lessonpracticequestions[q].status = ~@])

(* An import moves a row to another parent of the same organisation. *)
MoveContent(org) ==
    \/ \E g \in OwnGrades(org), c \in OwnCurricula(org) : Write([db EXCEPT !.grades[g].curriculumid = c])
    \/ \E v \in OwnLevels(org), g \in OwnGrades(org)    : Write([db EXCEPT !.levels[v].gradeid = g])
    \/ \E l \in OwnLessons(org), v \in OwnLevels(org)   : Write([db EXCEPT !.lessons[l].levelid = v])

(* An import gives a lesson other points. *)
WeighContent(org) ==
    \E l \in OwnLessons(org), w \in Weights :
        Write([db EXCEPT !.lessons[l].total_points = w.total_points,
                         !.lessons[l].passing_points = w.passing_points])

(* An import keeps only the organisation's own curricula in a school's list, and may mark the school deleted. *)
WriteSchool(org) ==
    \E s \in FindAll("schools", LAMBDA s : s.organisationid = org) :
        \/ \E list \in Lists : Write([db EXCEPT !.schools[s].curriculums = curriculaInScope(org, list)])
        \/ Write([db EXCEPT !.schools[s].isdeleted = TRUE])

(* A roster push writes a learner's list as it comes, or takes the learner to another school of the organisation. *)
WriteLearner(org) ==
    \E k \in Learners :
        /\ db.schools[db.students[k].schoolid].organisationid = org
        /\ \/ \E list \in Lists : Write([db EXCEPT !.students[k].curriculumids = list])
           \/ \E s \in FindAll("schools", LAMBDA s : s.organisationid = org) :
                  \E c \in FindAll("standards", LAMBDA c : c.schoolid = s) :
                      Write([db EXCEPT !.students[k].schoolid = s, !.students[k].standard = c])

SuspendOrganisation(org) == Write([db EXCEPT !.organisations[org] = FALSE])

(* A lesson's row: the tiers it was created under, the numbers as of now. *)
EarnedRow(k, l, points) ==
    LET lesson == db.lessons[l]
        old    == db.studentlessonsprogress[<<k, l>>]
    IN  [levelid |-> IF old = None THEN lesson.levelid ELSE old.levelid,
         gradeid |-> IF old = None THEN db.levels[lesson.levelid].gradeid ELSE old.gradeid,
         points |-> points, progress |-> progressPercent(points, lesson.total_points),
         completed |-> LessonCompleted(points, lesson.passing_points, lesson.total_points)]

(* A learner's result raises the points of its lesson. *)
EarnPoints(user) ==
    \E l \in Lessons, points \in Earned :
        LET k   == user.studentid
            old == db.studentlessonsprogress[<<k, l>>]
            had == IF old = None THEN 0 ELSE old.points
        IN  /\ ContentAccessGuard(user, "lesson", l)
            /\ had < points /\ points <= db.lessons[l].total_points
            /\ Write([db EXCEPT !.studentlessonsprogress[<<k, l>>] = EarnedRow(k, l, points)])

(* A practice submitted once more: the best marks stay. *)
SubmitPractice(user) ==
    \E p \in Practices, marks \in Earned :
        LET best == db.studentprogress[<<user.studentid, p>>]
        IN  /\ ContentAccessGuard(user, "lessonpractice", p)
            /\ marks <= Cardinality(getpracticequestions({p}))
            /\ best # None => best < marks
            /\ Write([db EXCEPT !.studentprogress[<<user.studentid, p>>] = marks])

-----------------------------------------------------------------------------
AskStep ==
    /\ Quiet
    /\ \/ \E user \in Callers, ctl \in DOMAIN Controllers :
             \E route \in DOMAIN Controllers[ctl] : \E id \in IdsFor(ctl, route) : AskContent(user, ctl, route, id)
       \/ \E by \in Requesters : AskReport(by) \/ AskLoginTime(by)
       \/ \E user \in Callers : AskExport(user) \/ AskTeacher(user)

ServeStep ==
    \/ \E std \in Learners \cup {None} : ServeContent(std)
    \/ \E f \in Filters, k \in Learners : ServeReport(f, k)
    \/ ServeExport
    \/ ServeLoginTime
    \/ \E c \in Classes, k \in Learners, s \in Schools \cup {None} : ServeTeacher(c, k, s)

WriteStep ==
    /\ pushes < MaxPushes
    /\ \/ \E org \in Pushed : SwitchContent(org) \/ SwitchActivity(org) \/ MoveContent(org) \/ WeighContent(org)
       \/ \E org \in Pushed : WriteSchool(org) \/ WriteLearner(org) \/ SuspendOrganisation(org)
       \/ \E user \in {u \in Callers : u.studentid # None} : EarnPoints(user) \/ SubmitPractice(user)

(* The client has its answer. *)
Delivered == last # None /\ last' = None /\ UNCHANGED <<db, request, pushes>>

AccessNext == AskStep \/ ServeStep \/ WriteStep \/ Delivered

AccessSpec == AccessInit /\ [][AccessNext]_accessVars

(* The rows keep their types; an answer names learners and logins. *)
AccessTypeOK ==
    /\ Quiet => db \in Database
    /\ pushes \in 0..MaxPushes
    /\ last # None => last.learners \subseteq Learners /\ last.logins \subseteq Logins

-----------------------------------------------------------------------------
(* The organisations a piece of content belongs to, whatever is switched off above it. *)
OwnersOf(kind, id) ==
    IF kind = "document" THEN {d.organisationid : d \in Find("documents", id)}
    ELSE {db.curriculums[c].organisationid : c \in curriculumIdsOf(kind, id, FALSE)}

Answered(kinds) == last # None /\ last.request.kind \in kinds

(***************************************************************************)
(* No content route ever answers with another organisation's content,      *)
(* although a learner's list comes from a push nobody checks, although the *)
(* token's claims are old, and although the guard looked before a write    *)
(* that the handler's reads came after.                                    *)
(***************************************************************************)
ServedStaysInOrganisation ==
    Answered({"content"}) =>
        \A row \in last.content : OwnersOf(row[1], row[2]) = {last.request.user.organisationid}

(***************************************************************************)
(* "the lists that leave it out and the routes that open it by id agree"   *)
(* (content-access.ts): with no write in between, every row any content    *)
(* route answers with can be opened by its own id by the same caller, so   *)
(* nothing under a level that is switched off shows up anywhere.           *)
(***************************************************************************)
AnsweredCanBeOpened ==
    Answered({"content"}) /\ last.request.fresh =>
        \A row \in last.content : canAccessContent(last.request.user, row[1], row[2])

(***************************************************************************)
(* A report, an export and a teacher's screen cover only learners and      *)
(* logins of the scope's organisation, and name only content of it, or of  *)
(* the curriculum a learner of the scope is recorded under, whatever class,*)
(* learner and content the request names and whatever was written since    *)
(* the scope was worked out.                                               *)
(***************************************************************************)
ReportsStayInScope ==
    Answered({"report", "export", "logintime", "teacher"}) /\ last.request.scope # Unlimited =>
        LET scope == last.request.scope
            mine(s) == db.schools[s].organisationid = scope.organisationid
        IN  /\ \A k \in last.learners : mine(db.students[k].schoolid)
            /\ \A u \in last.logins : mine(db.schoolusers[u].schoolid)
            /\ \A row \in last.content :
                   \/ OwnersOf(row[1], row[2]) = {scope.organisationid}
                   \/ \E k \in learnersInScope(scope) :
                          db.students[k].curriculumid \in curriculumIdsOf(row[1], row[2], FALSE)

(***************************************************************************)
(* Four screens count the finished lessons of a level from different       *)
(* columns and by different rules: level/library (points of today, or the  *)
(* stored flag), student/summary (the stored percentage or flag),          *)
(* level/progress (points against the pass mark), and the tiles of         *)
(* lesson/level, which show the stored flag alone.  As long as the rows were*)
(* written under the lesson's present weight and grade, they show the same *)
(* number, and the level the summary says to go on with is one the library *)
(* shows as unfinished.                                                    *)
(***************************************************************************)
UpToDate(row, l) ==
    LET lesson == db.lessons[l]
    IN  /\ 0 < lesson.total_points /\ lesson.passing_points <= lesson.total_points
        /\ row.progress = progressPercent(row.points, lesson.total_points)
        /\ row.completed = LessonCompleted(row.points, lesson.passing_points, lesson.total_points)
        /\ row.gradeid = db.levels[lesson.levelid].gradeid

CompletionViewsAgree ==
    Quiet => \A user \in Callers :
        LET same == {v \in LibraryLevels(user) :
                       \A l \in LessonsOf(v) : \A row \in LessonRows(user, l) : UpToDate(row, l)}
        IN  \A v \in same :
               LET finished == LibraryLevel(user, v).number_completed_lessons
                   summary  == getprogresssummary(user)
               IN  /\ SummaryLevel(user, v).lessonsCompleted = finished
                   /\ Cardinality({l \in LessonsOf(v) : LessonTile(user, l).completed}) = finished
                   /\ LevelListing(user, db.levels[v].gradeid, v).number_completed_lessons = finished
                   /\ \A c \in DOMAIN summary :
                          v \in summary[c].currentLevel => finished < LibraryLevel(user, v).number_lessons

(***************************************************************************)
(* A practice is shown as done exactly when its best marks would pass if   *)
(* they were submitted today (practicePassResult): the activity route and  *)
(* the submission route divide by the same number of active questions, and *)
(* agree when an import leaves none.                                       *)
(***************************************************************************)
PracticeShownAsItPasses ==
    Quiet => \A user \in Callers, p \in Practices : \A marks \in BestOf(user, p) :
        (buildpracticesprogress(user, p) = "done")
            <=> practicePassResult(marks, Cardinality(getpracticequestions({p}))).ispass

=============================================================================
