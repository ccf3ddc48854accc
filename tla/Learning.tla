------------------------------ MODULE Learning ------------------------------
(***************************************************************************)
(* Reports on one learning item (updatelearningprogress) by one learner,   *)
(* split at their awaits.  The progress row is looked up before the        *)
(* transaction and saved from that copy inside it; the bonus star and the  *)
(* daily row are written after the commit.  An item without media is       *)
(* earned by opening it, so its first report is already a completed one.   *)
(*                                                                         *)
(* The level, grade and activity rows follow the lesson row as they do in  *)
(* Submission and are left out here.                                       *)
(***************************************************************************)
EXTENDS Reward, FiniteSets

CONSTANTS
    Reports,    \* reports of the app; a report is sent again until it is answered
    Points,     \* lessonlearnings.points
    Totals,     \* what the lesson's total points may be
    MaxFaults   \* bound: failed statements and lost answers

ASSUME LearningAssumption ==
    /\ Points \in Nat \ {0} /\ Totals \subseteq Nat \ {0} /\ MaxFaults \in Nat
    /\ "none" \notin Reports
    /\ \A total \in Totals : Points <= total  \* the total is the sum of the lesson's items

VARIABLES
    item,       \* the item and its lesson: has it media, the lesson's total points
    pc, ended,  \* the await each report is at; whether it says the item was finished
    copy,       \* what each report has read
    holder,     \* the report whose transaction has written the progress row, or "none"
    draft,      \* what that transaction has written, not committed
    learnt,     \* the committed studentlearningprogress row
    lesson,     \* the committed studentlessonsprogress row
    daily,      \* today's studentpoints.lessonpoints
    overlapped, \* history: two reports were in progress at once
    faults

rows == <<learnt, lesson, daily>>
lvars == <<item, pc, ended, copy, holder, draft, rows, overlapped, faults>>

NotSeen == [viewed |-> 0, points |-> 0, absent |-> TRUE]
NoDaily == -1
NoDraft == [learnt |-> NotSeen, lesson |-> NoRow]

Answered == {"idle", "ok", "refused"}
InProgress == {r \in Reports : pc[r] \notin Answered}
Goto(r, step) == pc' = [pc EXCEPT ![r] = step]

LInit ==
    /\ item \in [media : BOOLEAN, total : Totals]
    /\ pc = [r \in Reports |-> "idle"] /\ ended = [r \in Reports |-> FALSE]
    /\ copy = [r \in Reports |-> NotSeen]
    /\ holder = "none" /\ draft = NoDraft
    /\ learnt = NotSeen /\ lesson = NoRow /\ daily = NoDaily
    /\ overlapped = FALSE /\ faults = 0

-----------------------------------------------------------------------------
(* The row is looked up; a report with nothing to measure is refused. *)
Find(r) ==
    /\ \/ pc[r] = "idle" /\ \E e \in BOOLEAN : ended' = [ended EXCEPT ![r] = e]
       \/ pc[r] = "again" /\ ended' = ended
    /\ copy' = [copy EXCEPT ![r] = learnt]
    /\ Goto(r, IF ended'[r] \/ item.media THEN "save" ELSE "refused")
    /\ overlapped' = (overlapped \/ InProgress \ {r} # {})
    /\ UNCHANGED <<item, holder, draft, rows, faults>>

LearntAfter(r) ==
    LET done == copy[r].viewed > 0 \/ ended[r]
    IN  [viewed |-> copy[r].viewed + (IF ended[r] THEN 1 ELSE 0), points |-> IF done THEN Points ELSE 0]

(* A reward is due on the first completed view, or when the points differ. *)
OldOf(r) ==
    IF copy[r] # NotSeen /\ (copy[r].viewed > 0 \/ ended[r]) /\ copy[r].points # Points THEN copy[r].points ELSE NoOld

RewardDue(r) == OldOf(r) # NoOld \/ (ended[r] /\ LearntAfter(r).viewed = 1)

Rewarded(r) ==
    IF RewardDue(r) THEN LessonRow(lesson, Delta(Points, OldOf(r)), 0, item.total) ELSE lesson

(* Without the unique index the insert would make a second row, here the newer one. *)
Save_nokey(r) ==
    /\ pc[r] = "save" /\ holder = "none"
    /\ holder' = r /\ draft' = [learnt |-> LearntAfter(r), lesson |-> Rewarded(r)]
    /\ Goto(r, "commit")
    /\ UNCHANGED <<item, ended, copy, rows, overlapped, faults>>

(***************************************************************************)
(* In the transaction: create, which waits for the unique key and fails if *)
(* another report has taken it, or save from the copy, which waits for the *)
(* row's lock.  Then the reward: that lock keeps it to one at a time.      *)
(***************************************************************************)
Save(r) ==
    /\ pc[r] = "save" /\ holder = "none"
    /\ IF copy[r] = NotSeen /\ learnt # NotSeen
       THEN Goto(r, "again") /\ UNCHANGED <<holder, draft>>
       ELSE /\ holder' = r /\ draft' = [learnt |-> LearntAfter(r), lesson |-> Rewarded(r)]
            /\ Goto(r, "commit")
    /\ UNCHANGED <<item, ended, copy, rows, overlapped, faults>>

(* Of a lesson row that was there only the points columns are written. *)
Commit(r) ==
    /\ pc[r] = "commit"
    /\ learnt' = draft.learnt
    /\ lesson' = IF lesson = NoRow THEN draft.lesson
                 ELSE [lesson EXCEPT !.points = draft.lesson.points, !.completed = draft.lesson.completed]
    /\ holder' = "none" /\ draft' = NoDraft /\ copy' = [copy EXCEPT ![r] = NotSeen]
    /\ Goto(r, IF ended[r] THEN "scores" ELSE "daily")
    /\ UNCHANGED <<item, ended, daily, overlapped, faults>>

(* addstudentscores with no stars of its own: the row is read, then saved with the bonus star. *)
addstudentscores(r) ==
    /\ \/ pc[r] = "scores" /\ Goto(r, "star") /\ copy' = [copy EXCEPT ![r] = lesson] /\ lesson' = lesson
       \/ /\ pc[r] = "star" /\ Goto(r, "daily") /\ copy' = [copy EXCEPT ![r] = NotSeen]
          /\ LET starred == StarredLesson(copy[r], 0, item.total)
             IN  lesson' = IF copy[r] = NoRow THEN lesson
                           ELSE [lesson EXCEPT !.scores = starred.scores, !.flag = starred.flag]
    /\ UNCHANGED <<item, ended, holder, draft, learnt, daily, overlapped, faults>>

(* updateuserdailypoints: what the learning row holds is read, then put into today's row. *)
updateuserdailypoints(r) ==
    /\ \/ pc[r] = "daily" /\ Goto(r, "day") /\ copy' = [copy EXCEPT ![r] = learnt] /\ daily' = daily
       \/ pc[r] = "day" /\ Goto(r, "ok") /\ copy' = [copy EXCEPT ![r] = NotSeen]
          /\ daily' = IF copy[r].viewed > 0 THEN copy[r].points ELSE 0
    /\ UNCHANGED <<item, ended, holder, draft, learnt, lesson, overlapped, faults>>

(* The failed transaction is left open. *)
Fail_open(r) ==
    /\ r \in InProgress /\ pc[r] # "again" /\ faults < MaxFaults
    /\ Goto(r, "again") /\ faults' = faults + 1
    /\ UNCHANGED <<item, ended, copy, holder, draft, rows, overlapped>>

(* A statement fails: before the commit all is rolled back; after it the rollback throws and nothing more is done. *)
Fail(r) ==
    /\ r \in InProgress /\ pc[r] # "again" /\ faults < MaxFaults
    /\ Goto(r, "again") /\ faults' = faults + 1
    /\ IF holder = r THEN holder' = "none" /\ draft' = NoDraft ELSE UNCHANGED <<holder, draft>>
    /\ copy' = [copy EXCEPT ![r] = NotSeen]
    /\ UNCHANGED <<item, ended, rows, overlapped>>

(* The answer does not arrive, and the report is sent again. *)
LoseAnswer(r) ==
    /\ pc[r] = "ok" /\ faults < MaxFaults
    /\ Goto(r, "again") /\ faults' = faults + 1
    /\ overlapped' = (overlapped \/ InProgress # {})
    /\ UNCHANGED <<item, ended, copy, holder, draft, rows>>

Step(r) == Find(r) \/ Save(r) \/ Commit(r) \/ addstudentscores(r) \/ updateuserdailypoints(r)

LNext == \E r \in Reports : Step(r) \/ Fail(r) \/ LoseAnswer(r)

(* The server goes on with a request, and the app sends what was not answered again. *)
LFairness == \A r \in Reports : WF_lvars(pc[r] # "idle" /\ Step(r))

-----------------------------------------------------------------------------
PointsOf(row) == row.points
Finished == {r \in Reports : ended[r] /\ pc[r] # "idle"}

(***************************************************************************)
(* The lesson has the item's points when the item's row has them, with     *)
(* whatever reports are in progress, fail or are sent again, because both  *)
(* are committed together.  It has them once where an opened item earns    *)
(* them (the unique key of studentlearningprogress decides a double tap),  *)
(* and for any item as long as no two reports overlap.                     *)
(***************************************************************************)
LearntIsCredited ==
    /\ PointsOf(lesson) >= learnt.points
    /\ ~item.media \/ ~overlapped => PointsOf(lesson) = learnt.points

(***************************************************************************)
(* What is written after the commit is made good by the retry: once every  *)
(* report is answered, in turn, the bonus star is there if the lesson is   *)
(* full, once, and the daily row holds what the item earned.               *)
(***************************************************************************)
RetrySettles ==
    InProgress = {} /\ ~overlapped /\ learnt # NotSeen =>
        /\ daily = learnt.points
        /\ lesson # NoRow => lesson.flag = (lesson.points >= item.total) /\ lesson.scores = (IF lesson.flag THEN 1 ELSE 0)

(***************************************************************************)
(* A finished item is credited in the end: no failed statement, lost       *)
(* answer or wait for another report's row keeps its points away.          *)
(***************************************************************************)
CompletionIsCredited == \A r \in Reports : (r \in Finished) ~> (PointsOf(lesson) > 0)

=============================================================================
