----------------------------- MODULE Submission -----------------------------
(***************************************************************************)
(* The result endpoints under concurrency: the requests of one learner to  *)
(* savelessonpracticeresult, savelessonquizresult, savelevelquizresult and *)
(* savebaselineresult, each split at its awaits, over a MySQL database     *)
(* with transactions, row locks and a bounded connection pool.             *)
(*                                                                         *)
(* A request reads most of what it decides on outside its transaction (on  *)
(* another connection), keeps its writes to itself until it commits, and   *)
(* goes on writing (stars, daily row) after the commit.  Clients re-send a *)
(* result until it is acknowledged; the server may crash; statements may   *)
(* fail.  All activities belong to one lesson of one level of one grade,   *)
(* and the content does not change (Progress has it change).               *)
(***************************************************************************)
EXTENDS Reward, FiniteSetsExt

CONSTANTS
    Req,            \* requests, retries included
    Activities,     \* what is submitted to
    ActivityOf,     \* request -> activity
    StartOf,        \* request -> starttime; a retry has its original's
    KindOf,         \* activity -> "practice", "quiz", "levelquiz", "baseline"
    Worth,          \* activity -> its points
    Passing,        \* lessons.passing_points
    TotalOf,        \* the points of the lesson, the level and the grade
    Percentages,    \* the results an attempt can score
    Rule,           \* the organisation's requireLessonQuizPass
    Serial,         \* TRUE: a request is sent when no other is in progress
    Pool,           \* connections of the pool
    MaxFaults       \* bound: failed statements and crashes

Tables == {"lesson", "level", "grade"}
Kinds  == {"practice", "quiz", "levelquiz", "baseline"}

ASSUME SubmissionAssumption ==
    /\ IsFiniteSet(Req) /\ IsFiniteSet(Activities)
    /\ ActivityOf \in [Req -> Activities] /\ StartOf \in [Req -> Nat]
    /\ KindOf \in [Activities -> Kinds] /\ Worth \in [Activities -> Nat]
    /\ Passing \in Nat /\ TotalOf \in [Tables -> Nat \ {0}]
    /\ Percentages \subseteq 0..10000
    /\ "none" \notin Req
    /\ Rule \in BOOLEAN /\ Serial \in BOOLEAN /\ Pool \in Nat \ {0} /\ MaxFaults \in Nat

VARIABLES
    pc,        \* the await each request is at
    loc,       \* its local variables
    tab,       \* the table its reward or its stars are at
    passed,    \* requests that found the activity passed
    created,   \* requests whose insert of the attempt row went through
    open,      \* requests with an open transaction
    pending,   \* requests whose attempt row is inserted, not committed
    writes,    \* the uncommitted writes of each request to the progress tables
    activated, \* requests with an uncommitted studentactives row
    stored,    \* committed studentprogress rows, named by the request that made them
    row,       \* the contents of those rows
    agg,       \* committed rows of each progress table, named by the request that made them
    actives,   \* committed studentactives rows, likewise
    daily,     \* committed studentpoints rows of the lesson and day, likewise
    credits,   \* history: key -> transactions that saved a result with its reward
    stars,     \* history: key, table -> additions of the result's stars
    faults     \* failed statements and crashes so far

txvars  == <<open, pending, writes, activated>>
dbvars  == <<stored, row, agg, actives, daily>>
history == <<credits, stars>>
vars    == <<pc, loc, tab, passed, created, txvars, dbvars, history, faults>>

-----------------------------------------------------------------------------
KeyOf == [r \in Req |-> <<ActivityOf[r], StartOf[r]>>]
Keys  == {KeyOf[r] : r \in Req}

Kind(r)   == KindOf[ActivityOf[r]]
Points(r) == Worth[ActivityOf[r]]
Lessonly(r) == Kind(r) \in {"practice", "quiz"}
OfKinds(kinds) == {a \in Activities : KindOf[a] \in kinds}

NoAttempt == [pass |-> FALSE, points |-> 0, scores |-> 0, answers |-> FALSE]
NoWrite == [id |-> "none"]
NoWrites == [t \in Tables |-> NoWrite]
NoDaily == -1
Blank == [pct |-> 0, due |-> FALSE, old |-> NoOld, add |-> 0, seen |-> NoRow, id |-> "none"]

Attempt == [pass : BOOLEAN, points : Nat, scores : 0..3, answers : BOOLEAN]

Ended    == {"ok", "error", "conflict", "lost"}
InFlight == {r \in Req : pc[r] \notin Ended \cup {"idle"}}
Quiet    == InFlight = {}

(* Each table in turn; a level quiz has nothing to do with a lesson row. *)
FirstTable(r) == IF Kind(r) = "levelquiz" THEN "level" ELSE "lesson"
NextTable(t)  == IF t = "lesson" THEN "level" ELSE "grade"

-----------------------------------------------------------------------------
(* Questions to the committed studentprogress rows. *)
Rows(a)     == {s \in stored : ActivityOf[s] = a}
ispass(a)   == \E s \in Rows(a) : row[s].pass
hasTried(a) == Rows(a) # {}
Newest(ss)  == CHOOSE s \in ss : \A u \in ss : StartOf[u] <= StartOf[s]
Oldest(ss)  == CHOOSE s \in ss : \A u \in ss : StartOf[u] >= StartOf[s]

OldPoints(ss, s, new) == IF ss # {} /\ row[s].points # new THEN row[s].points ELSE NoOld

getoldpoints(a, new) == OldPoints(Rows(a), Newest(Rows(a)), new)

getpassoldpoints(a, new) ==
    LET ps == {s \in Rows(a) : row[s].pass} IN OldPoints(ps, Oldest(ps), new)

AttemptPoints(r, pass) ==
    IF Kind(r) = "quiz" THEN lessonQuizAttemptPoints(Rule, pass, Points(r)) ELSE Points(r)

NewAttempt(r, pct) ==
    LET pass == pct >= COMPLETED_PERCENTAGE
    IN  [pass |-> pass, points |-> AttemptPoints(r, pass), answers |-> FALSE,
         scores |-> IF Kind(r) = "practice" THEN 0 ELSE calculatescore(pct)]

(* A connection is left for a statement outside a transaction, or for a new transaction. *)
FreeConnection == Cardinality(open) < Pool

(* Another transaction has updated this row and not yet ended. *)
Locked(r, t, id) == \E s \in open \ {r} : writes[s][t].id = id

-----------------------------------------------------------------------------
Init ==
    /\ pc = [r \in Req |-> "idle"]
    /\ loc = [r \in Req |-> Blank]
    /\ tab = [r \in Req |-> "lesson"]
    /\ passed = {} /\ created = {}
    /\ open = {} /\ pending = {} /\ activated = {}
    /\ writes = [r \in Req |-> NoWrites]
    /\ stored = {} /\ row = [r \in Req |-> NoAttempt]
    /\ agg = [t \in Tables |-> [r \in Req |-> NoRow]]
    /\ actives = {} /\ daily = [r \in Req |-> NoDaily]
    /\ credits = [k \in Keys |-> 0]
    /\ stars = [k \in Keys |-> [t \in Tables |-> 0]]
    /\ faults = 0

Goto(r, step) == pc' = [pc EXCEPT ![r] = step]

(* The request arrives; unless the activity is passed its answers are graded and scored. *)
Receive(r) ==
    /\ pc[r] = "idle" /\ FreeConnection
    /\ Serial => Quiet
    /\ IF Kind(r) # "baseline" /\ ispass(ActivityOf[r])
       THEN /\ Goto(r, "passold")
            /\ passed' = passed \cup {r}
            /\ loc' = loc
       ELSE /\ \E p \in Percentages : loc' = [loc EXCEPT ![r] = [Blank EXCEPT !.pct = p]]
            /\ Goto(r, IF Kind(r) = "baseline" THEN "begin" ELSE "tried")
            /\ passed' = passed
    /\ tab' = [tab EXCEPT ![r] = FirstTable(r)]
    /\ UNCHANGED <<created, faults>> /\ UNCHANGED txvars /\ UNCHANGED dbvars /\ UNCHANGED history

(* A step that only reads, outside any transaction, into the request's variables. *)
Asks(r, at, then, new) ==
    /\ pc[r] = at /\ FreeConnection
    /\ loc' = [loc EXCEPT ![r] = new]
    /\ Goto(r, then)
    /\ UNCHANGED <<tab, passed, created, faults>>
    /\ UNCHANGED txvars /\ UNCHANGED dbvars /\ UNCHANGED history

(* A passed activity: have its points changed since? *)
AskPassOld(r) ==
    LET a   == ActivityOf[r]
        old == IF Rule /\ Kind(r) = "quiz" THEN getpassoldpoints(a, Points(r)) ELSE getoldpoints(a, Points(r))
    IN  Asks(r, "passold", "begin", [loc[r] EXCEPT !.old = old, !.due = old # NoOld, !.add = Delta(Points(r), old)])

AskTried(r) == Asks(r, "tried", "old", [loc[r] EXCEPT !.due = ~hasTried(ActivityOf[r])])

AskOld(r) ==
    LET new == NewAttempt(r, loc[r].pct)
        old == getoldpoints(ActivityOf[r], new.points)
    IN  Asks(r, "old", IF Rule /\ Kind(r) = "quiz" /\ ~new.pass THEN "newest" ELSE "begin",
             [loc[r] EXCEPT !.old = old, !.due = @ \/ old # NoOld, !.add = Delta(new.points, old)])

(* Rule on, failed attempt: is a later one stored already? *)
AskNewest(r) ==
    LET rs    == Rows(ActivityOf[r])
        stale == rs # {} /\ StartOf[Newest(rs)] > StartOf[r]
    IN  Asks(r, "newest", "begin", [loc[r] EXCEPT !.due = @ /\ ~stale])

-----------------------------------------------------------------------------
(* A reward at every attempt, due or not. *)
Rewarding_always(r) == "read"

(* Where the transaction goes on once the attempt is in: to the reward, or past it. *)
Rewarding(r) == IF loc[r].due THEN "read" ELSE "active"

(* The transaction is opened.  update*Points leaves a passed row as it is: the content, so its worth, is fixed. *)
Begin(r) ==
    /\ pc[r] = "begin" /\ FreeConnection
    /\ open' = open \cup {r}
    /\ Goto(r, IF r \in passed THEN Rewarding(r) ELSE IF Lessonly(r) THEN "find" ELSE "insert")
    /\ UNCHANGED <<loc, tab, passed, created, pending, writes, activated, faults>>
    /\ UNCHANGED dbvars /\ UNCHANGED history

(* Some committed row has the key of this request. *)
Duplicate(r) == \E s \in stored : KeyOf[s] = KeyOf[r]

(* findOrCreate, its find: takes the transaction's snapshot. *)
Find(r) ==
    /\ pc[r] = "find"
    /\ Goto(r, IF Duplicate(r) THEN "active" ELSE "insert")
    /\ UNCHANGED <<loc, tab, passed, created, faults>>
    /\ UNCHANGED txvars /\ UNCHANGED dbvars /\ UNCHANGED history

(* The transactions of these requests are over. *)
EndTransaction(rs) ==
    /\ open' = open \ rs
    /\ pending' = pending \ rs
    /\ writes' = [r \in Req |-> IF r \in rs THEN NoWrites ELSE writes[r]]
    /\ activated' = activated \ rs

(* The insert waits for an uncommitted row with its key. *)
WaitsForKey(r) == \E s \in pending : KeyOf[s] = KeyOf[r]

(* The insert goes through, or finds the key taken by a row its snapshot does not show. *)
Insert(r) ==
    /\ pc[r] = "insert" /\ ~WaitsForKey(r)
    /\ \/ /\ ~Duplicate(r)
          /\ pending' = pending \cup {r} /\ created' = created \cup {r}
          /\ row' = [row EXCEPT ![r] = NewAttempt(r, loc[r].pct)]
          /\ Goto(r, "answers")
          /\ UNCHANGED <<open, writes, activated>>
       \/ /\ Duplicate(r)
          /\ EndTransaction({r})
          /\ Goto(r, IF Lessonly(r) THEN "recover" ELSE "conflict")
          /\ UNCHANGED <<created, row>>
    /\ UNCHANGED <<loc, tab, passed, stored, agg, actives, daily, faults>> /\ UNCHANGED history

(* The answers are not waited for. *)
insertquestion_unawaited(r) ==
    /\ pc[r] = "answers"
    /\ Goto(r, IF Kind(r) = "baseline" THEN "active" ELSE Rewarding(r))
    /\ UNCHANGED <<loc, tab, passed, created, faults>>
    /\ UNCHANGED txvars /\ UNCHANGED dbvars /\ UNCHANGED history

(* insertquestion: the answers of the attempt; a baseline earns no points. *)
insertquestion(r) ==
    /\ pc[r] = "answers"
    /\ row' = [row EXCEPT ![r].answers = TRUE]
    /\ Goto(r, IF Kind(r) = "baseline" THEN "active" ELSE Rewarding(r))
    /\ UNCHANGED <<loc, tab, passed, created, stored, agg, actives, daily, faults>>
    /\ UNCHANGED txvars /\ UNCHANGED history

(* findOne on a progress table: any of its rows, should there be several; none, should there be none. *)
Sees(r, t) ==
    LET ids == {s \in Req : agg[t][s] # NoRow}
    IN  \/ ids = {} /\ loc' = [loc EXCEPT ![r].seen = NoRow, ![r].id = r]
        \/ \E s \in ids : loc' = [loc EXCEPT ![r].seen = agg[t][s], ![r].id = s]

(* updateUserReward, updateLevelQuizReward: the row is read outside the transaction... *)
ReadTotal(r) ==
    /\ pc[r] = "read" /\ FreeConnection
    /\ Sees(r, tab[r])
    /\ Goto(r, "write")
    /\ UNCHANGED <<tab, passed, created, faults>>
    /\ UNCHANGED txvars /\ UNCHANGED dbvars /\ UNCHANGED history

TotalAfter(t, seen, d) ==
    IF t = "lesson" THEN LessonRow(seen, d, Passing, TotalOf[t]) ELSE TotalRow(seen, d, TotalOf[t])

(* ... and written, or created, inside it; what the lesson could not hold is not passed on. *)
WriteTotal(r) ==
    LET t == tab[r]
        l == loc[r]
    IN  /\ pc[r] = "write" /\ ~Locked(r, t, l.id)
        /\ writes' = [writes EXCEPT ![r][t] = [id |-> l.id, row |-> TotalAfter(t, l.seen, l.add)]]
        /\ loc' = IF t = "lesson" THEN [loc EXCEPT ![r].add = LandedPoints(l.seen, l.add, TotalOf[t])] ELSE loc
        /\ tab' = [tab EXCEPT ![r] = NextTable(t)]
        /\ Goto(r, IF t = "grade" THEN "active" ELSE "read")
        /\ UNCHANGED <<passed, created, open, pending, activated, faults>>
        /\ UNCHANGED dbvars /\ UNCHANGED history

(* An activity row for every request. *)
setstudentactive_always(r) ==
    /\ pc[r] = "active" /\ FreeConnection
    /\ activated' = activated \cup {r}
    /\ Goto(r, "commit")
    /\ UNCHANGED <<loc, tab, passed, created, open, pending, writes, faults>>
    /\ UNCHANGED dbvars /\ UNCHANGED history

(* setstudentactive: one row per activity and day, if the read finds none. *)
setstudentactive(r) ==
    /\ pc[r] = "active" /\ FreeConnection
    /\ activated' = IF \E s \in actives : ActivityOf[s] = ActivityOf[r] THEN activated ELSE activated \cup {r}
    /\ Goto(r, "commit")
    /\ UNCHANGED <<loc, tab, passed, created, open, pending, writes, faults>>
    /\ UNCHANGED dbvars /\ UNCHANGED history

(* A created row is committed as written; of an updated one only the points columns are. *)
Committed(r, t, s) ==
    LET w == writes[r][t]
    IN  IF w = NoWrite \/ w.id # s THEN agg[t][s]
        ELSE IF agg[t][s] = NoRow THEN w.row
        ELSE [agg[t][s] EXCEPT !.points = w.row.points, !.completed = w.row.completed]

(* Stars for every save, replays included. *)
AfterCommit_always(r) == IF Kind(r) = "baseline" THEN "reply" ELSE "stars"

(* Only a fresh save is scored; a baseline neither scores nor touches the daily row. *)
AfterCommit(r) ==
    IF Kind(r) = "baseline" THEN "reply" ELSE IF r \in created THEN "stars" ELSE "dfind"

Commit(r) ==
    /\ pc[r] = "commit"
    /\ stored' = stored \cup (pending \cap {r})
    /\ agg' = [t \in Tables |-> [s \in Req |-> Committed(r, t, s)]]
    /\ actives' = actives \cup (activated \cap {r})
    /\ credits' = IF r \notin passed /\ writes[r] # NoWrites THEN [credits EXCEPT ![KeyOf[r]] = @ + 1] ELSE credits
    /\ EndTransaction({r})
    /\ tab' = [tab EXCEPT ![r] = FirstTable(r)]
    /\ Goto(r, AfterCommit(r))
    /\ UNCHANGED <<loc, passed, created, row, daily, stars, faults>>

(* The recovery read still sees the transaction's old snapshot. *)
Recover_snapshot(r) ==
    /\ pc[r] = "recover" /\ FreeConnection
    /\ Goto(r, "conflict")
    /\ UNCHANGED <<loc, tab, passed, created, faults>>
    /\ UNCHANGED txvars /\ UNCHANGED dbvars /\ UNCHANGED history

(* The transaction lost the race for the key: the winner's row is fetched, afresh. *)
Recover(r) ==
    /\ pc[r] = "recover" /\ FreeConnection
    /\ Goto(r, IF Duplicate(r) THEN "dfind" ELSE "conflict")
    /\ UNCHANGED <<loc, tab, passed, created, faults>>
    /\ UNCHANGED txvars /\ UNCHANGED dbvars /\ UNCHANGED history

-----------------------------------------------------------------------------
(* addstudentscores, addstudentlevelquizscores: after the commit, row by row, in no transaction. *)
ReadStars(r) ==
    /\ pc[r] = "stars" /\ FreeConnection
    /\ Sees(r, tab[r])
    /\ Goto(r, "starred")
    /\ UNCHANGED <<tab, passed, created, faults>>
    /\ UNCHANGED txvars /\ UNCHANGED dbvars /\ UNCHANGED history

(* The stars to add: the attempt's, and from the row that has the flag on, the one extra star. *)
ExtraStar(r, t, seen) ==
    CASE Kind(r) = "levelquiz" /\ t = "level" -> DefaultStar(seen)
      [] Kind(r) # "levelquiz" /\ t = "lesson" -> Bonus(seen, TotalOf[t])
      [] OTHER -> 0

(* The extra star stays with the row that gave it. *)
Carried_bare(r) == row[r].scores

(* Stars given so far, as the handler's local variable has them from table to table. *)
Carried(r) == IF tab[r] = FirstTable(r) THEN row[r].scores ELSE loc[r].add

WriteStars(r) ==
    LET t     == tab[r]
        l     == loc[r]
        extra == ExtraStar(r, t, l.seen)
        add   == Carried(r) + extra
    IN  /\ pc[r] = "starred" /\ FreeConnection /\ ~Locked(r, t, l.id)
        /\ IF l.seen = NoRow
           THEN UNCHANGED <<agg, stars>>
           ELSE /\ agg' = [agg EXCEPT ![t][l.id].scores = l.seen.scores + add,
                                      ![t][l.id].flag = l.seen.flag \/ extra = 1]
                /\ stars' = [stars EXCEPT ![KeyOf[r]][t] = @ + 1]
        /\ loc' = [loc EXCEPT ![r].add = add]
        /\ tab' = [tab EXCEPT ![r] = NextTable(t)]
        /\ Goto(r, IF t = "grade" THEN "dfind" ELSE "stars")
        /\ UNCHANGED <<passed, created, stored, row, actives, daily, credits, faults>>
        /\ UNCHANGED txvars

(* What the lesson's activities hold: the newest attempt at each. *)
HeldPoints ==
    SumFunctionOnSet([a \in Activities |-> IF hasTried(a) THEN row[Newest(Rows(a))].points ELSE 0],
                     OfKinds({"practice", "quiz"}))

(* updateuserdailypoints: is there a row for today... *)
FindDaily(r) ==
    LET ids == {s \in Req : daily[s] # NoDaily}
    IN  /\ pc[r] = "dfind" /\ FreeConnection
        /\ \/ ids = {} /\ loc' = [loc EXCEPT ![r].id = r]
           \/ \E s \in ids : loc' = [loc EXCEPT ![r].id = s]
        /\ Goto(r, "dheld")
        /\ UNCHANGED <<tab, passed, created, faults>>
        /\ UNCHANGED txvars /\ UNCHANGED dbvars /\ UNCHANGED history

(* ... what do the attempts add up to... *)
SumHeld(r) == Asks(r, "dheld", "dwrite", [loc[r] EXCEPT !.add = HeldPoints])

(* The row of the day is only ever created. *)
WriteDaily_once(r) ==
    /\ pc[r] = "dwrite" /\ FreeConnection
    /\ daily' = IF daily[loc[r].id] = NoDaily THEN [daily EXCEPT ![loc[r].id] = loc[r].add] ELSE daily
    /\ Goto(r, "reply")
    /\ UNCHANGED <<loc, tab, passed, created, stored, row, agg, actives, faults>>
    /\ UNCHANGED txvars /\ UNCHANGED history

(* ... and the row is written, or created. *)
WriteDaily(r) ==
    /\ pc[r] = "dwrite" /\ FreeConnection
    /\ daily' = [daily EXCEPT ![loc[r].id] = loc[r].add]
    /\ Goto(r, "reply")
    /\ UNCHANGED <<loc, tab, passed, created, stored, row, agg, actives, faults>>
    /\ UNCHANGED txvars /\ UNCHANGED history

Reply(r) ==
    /\ pc[r] = "reply"
    /\ Goto(r, "ok")
    /\ loc' = [loc EXCEPT ![r] = Blank]
    /\ UNCHANGED <<tab, passed, created, faults>>
    /\ UNCHANGED txvars /\ UNCHANGED dbvars /\ UNCHANGED history

-----------------------------------------------------------------------------
NeedsConnection == {"passold", "tried", "old", "newest", "begin", "read", "active", "recover",
                    "stars", "starred", "dfind", "dheld", "dwrite"}

(* The pool is waited for without a timeout. *)
Waits_forever(r) ==
    \/ pc[r] \in {"write", "starred"} /\ Locked(r, tab[r], loc[r].id)
    \/ pc[r] = "insert" /\ WaitsForKey(r)

(* The request waits for a connection, for a row lock or for another's uncommitted key. *)
Waits(r) ==
    \/ pc[r] \in NeedsConnection /\ ~FreeConnection
    \/ pc[r] \in {"write", "starred"} /\ Locked(r, tab[r], loc[r].id)
    \/ pc[r] = "insert" /\ WaitsForKey(r)

(* An error ends the request; what its transaction had written is rolled back. *)
Abort(r) ==
    /\ EndTransaction({r})    \* rolled back
    /\ Goto(r, "error")
    /\ loc' = [loc EXCEPT ![r] = Blank]
    /\ UNCHANGED <<tab, passed, created>> /\ UNCHANGED dbvars /\ UNCHANGED history

(* A wait is given up: the pool's acquire timeout, InnoDB's lock wait timeout. *)
Timeout(r) == r \in InFlight /\ Waits(r) /\ Abort(r) /\ faults' = faults

(* A statement fails. *)
Fail(r) == r \in InFlight /\ faults < MaxFaults /\ faults' = faults + 1 /\ Abort(r)

(* The server stops and is started again: no request in progress is answered. *)
Crash ==
    /\ ~Quiet /\ faults < MaxFaults /\ faults' = faults + 1
    /\ EndTransaction(InFlight)    \* rolled back
    /\ pc' = [r \in Req |-> IF r \in InFlight THEN "lost" ELSE pc[r]]
    /\ loc' = [r \in Req |-> Blank]
    /\ UNCHANGED <<tab, passed, created>> /\ UNCHANGED dbvars /\ UNCHANGED history

Step(r) ==
    \/ AskPassOld(r) \/ AskTried(r) \/ AskOld(r) \/ AskNewest(r)
    \/ Begin(r) \/ Find(r) \/ Insert(r) \/ insertquestion(r)
    \/ ReadTotal(r) \/ WriteTotal(r) \/ setstudentactive(r) \/ Commit(r) \/ Recover(r)
    \/ ReadStars(r) \/ WriteStars(r)
    \/ FindDaily(r) \/ SumHeld(r) \/ WriteDaily(r) \/ Reply(r)

Next ==
    \/ \E r \in Req : Receive(r) \/ Step(r) \/ Timeout(r) \/ Fail(r)
    \/ Crash

Spec == Init /\ [][Next]_vars

(* The event loop gets to every request, and every wait has a timeout. *)
Fairness == \A r \in Req : WF_vars(Step(r)) /\ WF_vars(Timeout(r))

FairSpec == Spec /\ Fairness

-----------------------------------------------------------------------------
Row == ProgressRow \cup {NoRow}
Local == [pct : Nat, due : BOOLEAN, old : Int, add : Int, seen : Row, id : Req \cup {"none"}]
Steps == NeedsConnection \cup Ended
            \cup {"idle", "find", "insert", "answers", "write", "commit", "reply"}

(* Types of the requests' variables, the open transactions and the committed tables. *)
TypeOK ==
    /\ pc \in [Req -> Steps] /\ tab \in [Req -> Tables]
    /\ loc \in [Req -> Local]
    /\ {passed, created, open, pending, activated, stored, actives} \subseteq SUBSET Req
    /\ writes \in [Req -> [Tables -> [id : Req, row : Row] \cup {NoWrite}]]
    /\ row \in [Req -> Attempt]
    /\ agg \in [Tables -> [Req -> Row]]
    /\ daily \in [Req -> Nat \cup {NoDaily}]
    /\ credits \in [Keys -> Nat] /\ stars \in [Keys -> [Tables -> Nat]]
    /\ faults \in 0..MaxFaults

Once == INSTANCE ResultOnce WITH
            saved    <- {KeyOf[s] : s \in stored},
            answered <- {r \in Req : pc[r] = "ok"}

(***************************************************************************)
(* The endpoints keep their promise to a client that re-sends (ResultOnce):*)
(* whatever interleaves, fails or crashes, a result is stored once, its    *)
(* points and its stars are added at most once, the points together with   *)
(* the row, and a request is acknowledged only when there is a row for it. *)
(***************************************************************************)
ExactlyOnce == Once!Spec

(***************************************************************************)
(* No attempt is ever on record without its answers.                       *)
(***************************************************************************)
AttemptsComplete == \A s \in stored : row[s].answers

(***************************************************************************)
(* A re-sent practice or lesson quiz result is never refused as a conflict,*)
(* also when it overtakes or races its original: the recovery read always  *)
(* finds the winner's row.                                                 *)
(***************************************************************************)
ReplayNeverConflicts == \A r \in Req : pc[r] = "conflict" => ~Lessonly(r)

-----------------------------------------------------------------------------
Ids(t) == {s \in Req : agg[t][s] # NoRow}
Sum(t) == SumFunctionOnSet([s \in Req |-> agg[t][s].points], Ids(t))
ScoreSum(t) == SumFunctionOnSet([s \in Req |-> agg[t][s].scores], Ids(t))

(* With the content fixed an activity is worth its points once tried, a quiz under the rule once passed. *)
Earned(a) == IF (IF Rule /\ KindOf[a] = "quiz" THEN ispass(a) ELSE hasTried(a)) THEN Worth[a] ELSE 0
EarnedBy(kinds) == SumFunctionOnSet([a \in Activities |-> Earned(a)], OfKinds(kinds))

(***************************************************************************)
(* The running totals are right whenever no request is in progress, also   *)
(* after failed statements, timeouts and crashes at any await: the row and *)
(* its reward stand or fall together.  For a client that sends one result  *)
(* at a time, or several copies of the same one.                           *)
(***************************************************************************)
TotalsEarned ==
    Quiet => /\ Sum("lesson") = EarnedBy({"practice", "quiz"})
             /\ Sum("level") = EarnedBy({"practice", "quiz", "levelquiz"})
             /\ Sum("grade") = Sum("level")

(***************************************************************************)
(* For a client that sends one result at a time there is one row of the    *)
(* day and one activity row, although no index enforces it.  (Two copies   *)
(* of a result in progress at once can each find none and create one.)     *)
(***************************************************************************)
OneRowOfTheDay ==
    /\ Cardinality({s \in Req : daily[s] # NoDaily}) <= 1
    /\ \A s, u \in actives : ActivityOf[s] = ActivityOf[u] => s = u

ScoresOf(kinds) == SumFunctionOnSet([s \in Req |-> row[s].scores], {s \in stored : Kind(s) \in kinds})
Flags(t) == Cardinality({s \in Ids(t) : agg[t][s].flag})

(***************************************************************************)
(* Stars: never more than the stored attempts and the extra stars give,    *)
(* and exactly those while nothing has failed or timed out.                *)
(***************************************************************************)
StarsEarned ==
    Quiet => LET lesson == ScoresOf({"quiz"}) + Flags("lesson")
                 level  == lesson + ScoresOf({"levelquiz"}) + Flags("level")
             IN  /\ ScoreSum("lesson") <= lesson /\ ScoreSum("level") <= level /\ ScoreSum("grade") <= level
                 /\ (\A r \in Req : pc[r] \notin {"error", "lost"}) =>
                        ScoreSum("lesson") = lesson /\ ScoreSum("level") = level /\ ScoreSum("grade") = level

(***************************************************************************)
(* The row of the day shows what the attempts hold once the last request   *)
(* of a client that sends one at a time has been acknowledged.             *)
(***************************************************************************)
DailyFresh ==
    Quiet /\ (\A r \in Req : pc[r] \in {"idle", "ok"}) =>
        \A s \in Req : daily[s] # NoDaily => daily[s] = HeldPoints

(***************************************************************************)
(* Every request that arrives is answered, or lost with the server: nobody *)
(* waits forever, also when all connections are held by requests that wait *)
(* for one more.                                                           *)
(***************************************************************************)
EveryRequestEnds == \A r \in Req : (r \in InFlight) ~> (pc[r] \in Ended)

-----------------------------------------------------------------------------
(***************************************************************************)
(* What the comment on the pass rule says: a pass is never credited twice. *)
(***************************************************************************)
PassNeverCreditedTwice ==
    Quiet /\ Rule => Sum("lesson") <= EarnedBy({"practice", "quiz"})

=============================================================================
