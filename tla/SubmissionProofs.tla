-------------------------- MODULE SubmissionProofs --------------------------
(***************************************************************************)
(* For any number of requests, activities and faults and any pool: the     *)
(* result endpoints implement ResultOnce, a re-sent practice or lesson     *)
(* quiz result is never refused as a conflict, and no attempt is on record *)
(* without its answers.  For a client that sends one result at a time: the *)
(* day has one row, which is up to date, the running totals are what the   *)
(* attempts have earned, and the stars what they and the extra stars give. *)
(*                                                                         *)
(* The first part rests on where a request can be while its attempt row is *)
(* uncommitted or committed, on the unique key, and on stars being added   *)
(* by the request that made the row only, table after table.  The second   *)
(* follows the one request in progress: what it owes to the totals until   *)
(* its commit, and to the stars of the tables ahead of it afterwards.      *)
(***************************************************************************)
EXTENDS Submission, NumberProofs

ControlOK ==
    /\ pc \in [Req -> Steps] /\ tab \in [Req -> Tables]
    /\ passed \subseteq Req /\ created \subseteq Req
    /\ pending \subseteq Req /\ stored \subseteq Req
    /\ writes = [r \in Req |-> writes[r]]
    /\ credits \in [Keys -> Nat] /\ stars \in [Keys -> [Tables -> Nat]]

BeforeInsert == {"idle", "passold", "tried", "old", "newest", "begin", "find", "insert", "recover"}
AfterInsert  == {"answers", "read", "write", "active", "commit"}
AddingStars  == {"stars", "starred"}
Closing      == {"dfind", "dheld", "dwrite", "reply"}

(* The tables a request that is adding its stars has still to do. *)
Ahead(t) == CASE t = "lesson" -> Tables [] t = "level" -> {"level", "grade"} [] t = "grade" -> {"grade"}

(* A row is committed for the request's activity. *)
Backed(r) == \E s \in stored : ActivityOf[s] = ActivityOf[r]

(* Where a request can be, given what it has done. *)
Located(r) ==
    /\ pc[r] \in BeforeInsert => r \notin created
    /\ r \in pending => pc[r] \in AfterInsert /\ r \in created
    /\ r \in stored => pc[r] \in AddingStars \cup Closing \cup Ended /\ r \in created
    /\ r \in created /\ pc[r] \in AfterInsert => r \in pending
    /\ r \in passed => r \notin created /\ Backed(r)
    /\ r \in passed => pc[r] \notin {"idle", "tried", "old", "newest", "find", "insert", "answers", "recover"}
    /\ pc[r] = "answers" => r \in pending
    /\ pc[r] \in {"read", "write"} => r \in pending \/ r \in passed
    /\ pc[r] \in {"active", "commit"} => r \in pending \/ Backed(r)
    /\ pc[r] = "recover" => Duplicate(r) /\ Lessonly(r)
    /\ pc[r] \in AddingStars => r \in stored
    /\ pc[r] \in Closing \cup {"ok"} => Backed(r)
    /\ pc[r] = "conflict" => ~Lessonly(r)
    /\ writes[r] # NoWrites => r \in pending \/ r \in passed
    /\ pc[r] \in AddingStars => \A t \in Ahead(tab[r]) : stars[KeyOf[r]][t] = 0

(* The unique index, over committed and uncommitted rows. *)
UniqueKey == \A r, s \in stored \cup pending : KeyOf[r] = KeyOf[s] => r = s

(* Only a committed result has had points or stars added. *)
OnlySaved ==
    \A k \in Keys : (credits[k] # 0 \/ \E t \in Tables : stars[k][t] # 0) => \E s \in stored : KeyOf[s] = k

IInv == ControlOK /\ UniqueKey /\ OnlySaved /\ \A r \in Req : Located(r)

(* What the proofs need of the keys: same key, same activity. *)
LEMMA KeyFacts ==
    ASSUME NEW r \in Req, NEW s \in Req
    PROVE  /\ KeyOf[r] \in Keys
           /\ KeyOf[r] = KeyOf[s] => ActivityOf[r] = ActivityOf[s]
  BY DEF KeyOf, Keys

(* The table after a table, and the tables still ahead of it. *)
LEMMA TableFacts ==
    ASSUME NEW t \in Tables
    PROVE  /\ NextTable(t) \in Tables /\ t \in Ahead(t) /\ Ahead(t) \subseteq Tables
           /\ t # "grade" => Ahead(NextTable(t)) = Ahead(t) \ {t}
  BY DEF Tables, NextTable, Ahead

(* A reward starts at the lesson or, for a level quiz, at the level. *)
LEMMA FirstTableType ==
    ASSUME NEW r \in Req
    PROVE  FirstTable(r) \in Tables
  BY DEF FirstTable, Tables

(***************************************************************************)
(* A step of one request leaves the others where they may be: committed    *)
(* rows stay, and it touches nobody else's transaction, row or stars.      *)
(***************************************************************************)
LEMMA OneMoves ==
    ASSUME IInv, NEW r \in Req, ControlOK', UniqueKey', OnlySaved', Located(r)',
           stored \subseteq stored',
           \A q \in Req \ {r} :
              /\ pc'[q] = pc[q] /\ tab'[q] = tab[q] /\ writes'[q] = writes[q]
              /\ q \in passed' <=> q \in passed
              /\ q \in created' <=> q \in created
              /\ q \in pending' <=> q \in pending
              /\ q \in stored' <=> q \in stored
              /\ pc[q] \in AddingStars => stars'[KeyOf[q]] = stars[KeyOf[q]]
    PROVE  IInv'
<1>1. ASSUME NEW q \in Req, q # r PROVE Located(q)'
  <2>1. Located(q) BY DEF IInv
  <2>2. (Backed(q) => Backed(q)') /\ (Duplicate(q) => Duplicate(q)') BY DEF Backed, Duplicate
  <2>3. QED BY <1>1, <2>1, <2>2 DEF Located, Lessonly, Kind
<1>2. QED BY <1>1 DEF IInv

(***************************************************************************)
(* A step that moves one request and changes none of the rows preserves    *)
(* the invariant if it leaves that request where it may be.                *)
(***************************************************************************)
LEMMA LocalStep ==
    ASSUME IInv, NEW r \in Req, NEW step \in Steps,
           pc' = [pc EXCEPT ![r] = step],
           tab' \in [Req -> Tables], \A q \in Req \ {r} : tab'[q] = tab[q],
           passed' \subseteq Req, \A q \in Req \ {r} : q \in passed' <=> q \in passed,
           UNCHANGED <<created, pending, writes, stored, credits, stars>>,
           Located(r)'
    PROVE  IInv'
<1>1. ControlOK' BY DEF IInv, ControlOK
<1>2. UniqueKey' /\ OnlySaved' BY DEF IInv, UniqueKey, OnlySaved
<1>3. \A q \in Req \ {r} : pc'[q] = pc[q] BY DEF IInv, ControlOK
<1>4. QED BY <1>1, <1>2, <1>3, OneMoves

(* The same where the request stays in what it had: only its place changes. *)
LEMMA Moves ==
    ASSUME IInv, NEW r \in Req, NEW step \in Steps, pc' = [pc EXCEPT ![r] = step],
           UNCHANGED <<tab, passed, created, pending, writes, stored, credits, stars>>,
           Located(r)'
    PROVE  IInv'
  BY LocalStep DEF IInv, ControlOK

(* Before any request arrives nothing is stored and nobody holds a transaction. *)
THEOREM InitIInv == Init => IInv
<1> SUFFICES ASSUME Init PROVE IInv OBVIOUS
<1>1. ControlOK BY DEF Init, ControlOK, Steps, Tables
<1>2. UniqueKey /\ OnlySaved BY DEF Init, UniqueKey, OnlySaved
<1>3. ASSUME NEW r \in Req PROVE Located(r)
  <2>1. pc[r] = "idle" /\ writes[r] = NoWrites BY DEF Init
  <2>2. QED BY <2>1 DEF Init, Located, BeforeInsert, AfterInsert, AddingStars, Closing, Ended
<1>4. QED BY <1>1, <1>2, <1>3 DEF IInv

(* From one place to another with nothing else to show for it. *)
Advances ==
    {<<"passold", "begin">>, <<"tried", "old">>, <<"old", "newest">>, <<"old", "begin">>, <<"newest", "begin">>,
     <<"answers", "read">>, <<"answers", "active">>, <<"read", "write">>, <<"active", "commit">>,
     <<"stars", "starred">>, <<"dfind", "dheld">>, <<"dheld", "dwrite">>, <<"dwrite", "reply">>, <<"reply", "ok">>}

(* A step that only takes a request along one of these edges keeps the invariant. *)
LEMMA AdvanceStep ==
    ASSUME IInv, NEW r \in Req, NEW step, pc' = [pc EXCEPT ![r] = step], <<pc[r], step>> \in Advances,
           UNCHANGED <<tab, passed, created, pending, writes, stored, credits, stars>>
    PROVE  IInv'
<1>1. step \in Steps /\ pc'[r] = step BY DEF Advances, Steps, NeedsConnection, Ended, IInv, ControlOK
<1>2. Located(r) BY DEF IInv
<1>3. (Backed(r)' <=> Backed(r)) /\ (Duplicate(r)' <=> Duplicate(r)) BY DEF Backed, Duplicate
<1>4. Located(r)'
  BY <1>1, <1>2, <1>3 DEF Advances, Located, BeforeInsert, AfterInsert, AddingStars, Closing, Ended
<1>5. QED BY <1>1, <1>4, Moves

(* The steps that read, the answers, the activity row, the row of the day and the acknowledgement. *)
LEMMA QuietSteps ==
    ASSUME IInv, NEW r \in Req,
           \/ AskPassOld(r) \/ AskTried(r) \/ AskOld(r) \/ AskNewest(r) \/ SumHeld(r)
           \/ insertquestion(r) \/ ReadTotal(r) \/ setstudentactive(r) \/ ReadStars(r)
           \/ FindDaily(r) \/ WriteDaily(r) \/ Reply(r)
    PROVE  IInv'
<1>1. CASE AskPassOld(r) \/ AskTried(r) \/ AskOld(r) \/ AskNewest(r) \/ SumHeld(r)
  <2>1. PICK at, then, new : Asks(r, at, then, new) /\ <<at, then>> \in Advances
    BY <1>1 DEF AskPassOld, AskTried, AskOld, AskNewest, SumHeld, Advances
  <2>2. QED BY <2>1, AdvanceStep DEF Asks, Goto, txvars, dbvars, history
<1>2. CASE insertquestion(r)
  BY <1>2, AdvanceStep DEF insertquestion, Rewarding, Goto, Advances, txvars, history
<1>3. CASE ReadTotal(r) BY <1>3, AdvanceStep DEF ReadTotal, Goto, Advances, txvars, dbvars, history
<1>4. CASE setstudentactive(r) BY <1>4, AdvanceStep DEF setstudentactive, Goto, Advances, dbvars, history
<1>5. CASE ReadStars(r) BY <1>5, AdvanceStep DEF ReadStars, Goto, Advances, txvars, dbvars, history
<1>6. CASE FindDaily(r) BY <1>6, AdvanceStep DEF FindDaily, Goto, Advances, txvars, dbvars, history
<1>7. CASE WriteDaily(r) BY <1>7, AdvanceStep DEF WriteDaily, Goto, Advances, txvars, history
<1>8. CASE Reply(r) BY <1>8, AdvanceStep DEF Reply, Goto, Advances, txvars, dbvars, history
<1>9. QED BY <1>1, <1>2, <1>3, <1>4, <1>5, <1>6, <1>7, <1>8

(* The request arrives. *)
LEMMA ReceiveStep ==
    ASSUME IInv, NEW r \in Req, Receive(r)
    PROVE  IInv'
<1>1. pc[r] = "idle" /\ Located(r) BY DEF Receive, IInv
<1>2. UNCHANGED <<created, pending, writes, stored, credits, stars>>
  BY DEF Receive, txvars, dbvars, history
<1>3. tab' \in [Req -> Tables] /\ \A q \in Req \ {r} : tab'[q] = tab[q]
  BY FirstTableType DEF Receive, IInv, ControlOK
<1>4. CASE Kind(r) # "baseline" /\ ispass(ActivityOf[r])
  <2>1. pc' = [pc EXCEPT ![r] = "passold"] /\ passed' = passed \cup {r} BY <1>4 DEF Receive, Goto
  <2>2. Backed(r)' BY <1>2, <1>4 DEF ispass, Rows, Backed
  <2>3. pc'[r] = "passold" BY <2>1 DEF IInv, ControlOK
  <2>4. Located(r)'
    BY <1>1, <1>2, <2>1, <2>2, <2>3 DEF Located, BeforeInsert, AfterInsert, AddingStars, Closing, Ended
  <2>5. "passold" \in Steps BY DEF Steps, NeedsConnection
  <2>6. passed' \subseteq Req /\ \A q \in Req \ {r} : q \in passed' <=> q \in passed
    BY <2>1 DEF IInv, ControlOK
  <2>7. QED BY <1>2, <1>3, <2>1, <2>4, <2>5, <2>6, LocalStep
<1>5. CASE ~(Kind(r) # "baseline" /\ ispass(ActivityOf[r]))
  <2> DEFINE step == IF Kind(r) = "baseline" THEN "begin" ELSE "tried"
  <2>1. pc' = [pc EXCEPT ![r] = step] /\ passed' = passed BY <1>5 DEF Receive, Goto
  <2>2. pc'[r] \in {"begin", "tried"} BY <2>1 DEF IInv, ControlOK
  <2>3. Located(r)'
    BY <1>1, <1>2, <2>1, <2>2 DEF Located, BeforeInsert, AfterInsert, AddingStars, Closing, Ended
  <2>4. step \in Steps BY DEF Steps, NeedsConnection
  <2>5. passed' \subseteq Req BY <2>1 DEF IInv, ControlOK
  <2>6. QED BY <1>2, <1>3, <2>1, <2>3, <2>4, <2>5, LocalStep
<1>6. QED BY <1>4, <1>5

(* The transaction is opened. *)
LEMMA BeginStep ==
    ASSUME IInv, NEW r \in Req, Begin(r)
    PROVE  IInv'
<1> DEFINE step == IF r \in passed THEN Rewarding(r) ELSE IF Lessonly(r) THEN "find" ELSE "insert"
<1>1. pc[r] = "begin" /\ Located(r) BY DEF Begin, IInv
<1>2. UNCHANGED <<tab, passed, created, pending, writes, stored, credits, stars>>
  BY DEF Begin, dbvars, history
<1>3. pc' = [pc EXCEPT ![r] = step] /\ pc'[r] = step BY DEF Begin, Goto, IInv, ControlOK
<1>4. step \in Steps /\ (r \in passed => step \in {"read", "active"}) /\ (r \notin passed => step \in {"find", "insert"})
  BY DEF Steps, NeedsConnection, Rewarding
<1>5. Backed(r)' <=> Backed(r) BY <1>2 DEF Backed
<1>6. Located(r)'
  BY <1>1, <1>2, <1>3, <1>4, <1>5 DEF Located, BeforeInsert, AfterInsert, AddingStars, Closing, Ended
<1>7. QED BY <1>2, <1>3, <1>4, <1>6, Moves

(* findOrCreate looks for the row. *)
LEMMA FindStep ==
    ASSUME IInv, NEW r \in Req, Find(r)
    PROVE  IInv'
<1> DEFINE step == IF Duplicate(r) THEN "active" ELSE "insert"
<1>1. pc[r] = "find" /\ Located(r) BY DEF Find, IInv
<1>2. UNCHANGED <<tab, passed, created, pending, writes, stored, credits, stars>>
  BY DEF Find, txvars, dbvars, history
<1>3. pc' = [pc EXCEPT ![r] = step] /\ pc'[r] = step BY DEF Find, Goto, IInv, ControlOK
<1>4. step \in Steps BY DEF Steps, NeedsConnection
<1>5. Duplicate(r) => Backed(r)' BY <1>2, KeyFacts DEF Duplicate, Backed, IInv, ControlOK
<1>6. Located(r)'
  BY <1>1, <1>2, <1>3, <1>5 DEF Located, BeforeInsert, AfterInsert, AddingStars, Closing, Ended
<1>7. QED BY <1>2, <1>3, <1>4, <1>6, Moves

(* The recovery read finds the winner's row: rows are never deleted. *)
LEMMA RecoverStep ==
    ASSUME IInv, NEW r \in Req, Recover(r)
    PROVE  IInv'
<1>1. pc[r] = "recover" /\ Located(r) BY DEF Recover, IInv
<1>2. UNCHANGED <<tab, passed, created, pending, writes, stored, credits, stars>>
  BY DEF Recover, txvars, dbvars, history
<1>3. Duplicate(r) BY <1>1 DEF Located
<1>4. pc' = [pc EXCEPT ![r] = "dfind"] /\ pc'[r] = "dfind" BY <1>3 DEF Recover, Goto, IInv, ControlOK
<1>5. Backed(r)' BY <1>2, <1>3, KeyFacts DEF Duplicate, Backed, IInv, ControlOK
<1>6. Located(r)'
  BY <1>1, <1>2, <1>4, <1>5 DEF Located, BeforeInsert, AfterInsert, AddingStars, Closing, Ended
<1>7. "dfind" \in Steps BY DEF Steps, NeedsConnection
<1>8. QED BY <1>2, <1>4, <1>6, <1>7, Moves

(* A transaction ends without a commit: its request goes where nothing of it is left. *)
LEMMA RollbackStep ==
    ASSUME IInv, NEW r \in Req, NEW step \in {"error", "recover", "conflict"},
           EndTransaction({r}), pc' = [pc EXCEPT ![r] = step], r \notin stored \/ step = "error",
           step # "error" => pc[r] = "insert" /\ Duplicate(r),
           step = "recover" => Lessonly(r), step = "conflict" => ~Lessonly(r),
           UNCHANGED <<tab, passed, created, stored, credits, stars>>
    PROVE  IInv'
<1>1. pending' = pending \ {r} /\ writes' = [q \in Req |-> IF q \in {r} THEN NoWrites ELSE writes[q]]
  BY DEF EndTransaction
<1>2. step \in Steps /\ pc'[r] = step /\ \A q \in Req \ {r} : pc'[q] = pc[q]
  BY DEF Steps, NeedsConnection, Ended, IInv, ControlOK
<1>3. writes'[r] = NoWrites /\ \A q \in Req \ {r} : writes'[q] = writes[q] BY <1>1
<1>4. ControlOK' BY <1>1, <1>2 DEF IInv, ControlOK
<1>5. UniqueKey' /\ OnlySaved' BY <1>1 DEF IInv, UniqueKey, OnlySaved
<1>6. Located(r) BY DEF IInv
<1>7. (Backed(r)' <=> Backed(r)) /\ (Duplicate(r)' <=> Duplicate(r)) BY DEF Backed, Duplicate
<1>8. Located(r)'
  BY <1>1, <1>2, <1>3, <1>6, <1>7 DEF Located, BeforeInsert, AfterInsert, AddingStars, Closing, Ended, Lessonly, Kind
<1>9. \A q \in Req \ {r} : q \in pending' <=> q \in pending BY <1>1
<1>10. QED BY <1>2, <1>3, <1>4, <1>5, <1>8, <1>9, OneMoves

(* The insert: through, or refused by the unique key. *)
LEMMA InsertStep ==
    ASSUME IInv, NEW r \in Req, Insert(r)
    PROVE  IInv'
<1>1. pc[r] = "insert" /\ Located(r) /\ ~WaitsForKey(r) BY DEF Insert, IInv
<1>2. UNCHANGED <<tab, passed, stored, credits, stars>> BY DEF Insert, history
<1>3. CASE Duplicate(r)
  <2> DEFINE step == IF Lessonly(r) THEN "recover" ELSE "conflict"
  <2>1. EndTransaction({r}) /\ pc' = [pc EXCEPT ![r] = step] /\ created' = created
    BY <1>3 DEF Insert, Goto
  <2>2. r \notin stored BY <1>1 DEF Located, BeforeInsert, AfterInsert, AddingStars, Closing, Ended
  <2>3. QED BY <1>1, <1>2, <1>3, <2>1, <2>2, RollbackStep
<1>4. CASE ~Duplicate(r)
  <2>1. /\ pending' = pending \cup {r} /\ created' = created \cup {r} /\ writes' = writes
        /\ pc' = [pc EXCEPT ![r] = "answers"]
    BY <1>4 DEF Insert, Goto
  <2>2. pc'[r] = "answers" /\ \A q \in Req \ {r} : pc'[q] = pc[q] BY <2>1 DEF IInv, ControlOK
  <2>3. ControlOK' BY <1>2, <2>1 DEF IInv, ControlOK, Steps
  <2>4. UniqueKey' BY <1>1, <1>2, <1>4, <2>1 DEF IInv, UniqueKey, Duplicate, WaitsForKey
  <2>5. OnlySaved' BY <1>2 DEF IInv, OnlySaved
  <2>6. Located(r)'
    BY <1>1, <1>2, <2>1, <2>2 DEF Located, BeforeInsert, AfterInsert, AddingStars, Closing, Ended
  <2>7. QED BY <1>2, <2>1, <2>2, <2>3, <2>4, <2>5, <2>6, OneMoves
<1>5. QED BY <1>3, <1>4

(* A progress row is written, inside the transaction. *)
LEMMA WriteTotalStep ==
    ASSUME IInv, NEW r \in Req, WriteTotal(r)
    PROVE  IInv'
<1>1. pc[r] = "write" /\ Located(r) BY DEF WriteTotal, IInv
<1>2. UNCHANGED <<passed, created, pending, stored, credits, stars>> BY DEF WriteTotal, dbvars, history
<1>3. PICK step \in {"active", "read"} : pc' = [pc EXCEPT ![r] = step] BY DEF WriteTotal, Goto
<1>4. step \in Steps /\ pc'[r] = step /\ \A q \in Req \ {r} : pc'[q] = pc[q]
  BY <1>3 DEF Steps, NeedsConnection, IInv, ControlOK
<1>5. PICK w : writes' = [writes EXCEPT ![r] = w] BY DEF WriteTotal
<1>6. tab' = [tab EXCEPT ![r] = NextTable(tab[r])] BY DEF WriteTotal
<1>7. tab' \in [Req -> Tables] /\ \A q \in Req \ {r} : tab'[q] = tab[q]
  BY <1>6, TableFacts DEF IInv, ControlOK
<1>8. \A q \in Req \ {r} : writes'[q] = writes[q] BY <1>5 DEF IInv, ControlOK
<1>9. writes' = [q \in Req |-> writes'[q]] BY <1>5 DEF IInv, ControlOK
<1>10. ControlOK' BY <1>2, <1>3, <1>4, <1>7, <1>9 DEF IInv, ControlOK
<1>11. UniqueKey' /\ OnlySaved' BY <1>2 DEF IInv, UniqueKey, OnlySaved
<1>12. Backed(r)' <=> Backed(r) BY <1>2 DEF Backed
<1>13. Located(r)'
  BY <1>1, <1>2, <1>3, <1>4, <1>12 DEF Located, BeforeInsert, AfterInsert, AddingStars, Closing, Ended
<1>14. QED BY <1>2, <1>4, <1>7, <1>8, <1>10, <1>11, <1>13, OneMoves

(* The commit: the row of the request, if it made one, becomes visible with its reward. *)
LEMMA CommitStep ==
    ASSUME IInv, NEW r \in Req, Commit(r)
    PROVE  IInv'
<1>1. pc[r] = "commit" /\ Located(r) BY DEF Commit, IInv
<1>2. /\ UNCHANGED <<passed, created, stars>>
      /\ stored' = stored \cup (pending \cap {r}) /\ pending' = pending \ {r}
      /\ writes' = [q \in Req |-> IF q \in {r} THEN NoWrites ELSE writes[q]]
      /\ tab' = [tab EXCEPT ![r] = FirstTable(r)] /\ pc' = [pc EXCEPT ![r] = AfterCommit(r)]
      /\ credits' = IF r \notin passed /\ writes[r] # NoWrites THEN [credits EXCEPT ![KeyOf[r]] = @ + 1] ELSE credits
  BY DEF Commit, EndTransaction, Goto
<1>3. /\ AfterCommit(r) \in {"reply", "stars", "dfind"} /\ (AfterCommit(r) = "stars" => r \in created)
      /\ AfterCommit(r) \in Steps
  BY DEF AfterCommit, Steps, NeedsConnection
<1>4. pc'[r] = AfterCommit(r) /\ \A q \in Req \ {r} : pc'[q] = pc[q] /\ tab'[q] = tab[q]
  BY <1>2 DEF IInv, ControlOK
<1>5. writes'[r] = NoWrites /\ \A q \in Req \ {r} : writes'[q] = writes[q] BY <1>2
<1>6. credits' \in [Keys -> Nat] BY <1>2, KeyFacts DEF IInv, ControlOK
<1>7. ControlOK' BY <1>2, <1>3, <1>6, FirstTableType DEF IInv, ControlOK
<1>8. UniqueKey' BY <1>2 DEF IInv, UniqueKey
<1>9. r \in pending => r \in stored' BY <1>2
<1>10. r \notin stored BY <1>1 DEF Located, AddingStars, Closing, Ended
<1>11. OnlySaved'
  <2> SUFFICES ASSUME NEW k \in Keys, credits'[k] # 0 \/ \E t \in Tables : stars[k][t] # 0
               PROVE  \E s \in stored' : KeyOf[s] = k
    BY <1>2 DEF OnlySaved
  <2>1. CASE credits'[k] # credits[k]
    <3>1. k = KeyOf[r] /\ r \notin passed /\ writes[r] # NoWrites BY <1>2, <2>1 DEF IInv, ControlOK
    <3>2. r \in stored' BY <1>1, <1>9, <3>1 DEF Located
    <3>3. QED BY <3>1, <3>2
  <2>2. CASE credits'[k] = credits[k] BY <1>2, <2>2 DEF IInv, OnlySaved
  <2>3. QED BY <2>1, <2>2
<1>12. r \in pending => \A t \in Tables : stars[KeyOf[r]][t] = 0
  BY <1>10, KeyFacts DEF IInv, OnlySaved, UniqueKey
<1>13. r \in created => r \in pending BY <1>1 DEF Located, AfterInsert
<1>14. (r \in pending \/ Backed(r)) => Backed(r)' BY <1>2 DEF Backed
<1>15. Located(r)'
  <2>1. tab'[r] \in Tables /\ Ahead(tab'[r]) \subseteq Tables BY <1>7, TableFacts DEF ControlOK
  <2>2. QED
    BY <1>1, <1>2, <1>3, <1>4, <1>5, <1>9, <1>12, <1>13, <1>14, <2>1
    DEF Located, BeforeInsert, AfterInsert, AddingStars, Closing, Ended
<1>16. stored \subseteq stored' /\ \A q \in Req \ {r} : (q \in pending' <=> q \in pending) /\ (q \in stored' <=> q \in stored)
  BY <1>2
<1>17. QED BY <1>2, <1>4, <1>5, <1>7, <1>8, <1>11, <1>15, <1>16, OneMoves

(* Where the unique key makes a request the only one with its key. *)
LEMMA OnlyOne ==
    ASSUME IInv, NEW r \in stored, NEW q \in Req, q # r, pc[q] \in AddingStars
    PROVE  KeyOf[q] # KeyOf[r]
<1>1. q \in stored BY DEF IInv, Located
<1>2. QED BY <1>1 DEF IInv, UniqueKey

(* What a step that adds the stars to a table does to the two histories. *)
LEMMA StarsAdded ==
    ASSUME IInv, NEW r \in Req, WriteStars(r)
    PROVE  /\ r \in stored /\ tab[r] \in Tables /\ stars[KeyOf[r]][tab[r]] = 0
           /\ \/ stars' = stars
              \/ stars' = [stars EXCEPT ![KeyOf[r]][tab[r]] = 1]
<1>1. pc[r] = "starred" /\ Located(r) BY DEF WriteStars, IInv
<1>2. r \in stored /\ tab[r] \in Tables BY <1>1 DEF Located, AddingStars, IInv, ControlOK
<1>3. stars[KeyOf[r]][tab[r]] = 0 BY <1>1, <1>2, TableFacts DEF Located, AddingStars
<1>4. \/ stars' = stars
      \/ stars' = [stars EXCEPT ![KeyOf[r]][tab[r]] = @ + 1]
  BY DEF WriteStars
<1>5. [stars EXCEPT ![KeyOf[r]][tab[r]] = @ + 1] = [stars EXCEPT ![KeyOf[r]][tab[r]] = 1]
  BY <1>2, <1>3, KeyFacts DEF IInv, ControlOK
<1>6. QED BY <1>2, <1>3, <1>4, <1>5

(* The stars of a stored result are added to one more table, and to no table twice. *)
LEMMA WriteStarsStep ==
    ASSUME IInv, NEW r \in Req, WriteStars(r)
    PROVE  IInv'
<1>1. pc[r] = "starred" /\ Located(r) BY DEF WriteStars, IInv
<1>2. UNCHANGED <<passed, created, pending, writes, stored, credits>> BY DEF WriteStars, txvars
<1>3. PICK step \in {"dfind", "stars"} : pc' = [pc EXCEPT ![r] = step] /\ (step = "stars" => tab[r] # "grade")
  BY DEF WriteStars, Goto
<1>4. tab' = [tab EXCEPT ![r] = NextTable(tab[r])] BY DEF WriteStars
<1>5. /\ step \in Steps /\ pc'[r] = step /\ tab'[r] = NextTable(tab[r])
      /\ \A q \in Req \ {r} : pc'[q] = pc[q] /\ tab'[q] = tab[q]
  BY <1>3, <1>4 DEF Steps, NeedsConnection, IInv, ControlOK
<1>6. /\ r \in stored /\ tab[r] \in Tables
      /\ stars' = stars \/ stars' = [stars EXCEPT ![KeyOf[r]][tab[r]] = 1]
  BY StarsAdded
<1>7. stars' \in [Keys -> [Tables -> Nat]] BY <1>6, KeyFacts DEF IInv, ControlOK
<1>8. ControlOK' BY <1>2, <1>3, <1>4, <1>5, <1>7, TableFacts DEF IInv, ControlOK
<1>9. \A k \in Keys \ {KeyOf[r]} : stars'[k] = stars[k] BY <1>6 DEF IInv, ControlOK
<1>10. UniqueKey' /\ OnlySaved' BY <1>2, <1>6, <1>9 DEF IInv, UniqueKey, OnlySaved
<1>11. step = "stars" => \A t \in Ahead(tab'[r]) : stars'[KeyOf[r]][t] = 0
  <2> SUFFICES ASSUME tab[r] # "grade", NEW t \in Ahead(tab'[r]) PROVE stars'[KeyOf[r]][t] = 0
    BY <1>3
  <2>1. t \in Ahead(tab[r]) /\ t # tab[r] /\ t \in Tables BY <1>5, <1>6, TableFacts
  <2>2. stars[KeyOf[r]][t] = 0 BY <1>1, <2>1 DEF Located, AddingStars
  <2>3. QED BY <1>6, <2>1, <2>2, KeyFacts DEF IInv, ControlOK
<1>12. (Backed(r)' <=> Backed(r)) /\ Backed(r) BY <1>2, <1>6 DEF Backed
<1>13. Located(r)'
  BY <1>1, <1>2, <1>3, <1>5, <1>6, <1>11, <1>12 DEF Located, BeforeInsert, AfterInsert, AddingStars, Closing, Ended
<1>14. \A q \in Req \ {r} : pc[q] \in AddingStars => stars'[KeyOf[q]] = stars[KeyOf[q]]
  BY <1>6, <1>9, OnlyOne, KeyFacts
<1>15. QED BY <1>2, <1>5, <1>8, <1>10, <1>13, <1>14, OneMoves

(* A failed statement or a wait given up. *)
LEMMA AbortStep ==
    ASSUME IInv, NEW r \in Req, Abort(r)
    PROVE  IInv'
  BY RollbackStep DEF Abort, Goto, dbvars, history

(* The server stops: every transaction is rolled back at once. *)
LEMMA CrashStep ==
    ASSUME IInv, Crash
    PROVE  IInv'
<1>1. /\ UNCHANGED <<tab, passed, created, stored, credits, stars>>
      /\ pending' = pending \ InFlight
      /\ writes' = [q \in Req |-> IF q \in InFlight THEN NoWrites ELSE writes[q]]
      /\ pc' = [q \in Req |-> IF q \in InFlight THEN "lost" ELSE pc[q]]
  BY DEF Crash, EndTransaction, dbvars, history
<1>2. ControlOK' BY <1>1 DEF IInv, ControlOK, Steps, Ended
<1>3. UniqueKey' /\ OnlySaved' BY <1>1 DEF IInv, UniqueKey, OnlySaved
<1>4. ASSUME NEW q \in Req PROVE Located(q)'
  <2>1. Located(q) BY DEF IInv
  <2>2. (Backed(q)' <=> Backed(q)) /\ (Duplicate(q)' <=> Duplicate(q)) BY <1>1 DEF Backed, Duplicate
  <2>3. CASE q \in InFlight
    <3>1. pc'[q] = "lost" /\ q \notin pending' /\ writes'[q] = NoWrites BY <1>1, <2>3
    <3>2. QED BY <1>1, <2>1, <2>2, <3>1 DEF Located, BeforeInsert, AfterInsert, AddingStars, Closing, Ended
  <2>4. CASE q \notin InFlight
    <3>1. pc'[q] = pc[q] /\ (q \in pending' <=> q \in pending) /\ writes'[q] = writes[q] BY <1>1, <2>4
    <3>2. QED BY <1>1, <2>1, <2>2, <3>1 DEF Located, Lessonly, Kind
  <2>5. QED BY <2>3, <2>4
<1>5. QED BY <1>2, <1>3, <1>4 DEF IInv

(* Every step of the endpoints, and a stop of the server, preserves the invariant. *)
LEMMA NextIInv == IInv /\ [Next]_vars => IInv'
<1> SUFFICES ASSUME IInv, [Next]_vars PROVE IInv' OBVIOUS
<1>1. ASSUME NEW r \in Req, Receive(r) \/ Step(r) \/ Timeout(r) \/ Fail(r) PROVE IInv'
  <2>1. CASE Receive(r) BY <2>1, ReceiveStep
  <2>2. CASE Step(r)
    <3>1. CASE Begin(r) BY <3>1, BeginStep
    <3>2. CASE Find(r) BY <3>2, FindStep
    <3>3. CASE Insert(r) BY <3>3, InsertStep
    <3>4. CASE WriteTotal(r) BY <3>4, WriteTotalStep
    <3>5. CASE Commit(r) BY <3>5, CommitStep
    <3>6. CASE Recover(r) BY <3>6, RecoverStep
    <3>7. CASE WriteStars(r) BY <3>7, WriteStarsStep
    <3>8. QED BY <2>2, <3>1, <3>2, <3>3, <3>4, <3>5, <3>6, <3>7, QuietSteps DEF Step
  <2>3. CASE Timeout(r) \/ Fail(r) BY <2>3, AbortStep DEF Timeout, Fail
  <2>4. QED BY <1>1, <2>1, <2>2, <2>3
<1>2. CASE Crash BY <1>2, CrashStep
<1>3. CASE UNCHANGED vars
  <2>1. UNCHANGED <<pc, tab, passed, created, pending, writes, stored, credits, stars>>
    BY <1>3 DEF vars, txvars, dbvars, history
  <2>2. ControlOK' /\ UniqueKey' /\ OnlySaved' BY <2>1 DEF IInv, ControlOK, UniqueKey, OnlySaved
  <2>3. ASSUME NEW q \in Req PROVE Located(q)'
    BY <2>1 DEF IInv, Located, Backed, Duplicate, Lessonly, Kind
  <2>4. QED BY <2>2, <2>3 DEF IInv
<1>4. QED BY <1>1, <1>2, <1>3 DEF Next

(***************************************************************************)
(* The inductive invariant holds throughout.                               *)
(***************************************************************************)
THEOREM AlwaysIInv == Spec => []IInv
<1>1. Init => IInv BY InitIInv
<1>2. IInv /\ [Next]_vars => IInv' BY NextIInv
<1>3. QED BY <1>1, <1>2, PTL DEF Spec

(***************************************************************************)
(* A re-sent practice or lesson quiz result is never refused as a conflict *)
(* (the recovery of createlessonpracticeprogress and                       *)
(* createlessonquizprogress), however many requests there are.             *)
(***************************************************************************)
THEOREM ReplaysNeverConflict == Spec => []ReplayNeverConflicts
<1>1. IInv => ReplayNeverConflicts BY DEF IInv, Located, ReplayNeverConflicts
<1>2. QED BY <1>1, AlwaysIInv, PTL

-----------------------------------------------------------------------------
(* The abstract state, as the refinement mapping sees it. *)
Saved    == {KeyOf[s] : s \in stored}
Answered == {r \in Req : pc[r] = "ok"}

(* A step that stores nothing, adds nothing and acknowledges nobody is a stutter of ResultOnce. *)
LEMMA Stutters ==
    ASSUME UNCHANGED <<stored, credits, stars>>, \A r \in Req : pc'[r] = "ok" <=> pc[r] = "ok"
    PROVE  UNCHANGED Once!vars
<1>1. Saved' = Saved /\ Answered' = Answered BY DEF Saved, Answered
<1>2. QED BY <1>1 DEF Once!vars, Saved, Answered

(* Every step of one request but the commit, the stars and the reply stutters. *)
LEMMA OtherSteps ==
    ASSUME IInv, NEW r \in Req,
           \/ AskPassOld(r) \/ AskTried(r) \/ AskOld(r) \/ AskNewest(r) \/ SumHeld(r)
           \/ insertquestion(r) \/ ReadTotal(r) \/ setstudentactive(r) \/ ReadStars(r)
           \/ FindDaily(r) \/ WriteDaily(r) \/ Receive(r) \/ Begin(r) \/ Find(r) \/ Insert(r)
           \/ WriteTotal(r) \/ Recover(r) \/ Timeout(r) \/ Fail(r)
    PROVE  UNCHANGED Once!vars
<1>1. PICK step \in Steps \ {"ok"} : pc' = [pc EXCEPT ![r] = step]
  <2>1. CASE AskPassOld(r) \/ AskTried(r) \/ AskOld(r) \/ AskNewest(r) \/ SumHeld(r)
    BY <2>1 DEF AskPassOld, AskTried, AskOld, AskNewest, SumHeld, Asks, Goto, Steps, NeedsConnection
  <2>2. CASE insertquestion(r) \/ ReadTotal(r) \/ setstudentactive(r) \/ ReadStars(r) \/ FindDaily(r) \/ WriteDaily(r)
    BY <2>2 DEF insertquestion, Rewarding, ReadTotal, setstudentactive, ReadStars, FindDaily, WriteDaily,
                Goto, Steps, NeedsConnection
  <2>3. CASE Receive(r) \/ Begin(r) \/ Find(r) \/ Insert(r) \/ WriteTotal(r) \/ Recover(r)
    BY <2>3 DEF Receive, Begin, Rewarding, Find, Insert, WriteTotal, Recover, Goto, Steps, NeedsConnection, Ended
  <2>4. CASE Timeout(r) \/ Fail(r) BY <2>4 DEF Timeout, Fail, Abort, Goto, Steps, Ended
  <2>5. QED BY <2>1, <2>2, <2>3, <2>4
<1>2. pc[r] # "ok"
  <2>1. CASE Timeout(r) \/ Fail(r) BY <2>1 DEF Timeout, Fail, InFlight, Ended
  <2>2. CASE ~(Timeout(r) \/ Fail(r))
    BY <2>2 DEF AskPassOld, AskTried, AskOld, AskNewest, SumHeld, Asks, insertquestion, ReadTotal, setstudentactive,
                ReadStars, FindDaily, WriteDaily, Receive, Begin, Find, Insert, WriteTotal, Recover
  <2>3. QED BY <2>1, <2>2
<1>3. \A q \in Req : pc'[q] = "ok" <=> pc[q] = "ok" BY <1>1, <1>2 DEF IInv, ControlOK
<1>4. UNCHANGED <<stored, credits, stars>>
  BY DEF AskPassOld, AskTried, AskOld, AskNewest, SumHeld, Asks, insertquestion, ReadTotal, setstudentactive,
         ReadStars, FindDaily, WriteDaily, Receive, Begin, Find, Insert, WriteTotal, Recover, Timeout, Fail, Abort,
         txvars, dbvars, history
<1>5. QED BY <1>3, <1>4, Stutters

(* The commit of a new row saves the result; any other commit stutters. *)
LEMMA CommitSaves ==
    ASSUME IInv, NEW r \in Req, Commit(r)
    PROVE  Once!Save(KeyOf[r]) \/ UNCHANGED Once!vars
<1>1. pc[r] = "commit" /\ Located(r) BY DEF Commit, IInv
<1>2. /\ stored' = stored \cup (pending \cap {r}) /\ UNCHANGED stars
      /\ pc' = [pc EXCEPT ![r] = AfterCommit(r)] /\ AfterCommit(r) # "ok"
      /\ credits' = IF r \notin passed /\ writes[r] # NoWrites THEN [credits EXCEPT ![KeyOf[r]] = @ + 1] ELSE credits
  BY DEF Commit, AfterCommit, Goto
<1>3. \A q \in Req : pc'[q] = "ok" <=> pc[q] = "ok" BY <1>1, <1>2 DEF IInv, ControlOK
<1>4. CASE r \notin pending
  <2>1. stored' = stored /\ credits' = credits BY <1>1, <1>2, <1>4 DEF Located
  <2>2. QED BY <1>2, <1>3, <2>1, Stutters
<1>5. CASE r \in pending
  <2>1. r \notin stored BY <1>1 DEF Located, AddingStars, Closing, Ended
  <2>2. KeyOf[r] \notin Saved BY <1>5, <2>1 DEF Saved, IInv, UniqueKey
  <2>3. Saved' = Saved \cup {KeyOf[r]} BY <1>2, <1>5 DEF Saved
  <2>4. credits[KeyOf[r]] = 0 BY <2>2, KeyFacts DEF IInv, OnlySaved, Saved
  <2>5. credits' = [credits EXCEPT ![KeyOf[r]] = 1] \/ credits' = credits
    BY <1>2, <2>4, KeyFacts DEF IInv, ControlOK
  <2>6. Answered' = Answered BY <1>3 DEF Answered
  <2>7. QED BY <1>2, <2>2, <2>3, <2>5, <2>6 DEF Once!Save, Saved, Answered
<1>6. QED BY <1>4, <1>5

(* Adding the stars to a table is a star step; to a missing row, a stutter. *)
LEMMA StarsOnce ==
    ASSUME IInv, NEW r \in Req, WriteStars(r)
    PROVE  Once!Star(KeyOf[r], tab[r]) \/ UNCHANGED Once!vars
<1>1. /\ r \in stored /\ tab[r] \in Tables /\ stars[KeyOf[r]][tab[r]] = 0
      /\ stars' = stars \/ stars' = [stars EXCEPT ![KeyOf[r]][tab[r]] = 1]
  BY StarsAdded
<1>2. UNCHANGED <<stored, credits>> BY DEF WriteStars
<1>3. \A q \in Req : pc'[q] = "ok" <=> pc[q] = "ok" BY DEF WriteStars, Goto, IInv, ControlOK
<1>4. CASE stars' = stars BY <1>2, <1>3, <1>4, Stutters
<1>5. CASE stars' = [stars EXCEPT ![KeyOf[r]][tab[r]] = 1]
  <2>1. KeyOf[r] \in Saved /\ Saved' = Saved /\ Answered' = Answered BY <1>1, <1>2, <1>3 DEF Saved, Answered
  <2>2. QED BY <1>1, <1>2, <1>5, <2>1 DEF Once!Star, Saved, Answered
<1>6. QED BY <1>1, <1>4, <1>5

(* The reply acknowledges. *)
LEMMA ReplyAnswers ==
    ASSUME IInv, NEW r \in Req, Reply(r)
    PROVE  Once!Answer(r)
<1>1. pc[r] = "reply" /\ Located(r) BY DEF Reply, IInv
<1>2. UNCHANGED <<stored, credits, stars>> /\ pc' = [pc EXCEPT ![r] = "ok"] BY DEF Reply, Goto, dbvars, history
<1>3. r \notin Answered /\ Answered' = Answered \cup {r} BY <1>1, <1>2 DEF Answered, IInv, ControlOK
<1>4. PICK s \in stored : ActivityOf[s] = ActivityOf[r] BY <1>1 DEF Located, Closing, Backed
<1>5. s \in Req /\ KeyOf[s] \in Saved /\ Saved' = Saved BY <1>2, <1>4 DEF Saved, IInv, ControlOK
<1>6. QED BY <1>2, <1>3, <1>4, <1>5 DEF Once!Answer, Saved, Answered

(* Every step maps to a step of ResultOnce or to a stutter. *)
LEMMA NextOnce == IInv /\ [Next]_vars => [Once!Next]_(Once!vars)
<1> SUFFICES ASSUME IInv, [Next]_vars PROVE Once!Next \/ UNCHANGED Once!vars OBVIOUS
<1>1. ASSUME NEW r \in Req, Receive(r) \/ Step(r) \/ Timeout(r) \/ Fail(r) PROVE Once!Next \/ UNCHANGED Once!vars
  <2>1. CASE Commit(r) BY <2>1, CommitSaves, KeyFacts DEF Once!Next
  <2>2. CASE WriteStars(r) BY <2>2, StarsOnce, StarsAdded, KeyFacts DEF Once!Next
  <2>3. CASE Reply(r) BY <2>3, ReplyAnswers DEF Once!Next
  <2>4. QED BY <1>1, <2>1, <2>2, <2>3, OtherSteps DEF Step
<1>2. CASE Crash
  <2>1. UNCHANGED <<stored, credits, stars>> BY <1>2 DEF Crash, dbvars, history
  <2>2. \A q \in Req : pc'[q] = "ok" <=> pc[q] = "ok" BY <1>2 DEF Crash, InFlight, Ended
  <2>3. QED BY <2>1, <2>2, Stutters
<1>3. CASE UNCHANGED vars
  <2>1. UNCHANGED <<stored, credits, stars, pc>> BY <1>3 DEF vars, dbvars, history
  <2>2. QED BY <2>1, Stutters
<1>4. QED BY <1>1, <1>2, <1>3 DEF Next

(***************************************************************************)
(* The result endpoints implement ResultOnce for any number of requests,   *)
(* copies, activities, connections, failed statements and crashes: a       *)
(* result is stored once, its points and stars are added at most once, and *)
(* only what is stored is acknowledged.                                    *)
(***************************************************************************)
THEOREM EndpointsExactlyOnce == Spec => ExactlyOnce
<1>1. Init => Once!Init
  <2> SUFFICES ASSUME Init PROVE Once!Init OBVIOUS
  <2>1. Saved = {} /\ Answered = {} BY DEF Init, Saved, Answered
  <2>2. QED BY <2>1 DEF Init, Once!Init, Saved, Answered
<1>2. IInv /\ [Next]_vars => [Once!Next]_(Once!vars) BY NextOnce
<1>3. QED BY <1>1, <1>2, AlwaysIInv, PTL DEF Spec, ExactlyOnce, Once!Spec

-----------------------------------------------------------------------------
(* Among finitely many requests some is started last, and some first. *)
LEMMA NewestIn ==
    ASSUME NEW ss, ss \subseteq Req, ss # {}
    PROVE  /\ Newest(ss) \in ss /\ \A u \in ss : StartOf[u] <= StartOf[Newest(ss)]
           /\ Oldest(ss) \in ss
<1>1. IsFiniteSet(ss) BY SubmissionAssumption, FS_Subset
<1>2. \A s \in Req : StartOf[s] \in Nat BY SubmissionAssumption
<1>3. \E s \in ss : \A u \in ss : StartOf[u] <= StartOf[s]
  <2> DEFINE Latest(w) == \E s \in w : \A u \in w : StartOf[u] <= StartOf[s]
             B == {w \in SUBSET ss : w # {} /\ ~Latest(w)}
  <2>1. ASSUME B # {} PROVE FALSE
    <3>1. PICK w \in B : \A v \in B : v \subseteq w => v = w
      <4>1. B \subseteq SUBSET ss OBVIOUS
      <4> HIDE DEF B
      <4>2. QED BY <1>1, <2>1, <4>1, SmallestSubset
    <3>2. PICK x \in w : TRUE BY <3>1
    <3>3. w \ {x} \notin B
      <4>1. w \ {x} # w BY <3>2
      <4> HIDE DEF B
      <4>2. QED BY <3>1, <4>1
    <3>4. w \subseteq Req BY <3>1
    <3>5. CASE w \ {x} = {} BY <1>2, <3>1, <3>2, <3>4, <3>5
    <3>6. CASE w \ {x} # {}
      <4>1. PICK s \in w \ {x} : \A u \in w \ {x} : StartOf[u] <= StartOf[s] BY <3>1, <3>3, <3>6
      <4>2. CASE StartOf[x] <= StartOf[s] BY <3>1, <4>1, <4>2
      <4>3. CASE ~(StartOf[x] <= StartOf[s]) BY <1>2, <3>1, <3>2, <3>4, <4>1, <4>3
      <4>4. QED BY <4>2, <4>3
    <3>7. QED BY <3>5, <3>6
  <2>2. QED BY <2>1
<1>4. \E s \in ss : \A u \in ss : StartOf[u] >= StartOf[s]
  <2> DEFINE T == {StartOf[s] : s \in ss}
  <2>1. T \subseteq Nat /\ T # {} BY <1>2
  <2>2. PICK n \in T : \A m \in T : n <= m
    <3> HIDE DEF T
    <3>1. QED BY <2>1, LeastNumber
  <2>3. PICK s \in ss : n = StartOf[s] BY <2>2
  <2>4. QED BY <1>2, <2>2, <2>3
<1>5. QED BY <1>3, <1>4 DEF Newest, Oldest

(* The request's place decides what its variables must hold. *)
LocTyped(r) ==
    /\ pc[r] \in {"write", "starred"} =>
          loc[r].id \in Req /\ (loc[r].seen # NoRow => agg[tab[r]][loc[r].id] # NoRow)
    /\ pc[r] \in {"dheld", "dwrite"} => loc[r].id \in Req
    /\ pc[r] = "dwrite" => loc[r].add \in Nat
    /\ pc[r] \in AddingStars /\ tab[r] # FirstTable(r) => loc[r].add \in Nat

TypeInv == TypeOK /\ \A r \in Req : LocTyped(r)

(* A row is not the missing row. *)
LEMMA RowFacts ==
    ASSUME NEW x \in ProgressRow
    PROVE  x # NoRow
  BY DEF ProgressRow, NoRow

(* A missing row counts as one with no points. *)
LEMMA RowFields ==
    ASSUME NEW x \in Row
    PROVE  x.points \in Int /\ x.completed \in BOOLEAN
<1>1. CASE x \in ProgressRow BY <1>1 DEF ProgressRow
<1>2. CASE x = NoRow BY <1>2 DEF NoRow
<1>3. QED BY <1>1, <1>2 DEF Row

(* What a new attempt is stored as. *)
LEMMA AttemptTyped ==
    ASSUME NEW r \in Req, NEW pct \in Nat
    PROVE  NewAttempt(r, pct) \in Attempt
<1>1. Points(r) \in Nat BY SubmissionAssumption DEF Points
<1>2. AttemptPoints(r, pct >= COMPLETED_PERCENTAGE) \in Nat BY <1>1 DEF AttemptPoints, lessonQuizAttemptPoints
<1>3. calculatescore(pct) \in 0..3 BY DEF calculatescore
<1>4. QED BY <1>2, <1>3 DEF NewAttempt, Attempt

(* The old points of an activity are those of a stored row, or none. *)
LEMMA OldTyped ==
    ASSUME TypeOK, NEW a, NEW new \in Nat
    PROVE  /\ getoldpoints(a, new) \in Int /\ getpassoldpoints(a, new) \in Int
           /\ Delta(new, getoldpoints(a, new)) \in Int /\ Delta(new, getpassoldpoints(a, new)) \in Int
<1>1. ASSUME NEW ss, ss \subseteq stored, NEW s, ss # {} => s \in ss PROVE OldPoints(ss, s, new) \in Int
  BY <1>1 DEF TypeOK, OldPoints, Attempt, NoOld
<1>2. Rows(a) \subseteq stored /\ stored \subseteq Req BY DEF Rows, TypeOK
<1>3. getoldpoints(a, new) \in Int BY <1>1, <1>2, NewestIn DEF getoldpoints
<1>4. getpassoldpoints(a, new) \in Int
  <2> DEFINE ps == {s \in Rows(a) : row[s].pass}
  <2>1. ps \subseteq stored /\ ps \subseteq Req BY <1>2
  <2>2. ps # {} => Oldest(ps) \in ps BY <2>1, NewestIn
  <2>3. OldPoints(ps, Oldest(ps), new) \in Int BY <1>1, <2>1, <2>2
  <2>4. QED BY <2>3 DEF getpassoldpoints
<1>5. \A old \in Int : Delta(new, old) \in Int BY DEF Delta
<1>6. QED BY <1>3, <1>4, <1>5

(* What the attempts hold is a number of points. *)
LEMMA HeldTyped == ASSUME TypeOK PROVE HeldPoints \in Nat
<1> DEFINE f == [a \in Activities |-> IF hasTried(a) THEN row[Newest(Rows(a))].points ELSE 0]
<1>1. \A a \in Activities : f[a] \in Nat
  <2>1. ASSUME NEW a \in Activities, Rows(a) # {} PROVE row[Newest(Rows(a))].points \in Nat
    <3>1. Rows(a) \subseteq Req BY DEF Rows, TypeOK
    <3>2. Newest(Rows(a)) \in Req BY <2>1, <3>1, NewestIn
    <3>3. QED BY <3>2 DEF TypeOK, Attempt
  <2>2. QED BY <2>1 DEF hasTried
<1>2. OfKinds({"practice", "quiz"}) \subseteq Activities BY DEF OfKinds
<1>3. IsFiniteSet(OfKinds({"practice", "quiz"})) BY <1>2, SubmissionAssumption, FS_Subset
<1> HIDE DEF f
<1>4. SumFunctionOnSet(f, OfKinds({"practice", "quiz"})) \in Nat BY <1>1, <1>2, <1>3, SumNat
<1>5. QED BY <1>4 DEF HeldPoints, f

(* A progress row after a reward. *)
LEMMA TotalTyped ==
    ASSUME NEW t \in Tables, NEW seen \in Row, NEW d \in Int
    PROVE  /\ TotalAfter(t, seen, d) \in ProgressRow
           /\ LandedPoints(seen, d, TotalOf[t]) \in Int
<1>1. TotalOf[t] \in Nat \ {0} /\ Passing \in Nat BY SubmissionAssumption
<1>2. seen # NoRow => seen \in ProgressRow BY DEF Row
<1>3. NoRow.points = 0 BY DEF NoRow
<1>4. seen.points \in Int BY <1>2, <1>3 DEF ProgressRow
<1>5. AddPoints(seen.points, d) \in Int BY <1>4 DEF AddPoints
<1>6. Overflow(seen, d, TotalOf[t]) \in Int BY <1>1, <1>5 DEF Overflow
<1>7. Positive(d) \in Int /\ 0 \in Nat BY DEF Positive
<1>8. \A p \in Int : LessonCompleted(p, Passing, TotalOf[t]) \in BOOLEAN /\ percentCompleted(progressPercent(p, TotalOf[t])) \in BOOLEAN
  BY DEF LessonCompleted, percentCompleted
<1>9. LessonRow(seen, d, Passing, TotalOf[t]) \in ProgressRow
  <2>1. CASE seen = NoRow BY <1>7, <1>8, <2>1 DEF LessonRow, NewLessonRow, ProgressRow
  <2>2. CASE seen # NoRow
    <3> DEFINE p == AddPoints(seen.points, d) - Overflow(seen, d, TotalOf[t])
    <3>1. p \in Int BY <1>5, <1>6
    <3>2. LessonRow(seen, d, Passing, TotalOf[t]) = [seen EXCEPT !.points = p, !.completed = LessonCompleted(p, Passing, TotalOf[t])]
      BY <2>2 DEF LessonRow
    <3> HIDE DEF p
    <3>3. QED BY <1>2, <1>8, <2>2, <3>1, <3>2 DEF ProgressRow
  <2>3. QED BY <2>1, <2>2
<1>10. TotalRow(seen, d, TotalOf[t]) \in ProgressRow
  <2>1. CASE seen = NoRow BY <1>7, <1>8, <2>1 DEF TotalRow, ProgressRow
  <2>2. CASE seen # NoRow BY <1>2, <1>5, <1>8, <2>2 DEF TotalRow, ProgressRow
  <2>3. QED BY <2>1, <2>2
<1>11. LandedPoints(seen, d, TotalOf[t]) \in Int BY <1>6 DEF LandedPoints, Positive
<1>12. QED BY <1>9, <1>10, <1>11 DEF TotalAfter

(* No progress row goes. *)
RowsStay == \A t \in Tables, s \in Req : agg[t][s] # NoRow => agg'[t][s] # NoRow

(* A step of one request leaves the others with what they hold. *)
LEMMA OthersHold ==
    ASSUME TypeInv, TypeOK', NEW r \in Req, LocTyped(r)', RowsStay,
           \A q \in Req \ {r} : pc'[q] = pc[q] /\ loc'[q] = loc[q] /\ tab'[q] = tab[q]
    PROVE  TypeInv'
<1>1. ASSUME NEW q \in Req, q # r PROVE LocTyped(q)'
  <2>1. LocTyped(q) BY DEF TypeInv
  <2>2. tab[q] \in Tables BY DEF TypeInv, TypeOK
  <2>3. QED BY <1>1, <2>1, <2>2 DEF LocTyped, RowsStay, FirstTable, Kind
<1>2. QED BY <1>1 DEF TypeInv

(* A step that changes only the request's place and variables. *)
LEMMA HoldsLocally ==
    ASSUME TypeInv, NEW r \in Req, NEW step \in Steps, pc' = [pc EXCEPT ![r] = step],
           NEW new \in Local, loc' = [loc EXCEPT ![r] = new],
           UNCHANGED <<tab, passed, created, faults>>, UNCHANGED txvars, UNCHANGED dbvars, UNCHANGED history,
           LocTyped(r)'
    PROVE  TypeInv'
<1>1. TypeOK' BY DEF TypeInv, TypeOK, txvars, dbvars, history
<1>2. RowsStay BY DEF RowsStay, dbvars
<1>3. \A q \in Req \ {r} : pc'[q] = pc[q] /\ loc'[q] = loc[q] /\ tab'[q] = tab[q] BY DEF TypeInv, TypeOK
<1>4. QED BY <1>1, <1>2, <1>3, OthersHold

(* The reads before the transaction, and the sum for the row of the day. *)
LEMMA AskTypes ==
    ASSUME TypeInv, NEW r \in Req, AskPassOld(r) \/ AskTried(r) \/ AskOld(r) \/ AskNewest(r) \/ SumHeld(r)
    PROVE  TypeInv'
<1>0. TypeOK /\ loc[r] \in Local /\ LocTyped(r) /\ pc \in [Req -> Steps] /\ loc \in [Req -> Local]
  BY DEF TypeInv, TypeOK
<1>1. ASSUME NEW at, NEW step \in {"begin", "old", "newest", "dwrite"}, NEW new \in Local, Asks(r, at, step, new),
             step = "dwrite" => new.add \in Nat /\ new.id \in Req
      PROVE  TypeInv'
  <2>1. step \in Steps BY DEF Steps, NeedsConnection
  <2>2. pc' = [pc EXCEPT ![r] = step] /\ loc' = [loc EXCEPT ![r] = new] BY <1>1 DEF Asks, Goto
  <2>3. pc'[r] = step /\ loc'[r] = new BY <1>0, <2>2
  <2>4. LocTyped(r)' BY <1>1, <2>3 DEF LocTyped, AddingStars
  <2>5. QED BY <1>1, <2>1, <2>2, <2>4, HoldsLocally DEF Asks
<1>2. CASE AskPassOld(r)
  <2> DEFINE a == ActivityOf[r]
             old == IF Rule /\ Kind(r) = "quiz" THEN getpassoldpoints(a, Points(r)) ELSE getoldpoints(a, Points(r))
             new == [loc[r] EXCEPT !.old = old, !.due = old # NoOld, !.add = Delta(Points(r), old)]
  <2>1. Points(r) \in Nat BY SubmissionAssumption DEF Points
  <2>2. old \in Int /\ Delta(Points(r), old) \in Int BY <1>0, <2>1, OldTyped
  <2>3. Asks(r, "passold", "begin", new) BY <1>2 DEF AskPassOld
  <2> HIDE DEF old
  <2>4. new \in Local BY <1>0, <2>2 DEF Local
  <2> HIDE DEF new
  <2>5. QED BY <1>1, <2>3, <2>4
<1>3. CASE AskTried(r)
  <2> DEFINE new == [loc[r] EXCEPT !.due = ~hasTried(ActivityOf[r])]
  <2>1. new \in Local BY <1>0 DEF Local, hasTried
  <2>2. Asks(r, "tried", "old", new) BY <1>3 DEF AskTried
  <2> HIDE DEF new
  <2>3. QED BY <1>1, <2>1, <2>2
<1>4. CASE AskOld(r)
  <2> DEFINE at == NewAttempt(r, loc[r].pct)
             old == getoldpoints(ActivityOf[r], at.points)
             step == IF Rule /\ Kind(r) = "quiz" /\ ~at.pass THEN "newest" ELSE "begin"
             new == [loc[r] EXCEPT !.old = old, !.due = @ \/ old # NoOld, !.add = Delta(at.points, old)]
  <2>1. loc[r].pct \in Nat /\ loc[r].due \in BOOLEAN BY <1>0 DEF Local
  <2>2. at.points \in Nat BY <2>1, AttemptTyped DEF Attempt
  <2>3. Asks(r, "old", step, new) BY <1>4 DEF AskOld
  <2> HIDE DEF at
  <2>4. old \in Int /\ Delta(at.points, old) \in Int BY <1>0, <2>2, OldTyped
  <2>5. step \in {"begin", "newest"} OBVIOUS
  <2> HIDE DEF old
  <2>6. new \in Local BY <1>0, <2>1, <2>4 DEF Local
  <2> HIDE DEF new, step
  <2>7. QED BY <1>1, <2>3, <2>5, <2>6
<1>5. CASE AskNewest(r)
  <2> DEFINE rs == Rows(ActivityOf[r])
             stale == rs # {} /\ StartOf[Newest(rs)] > StartOf[r]
             new == [loc[r] EXCEPT !.due = @ /\ ~stale]
  <2>1. Asks(r, "newest", "begin", new) BY <1>5 DEF AskNewest
  <2> HIDE DEF stale
  <2>2. new \in Local BY <1>0 DEF Local
  <2> HIDE DEF new
  <2>3. QED BY <1>1, <2>1, <2>2
<1>6. CASE SumHeld(r)
  <2> DEFINE new == [loc[r] EXCEPT !.add = HeldPoints]
  <2>1. HeldPoints \in Nat BY <1>0, HeldTyped
  <2>2. Asks(r, "dheld", "dwrite", new) BY <1>6 DEF SumHeld
  <2>3. loc[r].id \in Req BY <1>0, <2>2 DEF Asks, LocTyped
  <2>4. new \in Local /\ new.add \in Nat /\ new.id \in Req BY <1>0, <2>1, <2>3 DEF Local
  <2> HIDE DEF new
  <2>5. QED BY <1>1, <2>2, <2>4
<1>7. QED BY <1>2, <1>3, <1>4, <1>5, <1>6

(* A read of a progress row, or of the row of the day, and the acknowledgement. *)
LEMMA ReadTypes ==
    ASSUME TypeInv, NEW r \in Req, ReadTotal(r) \/ ReadStars(r) \/ FindDaily(r) \/ Reply(r)
    PROVE  TypeInv'
<1>0. /\ loc[r] \in Local /\ LocTyped(r) /\ pc \in [Req -> Steps] /\ loc \in [Req -> Local] /\ tab[r] \in Tables
      /\ \A t \in Tables, q \in Req : agg[t][q] \in Row
  BY DEF TypeInv, TypeOK
<1>1. ASSUME NEW step \in Steps, NEW new \in Local, pc' = [pc EXCEPT ![r] = step], loc' = [loc EXCEPT ![r] = new],
             UNCHANGED <<tab, passed, created, faults>>, UNCHANGED txvars, UNCHANGED dbvars, UNCHANGED history,
             step \in {"write", "starred", "dheld", "dwrite"} => new.id \in Req,
             step \in {"write", "starred"} => (new.seen # NoRow => agg[tab[r]][new.id] # NoRow),
             step \notin {"dwrite", "stars"},
             step = "starred" => pc[r] = "stars" /\ new.add = loc[r].add
      PROVE  TypeInv'
  <2>1. pc'[r] = step /\ loc'[r] = new /\ tab' = tab /\ agg' = agg BY <1>0, <1>1 DEF dbvars
  <2>2. LocTyped(r)' BY <1>0, <1>1, <2>1 DEF LocTyped, AddingStars, FirstTable, Kind
  <2>3. QED BY <1>1, <2>2, HoldsLocally
<1>2. ASSUME NEW step \in {"write", "starred"}, Sees(r, tab[r]), pc' = [pc EXCEPT ![r] = step],
             UNCHANGED <<tab, passed, created, faults>>, UNCHANGED txvars, UNCHANGED dbvars, UNCHANGED history,
             step = "starred" => pc[r] = "stars"
      PROVE  TypeInv'
  <2>1. PICK seen, id : /\ loc' = [loc EXCEPT ![r].seen = seen, ![r].id = id]
                        /\ \/ seen = NoRow /\ id = r
                           \/ id \in Req /\ agg[tab[r]][id] # NoRow /\ seen = agg[tab[r]][id]
    <3>1. CASE loc' = [loc EXCEPT ![r].seen = NoRow, ![r].id = r] BY <3>1
    <3>2. CASE \E q \in {q \in Req : agg[tab[r]][q] # NoRow} : loc' = [loc EXCEPT ![r].seen = agg[tab[r]][q], ![r].id = q]
      BY <3>2
    <3>3. QED BY <1>2, <3>1, <3>2 DEF Sees
  <2> DEFINE new == [loc[r] EXCEPT !.seen = seen, !.id = id]
  <2>2. id \in Req /\ seen \in Row BY <1>0, <2>1 DEF Row
  <2>3. new \in Local /\ new.id = id /\ new.seen = seen /\ new.add = loc[r].add BY <1>0, <2>2 DEF Local
  <2>4. loc' = [loc EXCEPT ![r] = new] BY <1>0, <2>1
  <2> HIDE DEF new
  <2>5. step \in Steps BY DEF Steps, NeedsConnection
  <2>6. QED BY <1>1, <1>2, <2>1, <2>2, <2>3, <2>4, <2>5
<1>3. CASE ReadTotal(r) BY <1>2, <1>3 DEF ReadTotal, Goto
<1>4. CASE ReadStars(r) BY <1>2, <1>4 DEF ReadStars, Goto
<1>5. CASE FindDaily(r)
  <2>1. PICK id \in Req : loc' = [loc EXCEPT ![r].id = id] BY <1>5 DEF FindDaily
  <2> DEFINE new == [loc[r] EXCEPT !.id = id]
  <2>2. new \in Local /\ new.id = id BY <1>0 DEF Local
  <2>3. loc' = [loc EXCEPT ![r] = new] BY <1>0, <2>1
  <2>4. pc' = [pc EXCEPT ![r] = "dheld"] /\ "dheld" \in Steps BY <1>5 DEF FindDaily, Goto, Steps, NeedsConnection
  <2> HIDE DEF new
  <2>5. QED BY <1>1, <1>5, <2>2, <2>3, <2>4 DEF FindDaily
<1>6. CASE Reply(r)
  <2>1. Blank \in Local BY DEF Blank, Local, NoOld, Row
  <2>2. "ok" \in Steps BY DEF Steps, Ended
  <2>3. QED BY <1>1, <1>6, <2>1, <2>2 DEF Reply, Goto
<1>7. QED BY <1>3, <1>4, <1>5, <1>6

(* Steps that leave the request's variables and every progress row alone. *)
LEMMA PlaceTypes ==
    ASSUME TypeInv, NEW r \in Req,
           \/ Begin(r) \/ Find(r) \/ Recover(r) \/ Insert(r) \/ insertquestion(r) \/ setstudentactive(r) \/ WriteDaily(r)
    PROVE  TypeInv'
<1>0. /\ loc[r] \in Local /\ LocTyped(r) /\ pc \in [Req -> Steps] /\ loc \in [Req -> Local] /\ tab[r] \in Tables
      /\ pending \subseteq Req /\ row \in [Req -> Attempt]
      /\ writes \in [Req -> [Tables -> [id : Req, row : Row] \cup {NoWrite}]]
      /\ open \subseteq Req /\ activated \subseteq Req /\ created \subseteq Req
      /\ daily \in [Req -> Nat \cup {NoDaily}]
  BY DEF TypeInv, TypeOK
<1> DEFINE Places == {"read", "active", "find", "insert", "dfind", "conflict", "answers", "recover", "commit", "reply"}
<1>1. PICK step \in Places : pc' = [pc EXCEPT ![r] = step]
  <2>1. CASE Begin(r)
    <3> DEFINE step == IF r \in passed THEN Rewarding(r) ELSE IF Lessonly(r) THEN "find" ELSE "insert"
    <3>1. pc' = [pc EXCEPT ![r] = step] BY <2>1 DEF Begin, Goto
    <3>2. step \in Places BY DEF Rewarding
    <3> HIDE DEF step, Places
    <3>3. QED BY <3>1, <3>2
  <2>2. CASE Find(r) \/ Recover(r) \/ Insert(r) BY <2>2 DEF Find, Recover, Insert, Goto
  <2>3. CASE insertquestion(r) BY <2>3 DEF insertquestion, Rewarding, Goto
  <2>4. CASE setstudentactive(r) \/ WriteDaily(r) BY <2>4 DEF setstudentactive, WriteDaily, Goto
  <2>5. QED BY <2>1, <2>2, <2>3, <2>4
<1>2. UNCHANGED <<loc, tab, passed, stored, agg, actives, faults>> /\ UNCHANGED history
  BY DEF Begin, Find, Recover, Insert, insertquestion, setstudentactive, WriteDaily, txvars, dbvars
<1>3. created' \subseteq Req
  BY <1>0 DEF Begin, Find, Recover, Insert, insertquestion, setstudentactive, WriteDaily, txvars, dbvars
<1>4. open' \subseteq Req /\ pending' \subseteq Req /\ activated' \subseteq Req
  BY <1>0 DEF Begin, Find, Recover, Insert, insertquestion, setstudentactive, WriteDaily, txvars, dbvars, EndTransaction
<1>5. writes' \in [Req -> [Tables -> [id : Req, row : Row] \cup {NoWrite}]]
  <2>1. CASE writes' = writes BY <1>0, <2>1
  <2>2. CASE EndTransaction({r}) BY <1>0, <2>2 DEF EndTransaction, NoWrites
  <2>3. QED BY <2>1, <2>2 DEF Begin, Find, Recover, Insert, insertquestion, setstudentactive, WriteDaily, txvars
<1>6. row' \in [Req -> Attempt]
  <2>1. NewAttempt(r, loc[r].pct) \in Attempt BY <1>0, AttemptTyped DEF Local
  <2>2. [row[r] EXCEPT !.answers = TRUE] \in Attempt BY <1>0 DEF Attempt
  <2>3. \/ row' = row \/ row' = [row EXCEPT ![r] = NewAttempt(r, loc[r].pct)]
        \/ row' = [row EXCEPT ![r] = [row[r] EXCEPT !.answers = TRUE]]
    BY <1>0 DEF Begin, Find, Recover, Insert, insertquestion, setstudentactive, WriteDaily, txvars, dbvars
  <2>4. QED BY <1>0, <2>1, <2>2, <2>3
<1>7. daily' \in [Req -> Nat \cup {NoDaily}]
  <2>1. CASE WriteDaily(r)
    <3>1. loc[r].add \in Nat BY <1>0, <2>1 DEF WriteDaily, LocTyped
    <3>2. QED BY <1>0, <2>1, <3>1 DEF WriteDaily
  <2>2. CASE daily' = daily BY <1>0, <2>2
  <2>3. QED BY <2>1, <2>2 DEF Begin, Find, Recover, Insert, insertquestion, setstudentactive, dbvars
<1>8. pc' \in [Req -> Steps] BY <1>0, <1>1 DEF Steps, NeedsConnection, Ended
<1>9. TypeOK' BY <1>2, <1>3, <1>4, <1>5, <1>6, <1>7, <1>8 DEF TypeInv, TypeOK, history
<1>10. pc'[r] = step BY <1>0, <1>1
<1>11. LocTyped(r)' BY <1>1, <1>10 DEF LocTyped, AddingStars
<1>12. RowsStay BY <1>2 DEF RowsStay
<1>13. \A q \in Req \ {r} : pc'[q] = pc[q] /\ loc'[q] = loc[q] /\ tab'[q] = tab[q] BY <1>0, <1>1, <1>2
<1>14. QED BY <1>9, <1>11, <1>12, <1>13, OthersHold

(* The request arrives, with a result. *)
LEMMA ReceiveTypes ==
    ASSUME TypeInv, NEW r \in Req, Receive(r)
    PROVE  TypeInv'
<1>0. TypeOK BY DEF TypeInv
<1>1. PICK step \in {"passold", "begin", "tried"} : pc' = [pc EXCEPT ![r] = step] BY DEF Receive, Goto
<1>2. \A p \in Percentages : [Blank EXCEPT !.pct = p] \in Local
  <2>1. Blank \in Local BY DEF Blank, Local, NoOld, Row
  <2>2. \A p \in Percentages : p \in Nat BY SubmissionAssumption
  <2>3. QED BY <2>1, <2>2 DEF Local
<1>3. loc' \in [Req -> Local] /\ \A q \in Req \ {r} : loc'[q] = loc[q] BY <1>0, <1>2 DEF Receive, TypeOK
<1>4. tab' = [tab EXCEPT ![r] = FirstTable(r)] /\ passed' \subseteq Req BY <1>0 DEF Receive, TypeOK
<1>5. UNCHANGED <<created, faults>> /\ UNCHANGED txvars /\ UNCHANGED dbvars /\ UNCHANGED history BY DEF Receive
<1>6. step \in Steps BY DEF Steps, NeedsConnection
<1>7. TypeOK' BY <1>0, <1>1, <1>3, <1>4, <1>5, <1>6, FirstTableType DEF TypeOK, txvars, dbvars, history
<1>8. pc'[r] = step BY <1>0, <1>1 DEF TypeOK
<1>9. LocTyped(r)' BY <1>8 DEF LocTyped, AddingStars
<1>10. RowsStay BY <1>5 DEF RowsStay, dbvars
<1>11. \A q \in Req \ {r} : pc'[q] = pc[q] /\ loc'[q] = loc[q] /\ tab'[q] = tab[q] BY <1>0, <1>1, <1>3, <1>4 DEF TypeOK
<1>12. QED BY <1>7, <1>9, <1>10, <1>11, OthersHold

(* A progress row is written, inside the transaction. *)
LEMMA WriteTotalTypes ==
    ASSUME TypeInv, NEW r \in Req, WriteTotal(r)
    PROVE  TypeInv'
<1>0. TypeOK /\ LocTyped(r) /\ loc[r] \in Local /\ tab[r] \in Tables BY DEF TypeInv, TypeOK
<1> DEFINE t == tab[r]
           w == [id |-> loc[r].id, row |-> TotalAfter(t, loc[r].seen, loc[r].add)]
           l == [loc[r] EXCEPT !.add = LandedPoints(loc[r].seen, loc[r].add, TotalOf[t])]
<1>1. loc[r].id \in Req /\ loc[r].seen \in Row /\ loc[r].add \in Int BY <1>0 DEF WriteTotal, LocTyped, Local
<1>2. w \in [id : Req, row : Row] BY <1>0, <1>1, TotalTyped DEF Row
<1>3. l \in Local BY <1>0, <1>1, TotalTyped DEF Local
<1>4. writes' = [writes EXCEPT ![r][t] = w] BY DEF WriteTotal
<1>5. loc' = loc \/ loc' = [loc EXCEPT ![r] = l] BY <1>0 DEF WriteTotal, TypeOK
<1>6. PICK step \in {"active", "read"} : pc' = [pc EXCEPT ![r] = step] BY DEF WriteTotal, Goto
<1>7. tab' = [tab EXCEPT ![r] = NextTable(t)] BY DEF WriteTotal
<1>8. UNCHANGED <<passed, created, open, pending, activated, faults>> /\ UNCHANGED dbvars /\ UNCHANGED history
  BY DEF WriteTotal
<1> HIDE DEF w, l
<1>9. writes' \in [Req -> [Tables -> [id : Req, row : Row] \cup {NoWrite}]]
  BY <1>0, <1>2, <1>4 DEF TypeOK
<1>10. loc' \in [Req -> Local] /\ \A q \in Req \ {r} : loc'[q] = loc[q] BY <1>0, <1>3, <1>5 DEF TypeOK
<1>11. pc' \in [Req -> Steps] /\ tab' \in [Req -> Tables]
  BY <1>0, <1>6, <1>7, TableFacts DEF TypeOK, Steps, NeedsConnection
<1>12. TypeOK' BY <1>0, <1>8, <1>9, <1>10, <1>11 DEF TypeOK, dbvars, history
<1>13. pc'[r] = step BY <1>0, <1>6 DEF TypeOK
<1>14. LocTyped(r)' BY <1>13 DEF LocTyped, AddingStars
<1>15. RowsStay BY <1>8 DEF RowsStay, dbvars
<1>16. \A q \in Req \ {r} : pc'[q] = pc[q] /\ loc'[q] = loc[q] /\ tab'[q] = tab[q]
  BY <1>0, <1>6, <1>7, <1>10 DEF TypeOK
<1>17. QED BY <1>12, <1>14, <1>15, <1>16, OthersHold

(* What the end of some transactions leaves of the others. *)
LEMMA EndTypes ==
    ASSUME TypeOK, NEW rs, EndTransaction(rs)
    PROVE  /\ open' \subseteq Req /\ pending' \subseteq Req /\ activated' \subseteq Req
           /\ writes' \in [Req -> [Tables -> [id : Req, row : Row] \cup {NoWrite}]]
<1>1. NoWrites \in [Tables -> [id : Req, row : Row] \cup {NoWrite}] BY DEF NoWrites
<1>2. QED BY <1>1 DEF TypeOK, EndTransaction

(* A written row stays a row when it is committed. *)
LEMMA CommittedTyped ==
    ASSUME TypeOK, NEW r \in Req, NEW t \in Tables, NEW s \in Req
    PROVE  Committed(r, t, s) \in Row /\ (agg[t][s] # NoRow => Committed(r, t, s) # NoRow)
<1> DEFINE w == writes[r][t]
           a == agg[t][s]
<1>1. a \in Row /\ (w = NoWrite \/ w \in [id : Req, row : Row]) BY DEF TypeOK
<1>2. Committed(r, t, s) = IF w = NoWrite \/ w.id # s THEN a
                           ELSE IF a = NoRow THEN w.row
                           ELSE [a EXCEPT !.points = w.row.points, !.completed = w.row.completed]
  BY DEF Committed
<1> HIDE DEF w, a
<1>3. CASE w = NoWrite \/ w.id # s \/ a = NoRow
  <2>1. (w = NoWrite \/ w.id # s) \/ w \in [id : Req, row : Row] BY <1>1
  <2>2. QED BY <1>1, <1>2, <1>3, <2>1 DEF a
<1>4. CASE ~(w = NoWrite \/ w.id # s \/ a = NoRow)
  <2>1. w.row \in Row /\ a \in ProgressRow BY <1>1, <1>4 DEF Row
  <2>2. w.row.points \in Int /\ w.row.completed \in BOOLEAN BY <2>1, RowFields
  <2>3. Committed(r, t, s) = [a EXCEPT !.points = w.row.points, !.completed = w.row.completed] BY <1>2, <1>4
  <2>4. Committed(r, t, s) \in ProgressRow BY <2>1, <2>2, <2>3 DEF ProgressRow
  <2>5. QED BY <2>4, RowFacts DEF Row
<1>5. QED BY <1>3, <1>4

(* The commit. *)
LEMMA CommitTypes ==
    ASSUME TypeInv, NEW r \in Req, Commit(r)
    PROVE  TypeInv'
<1>0. TypeOK BY DEF TypeInv
<1>1. agg' = [t \in Tables |-> [s \in Req |-> Committed(r, t, s)]] BY DEF Commit
<1>2. agg' \in [Tables -> [Req -> Row]] /\ RowsStay BY <1>0, <1>1, CommittedTyped DEF RowsStay
<1>3. PICK step \in {"reply", "stars", "dfind"} : pc' = [pc EXCEPT ![r] = step] BY DEF Commit, AfterCommit, Goto
<1>4. EndTransaction({r}) /\ tab' = [tab EXCEPT ![r] = FirstTable(r)] /\ UNCHANGED <<loc, passed, created, row, daily, stars, faults>>
  BY DEF Commit
<1>5. stored' \subseteq Req /\ actives' \subseteq Req BY <1>0 DEF Commit, TypeOK
<1>6. credits' \in [Keys -> Nat] BY <1>0, KeyFacts DEF Commit, TypeOK
<1>7. pc' \in [Req -> Steps] /\ tab' \in [Req -> Tables]
  BY <1>0, <1>3, <1>4, FirstTableType DEF TypeOK, Steps, NeedsConnection
<1>8. TypeOK' BY <1>0, <1>2, <1>4, <1>5, <1>6, <1>7, EndTypes DEF TypeOK
<1>9. pc'[r] = step /\ tab'[r] = FirstTable(r) BY <1>0, <1>3, <1>4 DEF TypeOK
<1>10. LocTyped(r)' BY <1>9 DEF LocTyped, FirstTable, Kind
<1>11. \A q \in Req \ {r} : pc'[q] = pc[q] /\ loc'[q] = loc[q] /\ tab'[q] = tab[q] BY <1>0, <1>3, <1>4 DEF TypeOK
<1>12. QED BY <1>2, <1>8, <1>10, <1>11, OthersHold

(* The stars, to one more table. *)
LEMMA WriteStarsTypes ==
    ASSUME TypeInv, NEW r \in Req, WriteStars(r)
    PROVE  TypeInv'
<1>0. TypeOK /\ LocTyped(r) /\ loc[r] \in Local /\ tab[r] \in Tables BY DEF TypeInv, TypeOK
<1> DEFINE t == tab[r]
           seen == loc[r].seen
           id == loc[r].id
           extra == ExtraStar(r, t, seen)
           add == Carried(r) + extra
<1>1. pc[r] = "starred" BY DEF WriteStars
<1>2. id \in Req /\ seen \in Row /\ (seen # NoRow => agg[t][id] # NoRow) BY <1>0, <1>1 DEF LocTyped, Local
<1>3. extra \in {0, 1} BY DEF ExtraStar, DefaultStar, Bonus
<1>4. Carried(r) \in Nat
  <2>1. row[r].scores \in Nat
    <3>1. row[r] \in Attempt BY <1>0 DEF TypeOK
    <3>2. row[r].scores \in 0..3 BY <3>1 DEF Attempt
    <3>3. QED BY <3>2
  <2>2. t # FirstTable(r) => loc[r].add \in Nat BY <1>0, <1>1 DEF LocTyped, AddingStars
  <2>3. QED BY <2>1, <2>2 DEF Carried
<1>5. add \in Nat BY <1>3, <1>4
<1>6. /\ loc' = [loc EXCEPT ![r].add = add] /\ tab' = [tab EXCEPT ![r] = NextTable(t)]
      /\ pc' = [pc EXCEPT ![r] = IF t = "grade" THEN "dfind" ELSE "stars"]
      /\ UNCHANGED <<passed, created, stored, row, actives, daily, credits, faults>> /\ UNCHANGED txvars
      /\ seen = NoRow => UNCHANGED <<agg, stars>>
      /\ seen # NoRow => /\ agg' = [agg EXCEPT ![t][id].scores = seen.scores + add, ![t][id].flag = seen.flag \/ extra = 1]
                         /\ stars' = [stars EXCEPT ![KeyOf[r]][t] = @ + 1]
  BY DEF WriteStars, Goto
<1> DEFINE l == [loc[r] EXCEPT !.add = add]
           a == [agg[t][id] EXCEPT !.scores = seen.scores + add, !.flag = seen.flag \/ extra = 1]
<1>7. l \in Local /\ l.add \in Nat BY <1>0, <1>5 DEF Local
<1>8. loc' = [loc EXCEPT ![r] = l] BY <1>0, <1>6 DEF TypeOK
<1>9. seen # NoRow => a \in ProgressRow
  <2> HIDE DEF add, extra
  <2>1. ASSUME seen # NoRow PROVE a \in ProgressRow
    <3>1. seen \in ProgressRow /\ agg[t][id] \in ProgressRow BY <1>0, <1>2, <2>1 DEF Row, TypeOK
    <3>2. seen.scores + add \in Nat /\ (seen.flag \/ extra = 1) \in BOOLEAN BY <1>5, <3>1 DEF ProgressRow
    <3>3. QED BY <3>1, <3>2 DEF ProgressRow
  <2>2. QED BY <2>1
<1>10. seen # NoRow => agg' = [agg EXCEPT ![t] = [agg[t] EXCEPT ![id] = a]] BY <1>0, <1>2, <1>6 DEF TypeOK
<1> HIDE DEF l, a, add, extra
<1>11. agg' \in [Tables -> [Req -> Row]] /\ RowsStay
  <2>1. CASE seen = NoRow BY <1>0, <1>6, <2>1 DEF TypeOK, RowsStay
  <2>2. CASE seen # NoRow
    <3>1. a \in Row /\ a # NoRow BY <1>9, <2>2, RowFacts DEF Row
    <3>2. agg \in [Tables -> [Req -> Row]] BY <1>0 DEF TypeOK
    <3> DEFINE after == [agg[t] EXCEPT ![id] = a]
    <3>3. after \in [Req -> Row] BY <1>0, <3>1, <3>2
    <3>4. \A q \in Req : agg[t][q] # NoRow => after[q] # NoRow BY <1>0, <3>1, <3>2
    <3>5. agg' = [agg EXCEPT ![t] = after] BY <1>10, <2>2
    <3> HIDE DEF after
    <3>6. QED BY <1>0, <3>2, <3>3, <3>4, <3>5 DEF RowsStay
  <2>3. QED BY <2>1, <2>2
<1>12. stars' \in [Keys -> [Tables -> Nat]]
  <2>1. stars \in [Keys -> [Tables -> Nat]] /\ KeyOf[r] \in Keys BY <1>0, KeyFacts DEF TypeOK
  <2>2. stars' = stars \/ stars' = [stars EXCEPT ![KeyOf[r]][t] = @ + 1] BY <1>6
  <2>3. QED BY <1>0, <2>1, <2>2
<1>13. pc' \in [Req -> Steps] /\ tab' \in [Req -> Tables]
  BY <1>0, <1>6, TableFacts DEF TypeOK, Steps, NeedsConnection
<1>14. TypeOK'
  <2>1. loc' \in [Req -> Local] BY <1>0, <1>7, <1>8 DEF TypeOK
  <2>2. UNCHANGED <<passed, created, stored, row, actives, daily, credits, faults, open, pending, writes, activated>>
    BY <1>6 DEF txvars
  <2>3. QED BY <1>0, <1>11, <1>12, <1>13, <2>1, <2>2 DEF TypeOK
<1>15. pc'[r] \in {"dfind", "stars"} /\ loc'[r] = l BY <1>0, <1>6, <1>8 DEF TypeOK
<1>16. LocTyped(r)' BY <1>7, <1>15 DEF LocTyped
<1>17. \A q \in Req \ {r} : pc'[q] = pc[q] /\ loc'[q] = loc[q] /\ tab'[q] = tab[q] BY <1>0, <1>6, <1>8 DEF TypeOK
<1>18. QED BY <1>11, <1>14, <1>16, <1>17, OthersHold

(* An error, a wait given up, a stop of the server. *)
LEMMA FaultTypes ==
    ASSUME TypeInv, \/ Crash \/ \E r \in Req : Timeout(r) \/ Fail(r)
    PROVE  TypeInv'
<1>0. TypeOK BY DEF TypeInv
<1>1. Blank \in Local BY DEF Blank, Local, NoOld, Row
<1>2. faults' \in 0..MaxFaults
  <2>1. faults' = faults \/ (faults < MaxFaults /\ faults' = faults + 1) BY DEF Crash, Timeout, Fail
  <2>2. faults \in 0..MaxFaults /\ MaxFaults \in Nat BY <1>0, SubmissionAssumption DEF TypeOK
  <2>3. QED BY <2>1, <2>2
<1>3. UNCHANGED <<tab, passed, created>> /\ UNCHANGED dbvars /\ UNCHANGED history /\ \E rs : EndTransaction(rs)
  BY DEF Crash, Timeout, Fail, Abort
<1>4. pc' \in [Req -> Steps] /\ loc' \in [Req -> Local]
  <2>1. CASE Crash BY <1>0, <1>1, <2>1 DEF Crash, TypeOK, Steps, Ended
  <2>2. ASSUME NEW r \in Req, Abort(r) PROVE pc' \in [Req -> Steps] /\ loc' \in [Req -> Local]
    BY <1>0, <1>1, <2>2 DEF Abort, Goto, TypeOK, Steps, Ended
  <2>3. QED BY <2>1, <2>2 DEF Timeout, Fail
<1>5. TypeOK' BY <1>0, <1>2, <1>3, <1>4, EndTypes DEF TypeOK, dbvars, history
<1>6. ASSUME NEW q \in Req PROVE LocTyped(q)'
  <2>1. CASE pc'[q] \in {"error", "lost"} BY <2>1 DEF LocTyped, AddingStars
  <2>2. CASE pc'[q] = pc[q] /\ loc'[q] = loc[q]
    BY <1>3, <2>2 DEF TypeInv, LocTyped, dbvars, FirstTable, Kind
  <2>3. CASE Crash
    <3>1. q \in InFlight => pc'[q] = "lost" BY <2>3 DEF Crash
    <3>2. q \notin InFlight => pc[q] \in Ended \cup {"idle"} /\ pc'[q] = pc[q] BY <2>3 DEF Crash, InFlight
    <3>3. pc'[q] \in Ended \cup {"idle"} BY <3>1, <3>2 DEF Ended
    <3>4. QED BY <3>3 DEF LocTyped, AddingStars, Ended
  <2>4. ASSUME NEW r \in Req, Abort(r) PROVE LocTyped(q)'
    <3>1. CASE q = r BY <1>0, <2>1, <2>4, <3>1 DEF Abort, Goto, TypeOK
    <3>2. CASE q # r BY <1>0, <2>2, <2>4, <3>2 DEF Abort, Goto, TypeOK
    <3>3. QED BY <3>1, <3>2
  <2>5. QED BY <2>3, <2>4 DEF Timeout, Fail
<1>7. QED BY <1>5, <1>6 DEF TypeInv

(* Every step keeps the types. *)
LEMMA TypesStep == TypeInv /\ [Next]_vars => TypeInv'
<1> SUFFICES ASSUME TypeInv, [Next]_vars PROVE TypeInv' OBVIOUS
<1>1. ASSUME NEW r \in Req, Step(r) PROVE TypeInv'
  <2>1. CASE AskPassOld(r) \/ AskTried(r) \/ AskOld(r) \/ AskNewest(r) \/ SumHeld(r) BY <2>1, AskTypes
  <2>2. CASE ReadTotal(r) \/ ReadStars(r) \/ FindDaily(r) \/ Reply(r) BY <2>2, ReadTypes
  <2>3. CASE \/ Begin(r) \/ Find(r) \/ Recover(r) \/ Insert(r) \/ insertquestion(r) \/ setstudentactive(r) \/ WriteDaily(r)
    BY <2>3, PlaceTypes
  <2>4. CASE WriteTotal(r) BY <2>4, WriteTotalTypes
  <2>5. CASE Commit(r) BY <2>5, CommitTypes
  <2>6. CASE WriteStars(r) BY <2>6, WriteStarsTypes
  <2>7. QED BY <1>1, <2>1, <2>2, <2>3, <2>4, <2>5, <2>6 DEF Step
<1>2. CASE UNCHANGED vars
  <2>1. TypeOK' BY <1>2 DEF TypeInv, TypeOK, vars, txvars, dbvars, history
  <2>2. ASSUME NEW q \in Req PROVE LocTyped(q)'
    BY <1>2 DEF TypeInv, LocTyped, vars, dbvars, FirstTable, Kind
  <2>3. QED BY <2>1, <2>2 DEF TypeInv
<1>3. QED BY <1>1, <1>2, ReceiveTypes, FaultTypes DEF Next

(* Before any request arrives. *)
LEMMA InitTypes == Init => TypeInv
<1> SUFFICES ASSUME Init PROVE TypeInv OBVIOUS
<1>1. Blank \in Local BY DEF Blank, Local, NoOld, Row
<1>2. NoRow \in Row BY DEF Row
<1>3. NoAttempt \in Attempt BY DEF NoAttempt, Attempt
<1>4. NoWrites \in [Tables -> [id : Req, row : Row] \cup {NoWrite}] BY DEF NoWrites
<1>5. "idle" \in Steps /\ "lesson" \in Tables BY DEF Steps, Tables
<1>6. TypeOK BY <1>1, <1>2, <1>3, <1>4, <1>5, SubmissionAssumption DEF Init, TypeOK
<1>7. ASSUME NEW q \in Req PROVE LocTyped(q)
  <2>1. pc[q] = "idle" BY DEF Init
  <2>2. QED BY <2>1 DEF LocTyped, AddingStars
<1>8. QED BY <1>6, <1>7 DEF TypeInv

(* So the types hold throughout. *)
LEMMA AlwaysTyped == Spec => []TypeInv
  BY InitTypes, TypesStep, PTL DEF Spec

(***************************************************************************)
(* Every variable of the requests, of the open transactions and of the     *)
(* committed tables keeps its type, for any requests, activities, worths,  *)
(* pool and faults: totals are integers, the row of the day a number of    *)
(* points, and a request only writes to rows it has found or made.         *)
(***************************************************************************)
THEOREM SubmissionTypes == Spec => []TypeOK
<1>1. TypeInv => TypeOK BY DEF TypeInv
<1>2. QED BY AlwaysTyped, <1>1, PTL

-----------------------------------------------------------------------------
(* A step of one request does not touch what the others have. *)
Untouched(q) ==
    /\ pc'[q] = pc[q] /\ loc'[q] = loc[q] /\ tab'[q] = tab[q] /\ writes'[q] = writes[q] /\ row'[q] = row[q]
    /\ (q \in pending' <=> q \in pending) /\ (q \in activated' <=> q \in activated)
    /\ (q \in stored' <=> q \in stored) /\ (q \in created' <=> q \in created) /\ (q \in passed' <=> q \in passed)

(* Nor does it ever change a row that is stored, or lose one. *)
LEMMA OthersUntouched ==
    ASSUME TypeOK, NEW r \in Req, Receive(r) \/ Step(r) \/ Timeout(r) \/ Fail(r), NEW q \in Req, q # r
    PROVE  Untouched(q)
<1>0. /\ pc \in [Req -> Steps] /\ tab \in [Req -> Tables] /\ loc \in [Req -> Local] /\ row \in [Req -> Attempt]
      /\ writes \in [Req -> [Tables -> [id : Req, row : Row] \cup {NoWrite}]]
  BY DEF TypeOK
<1>1. EndTransaction({r}) => /\ writes'[q] = writes[q] /\ (q \in pending' <=> q \in pending)
                             /\ (q \in activated' <=> q \in activated)
  BY DEF EndTransaction
<1>2. CASE Receive(r) BY <1>0, <1>2 DEF Receive, Goto, Untouched, txvars, dbvars
<1>3. CASE AskPassOld(r) \/ AskTried(r) \/ AskOld(r) \/ AskNewest(r) \/ SumHeld(r)
  <2>1. PICK at, then, new : Asks(r, at, then, new) BY <1>3 DEF AskPassOld, AskTried, AskOld, AskNewest, SumHeld
  <2>2. QED BY <1>0, <2>1 DEF Asks, Goto, Untouched, txvars, dbvars
<1>4. CASE Begin(r) \/ Find(r) \/ Recover(r) \/ Reply(r)
  BY <1>0, <1>4 DEF Begin, Find, Recover, Reply, Goto, Untouched, txvars, dbvars
<1>5. CASE ReadTotal(r) \/ ReadStars(r)
  BY <1>0, <1>5 DEF ReadTotal, ReadStars, Sees, Goto, Untouched, txvars, dbvars
<1>6. CASE FindDaily(r) \/ WriteDaily(r)
  BY <1>0, <1>6 DEF FindDaily, WriteDaily, Goto, Untouched, txvars, dbvars
<1>7. CASE Insert(r) BY <1>0, <1>1, <1>7 DEF Insert, Goto, Untouched
<1>8. CASE insertquestion(r) \/ setstudentactive(r)
  BY <1>0, <1>8 DEF insertquestion, setstudentactive, Goto, Untouched, txvars, dbvars
<1>9. CASE WriteTotal(r) BY <1>0, <1>9 DEF WriteTotal, Goto, Untouched, dbvars
<1>10. CASE Commit(r) BY <1>0, <1>1, <1>10 DEF Commit, Goto, Untouched
<1>11. CASE WriteStars(r) BY <1>0, <1>11 DEF WriteStars, Goto, Untouched, txvars
<1>12. CASE Timeout(r) \/ Fail(r) BY <1>0, <1>1, <1>12 DEF Timeout, Fail, Abort, Goto, Untouched, dbvars
<1>13. QED BY <1>2, <1>3, <1>4, <1>5, <1>6, <1>7, <1>8, <1>9, <1>10, <1>11, <1>12 DEF Step

(* The context of the proofs below: all that is known of every reachable state so far. *)
Sound == IInv /\ TypeInv

(* Which every reachable state satisfies. *)
LEMMA AlwaysSound == Spec => []Sound
<1>1. IInv /\ TypeInv => Sound BY DEF Sound
<1>2. QED BY <1>1, AlwaysIInv, AlwaysTyped, PTL

(* Every stored attempt, and every inserted one past its answers, has them. *)
HasAnswers(r) == r \in stored \/ (r \in pending /\ pc[r] # "answers") => row[r].answers

AnswersInv == \A r \in Req : HasAnswers(r)

(* The row of a request changes at its insert and at its answers only, before it is stored. *)
LEMMA RowChanges ==
    ASSUME Sound, NEW r \in Req, Receive(r) \/ Step(r) \/ Timeout(r) \/ Fail(r), ~Insert(r), ~insertquestion(r)
    PROVE  row' = row
  BY DEF Receive, Step, Timeout, Fail, Abort, AskPassOld, AskTried, AskOld, AskNewest, SumHeld, Asks, Begin, Find,
         Recover, Reply, ReadTotal, ReadStars, FindDaily, WriteDaily, setstudentactive, WriteTotal, Commit, WriteStars,
         dbvars

(* Rows are stored by the commit only. *)
LEMMA StoredChanges ==
    ASSUME Sound, NEW r \in Req, Receive(r) \/ Step(r) \/ Timeout(r) \/ Fail(r), ~Commit(r)
    PROVE  stored' = stored
  BY DEF Receive, Step, Timeout, Fail, Abort, AskPassOld, AskTried, AskOld, AskNewest, SumHeld, Asks, Begin, Find,
         Insert, insertquestion,
         Recover, Reply, ReadTotal, ReadStars, FindDaily, WriteDaily, setstudentactive, WriteTotal, WriteStars,
         dbvars

(* The answers of an attempt are there before it is stored. *)
LEMMA AnswersStep == Sound /\ AnswersInv /\ [Next]_vars => AnswersInv'
<1> SUFFICES ASSUME Sound, AnswersInv, [Next]_vars PROVE AnswersInv' OBVIOUS
<1>0. TypeOK /\ pc \in [Req -> Steps] /\ row \in [Req -> Attempt] BY DEF Sound, TypeInv, TypeOK
<1>1. ASSUME NEW r \in Req, Receive(r) \/ Step(r) \/ Timeout(r) \/ Fail(r) PROVE AnswersInv'
  <2>1. ASSUME NEW q \in Req, q # r PROVE HasAnswers(q)'
    <3>1. Untouched(q) BY <1>0, <1>1, <2>1, OthersUntouched
    <3>2. HasAnswers(q) BY DEF AnswersInv
    <3>3. QED BY <3>1, <3>2 DEF HasAnswers, Untouched
  <2>2. HasAnswers(r)'
    <3>1. HasAnswers(r) /\ Located(r) BY DEF AnswersInv, Sound, IInv
    <3>2. CASE Insert(r)
      <4>1. r \notin stored BY <3>1, <3>2 DEF Insert, Located, AddingStars, Closing, Ended
      <4>2. stored' = stored /\ (pc'[r] = "answers" \/ r \notin pending')
        BY <1>0, <3>2 DEF Insert, EndTransaction, Goto
      <4>3. QED BY <4>1, <4>2 DEF HasAnswers
    <3>3. CASE insertquestion(r) BY <1>0, <3>3 DEF insertquestion, HasAnswers, Attempt
    <3>4. CASE Commit(r) BY <3>1, <3>4 DEF Commit, EndTransaction, HasAnswers
    <3>5. CASE Timeout(r) \/ Fail(r)
      BY <3>1, <3>5 DEF Timeout, Fail, Abort, EndTransaction, HasAnswers, dbvars
    <3>6. CASE ~Insert(r) /\ ~insertquestion(r) /\ ~Commit(r) /\ ~(Timeout(r) \/ Fail(r))
      <4>1. row' = row /\ stored' = stored BY <1>1, <3>6, RowChanges, StoredChanges
      <4>2. pending' = pending /\ pc[r] # "answers"
        BY <1>1, <3>6 DEF Receive, Step, AskPassOld, AskTried, AskOld, AskNewest, SumHeld, Asks, Begin, Find, Recover,
           Reply, ReadTotal, ReadStars, FindDaily, WriteDaily, setstudentactive, WriteTotal, WriteStars, txvars
      <4>3. QED BY <3>1, <4>1, <4>2 DEF HasAnswers
    <3>7. QED BY <3>2, <3>3, <3>4, <3>5, <3>6
  <2>3. QED BY <2>1, <2>2 DEF AnswersInv
<1>2. CASE Crash
  <2>1. row' = row /\ stored' = stored /\ pending' = pending \ InFlight
    BY <1>2 DEF Crash, EndTransaction, dbvars
  <2>2. \A q \in Req : q \in InFlight \/ pc'[q] = pc[q] BY <1>2 DEF Crash
  <2>3. QED BY <2>1, <2>2 DEF AnswersInv, HasAnswers
<1>3. CASE UNCHANGED vars BY <1>3 DEF AnswersInv, HasAnswers, vars, txvars, dbvars
<1>4. QED BY <1>1, <1>2, <1>3 DEF Next

(***************************************************************************)
(* No attempt is ever on record without its answers (insertquestion is     *)
(* awaited before the commit), whatever interleaves, fails or crashes.     *)
(***************************************************************************)
THEOREM AttemptsHaveAnswers == Spec => []AttemptsComplete
<1>1. Init => AnswersInv BY DEF Init, AnswersInv, HasAnswers
<1>2. Sound /\ AnswersInv => AttemptsComplete
  BY DEF Sound, TypeInv, TypeOK, AnswersInv, HasAnswers, AttemptsComplete
<1>3. QED BY <1>1, <1>2, AnswersStep, AlwaysSound, PTL DEF Spec


-----------------------------------------------------------------------------
(* A client that sends one result at a time: one request is in progress. *)
Alone == \A r, s \in InFlight : r = s

(* The steps of a request are those of one in progress. *)
LEMMA Moving ==
    ASSUME NEW r \in Req, Step(r) \/ Timeout(r) \/ Fail(r)
    PROVE  r \in InFlight
<1>1. CASE Timeout(r) \/ Fail(r) BY <1>1 DEF Timeout, Fail
<1>2. CASE Step(r)
  BY <1>2 DEF Step, AskPassOld, AskTried, AskOld, AskNewest, SumHeld, Asks, Begin, Find, Insert, insertquestion, Recover,
     Reply, ReadTotal, ReadStars, FindDaily, WriteDaily, setstudentactive, WriteTotal, Commit, WriteStars, InFlight, Ended
<1>3. QED BY <1>1, <1>2

(* While one is in progress the next is not sent. *)
LEMMA AloneStep ==
    ASSUME Serial, Sound, Alone, [Next]_vars
    PROVE  Alone'
<1>0. TypeOK BY DEF Sound, TypeInv
<1>1. ASSUME NEW r \in Req, Receive(r) \/ Step(r) \/ Timeout(r) \/ Fail(r) PROVE Alone'
  <2>1. \A q \in Req \ {r} : q \in InFlight' => q \in InFlight
    <3>1. \A q \in Req \ {r} : pc'[q] = pc[q] BY <1>0, <1>1, OthersUntouched DEF Untouched
    <3>2. QED BY <3>1 DEF InFlight
  <2>2. \A q \in Req \ {r} : q \notin InFlight
    <3>1. CASE Receive(r) BY <3>1 DEF Receive, Quiet
    <3>2. CASE ~Receive(r) BY <1>1, <3>2, Moving DEF Alone
    <3>3. QED BY <3>1, <3>2
  <2>3. \A q \in InFlight' : q \in Req BY DEF InFlight
  <2>4. QED BY <2>1, <2>2, <2>3 DEF Alone
<1>2. CASE Crash
  <2>1. InFlight' = {} BY <1>2 DEF Crash, InFlight, Ended
  <2>2. QED BY <2>1 DEF Alone
<1>3. CASE UNCHANGED vars BY <1>3 DEF vars, Alone, InFlight
<1>4. QED BY <1>1, <1>2, <1>3 DEF Next

(* A request that is not in progress has no uncommitted row. *)
LEMMA NothingPending ==
    ASSUME Sound, NEW q \in pending
    PROVE  q \in InFlight
  BY DEF Sound, IInv, ControlOK, Located, AfterInsert, InFlight, Ended

(* What the attempts hold depends on the stored rows of the practices and the lesson quizzes only. *)
LEMMA HeldSame ==
    ASSUME TypeOK, \A a \in OfKinds({"practice", "quiz"}) : Rows(a)' = Rows(a),
           \A s \in stored : row'[s] = row[s]
    PROVE  HeldPoints' = HeldPoints
<1> DEFINE S == OfKinds({"practice", "quiz"})
           f == [a \in Activities |-> IF Rows(a) # {} THEN row[Newest(Rows(a))].points ELSE 0]
           e == [a \in Activities |-> IF Rows(a)' # {} THEN row'[Newest(Rows(a)')].points ELSE 0]
<1>1. HeldPoints = SumFunctionOnSet(f, S) BY DEF HeldPoints, hasTried
<1>2. HeldPoints' = SumFunctionOnSet(e, S) BY DEF HeldPoints, hasTried
<1>3. S \subseteq Activities /\ IsFiniteSet(S) BY SubmissionAssumption, FS_Subset DEF OfKinds
<1>4. \A a \in S : f[a] = e[a]
  <2> SUFFICES ASSUME NEW a \in S PROVE f[a] = e[a] OBVIOUS
  <2>1. Rows(a)' = Rows(a) /\ a \in Activities BY <1>3
  <2>2. Rows(a) # {} => Newest(Rows(a)) \in stored
    <3>1. Rows(a) \subseteq stored /\ Rows(a) \subseteq Req BY DEF Rows, TypeOK
    <3>2. QED BY <3>1, NewestIn
  <2>3. QED BY <2>1, <2>2
<1> HIDE DEF f, e, S
<1>5. QED BY <1>1, <1>2, <1>3, <1>4, SumSame

(* Only the commit of a practice or a lesson quiz changes it. *)
LEMMA HeldKept ==
    ASSUME Sound, NEW r \in Req, Receive(r) \/ Step(r) \/ Timeout(r) \/ Fail(r), ~(Commit(r) /\ Lessonly(r))
    PROVE  HeldPoints' = HeldPoints
<1>0. TypeOK /\ Located(r) BY DEF Sound, IInv, TypeInv
<1>1. \A s \in stored : row'[s] = row[s]
  <2>1. \A s \in Req \ {r} : row'[s] = row[s] BY <1>0, OthersUntouched DEF Untouched
  <2>2. r \in stored => row'[r] = row[r]
    <3>1. r \in stored => ~Insert(r) /\ ~insertquestion(r)
      BY <1>0 DEF Insert, insertquestion, Located, AddingStars, Closing, Ended
    <3>2. QED BY <3>1, RowChanges
  <2>3. stored \subseteq Req BY <1>0 DEF TypeOK
  <2>4. QED BY <2>1, <2>2, <2>3
<1>2. \A a \in OfKinds({"practice", "quiz"}) : Rows(a)' = Rows(a)
  <2>1. CASE Commit(r)
    <3>1. stored' = stored \cup (pending \cap {r}) BY <2>1 DEF Commit
    <3>2. ActivityOf[r] \notin OfKinds({"practice", "quiz"}) BY <2>1 DEF Lessonly, Kind, OfKinds
    <3>3. QED BY <3>1, <3>2 DEF Rows
  <2>2. CASE ~Commit(r)
    <3>1. stored' = stored BY <2>2, StoredChanges
    <3>2. QED BY <3>1 DEF Rows
  <2>3. QED BY <2>1, <2>2
<1>3. QED BY <1>0, <1>1, <1>2, HeldSame

(* There is one row of the day, and one activity row of each activity. *)
DayOne    == \A s, u \in Req : daily[s] # NoDaily /\ daily[u] # NoDaily => s = u
ActiveOne == \A s, u \in actives : ActivityOf[s] = ActivityOf[u] => s = u

(* The request that writes the row of the day writes the one there is, and what the attempts hold. *)
DayInv(r) ==
    /\ pc[r] \in {"dheld", "dwrite"} => \A s \in Req : daily[s] # NoDaily => s = loc[r].id
    /\ pc[r] = "dwrite" => loc[r].add = HeldPoints
    /\ r \in activated => pc[r] = "commit" /\ \A s \in actives : ActivityOf[s] # ActivityOf[r]

(* Whoever has yet to bring the row up to date, or never will. *)
Behind == {r \in Req : pc[r] \in AddingStars \cup {"dfind", "dheld", "dwrite", "error", "lost"}}

DayFresh == Behind = {} => \A s \in Req : daily[s] # NoDaily => daily[s] = HeldPoints

DailyInv == Alone /\ DayOne /\ ActiveOne /\ DayFresh /\ \A r \in Req : DayInv(r)

(* A step of the only request in progress leaves the others with nothing to do with the day. *)
LEMMA DayOthers ==
    ASSUME Serial, Sound, DailyInv, NEW r \in Req, Receive(r) \/ Step(r) \/ Timeout(r) \/ Fail(r),
           NEW q \in Req, q # r
    PROVE  /\ DayInv(q)' /\ q \notin activated'
           /\ q \in Behind' <=> q \in Behind
<1>0. TypeOK /\ Untouched(q) BY OthersUntouched DEF Sound, TypeInv
<1>1. q \notin InFlight
  <2>1. CASE Receive(r) BY <2>1 DEF Receive, Quiet
  <2>2. CASE ~Receive(r) BY <2>2, Moving DEF Alone, DailyInv
  <2>3. QED BY <2>1, <2>2
<1>2. pc'[q] = pc[q] /\ pc[q] \in Ended \cup {"idle"} /\ (q \in activated' <=> q \in activated)
  BY <1>0, <1>1 DEF InFlight, Untouched
<1>3. q \notin activated' BY <1>2 DEF DailyInv, DayInv, Ended
<1>4. DayInv(q)' BY <1>2, <1>3 DEF DayInv, Ended
<1>5. q \in Behind' <=> q \in Behind BY <1>2 DEF Behind
<1>6. QED BY <1>3, <1>4, <1>5

(* Enough to show of a step that leaves the row of the day and the activity rows alone. *)
LEMMA DayLocal ==
    ASSUME Serial, Sound, DailyInv, NEW r \in Req, Receive(r) \/ Step(r) \/ Timeout(r) \/ Fail(r),
           [Next]_vars, ~Commit(r), ~WriteDaily(r), DayInv(r)', r \in Behind => r \in Behind'
    PROVE  DailyInv'
<1>1. Alone' BY AloneStep DEF DailyInv
<1>2. daily' = daily /\ actives' = actives
  BY DEF Receive, Step, Timeout, Fail, Abort, AskPassOld, AskTried, AskOld, AskNewest, SumHeld, Asks, Begin, Find,
         Insert, insertquestion, Recover, Reply, ReadTotal, ReadStars, FindDaily, setstudentactive, WriteTotal,
         WriteStars, dbvars
<1>3. DayOne' /\ ActiveOne' BY <1>2 DEF DailyInv, DayOne, ActiveOne
<1>4. HeldPoints' = HeldPoints BY HeldKept
<1>5. \A q \in Req : q \in Behind => q \in Behind' BY DayOthers
<1>6. DayFresh'
  <2>1. Behind' = {} => Behind = {} BY <1>5 DEF Behind
  <2>2. QED BY <1>2, <1>4, <2>1 DEF DailyInv, DayFresh
<1>7. \A q \in Req : DayInv(q)' BY DayOthers
<1>8. QED BY <1>1, <1>3, <1>6, <1>7 DEF DailyInv

(* The row of the day is found. *)
LEMMA FindDailyDay ==
    ASSUME Serial, Sound, DailyInv, [Next]_vars, NEW r \in Req, FindDaily(r)
    PROVE  DailyInv'
<1>0. TypeOK /\ loc[r] \in Local /\ pc \in [Req -> Steps] /\ loc \in [Req -> Local] BY DEF Sound, TypeInv, TypeOK
<1>1. Step(r) /\ pc[r] = "dfind" /\ pc'[r] = "dheld" BY <1>0 DEF Step, FindDaily, Goto
<1>2. r \in Behind' BY <1>1 DEF Behind
<1>3. r \notin activated' BY <1>1 DEF FindDaily, DailyInv, DayInv, txvars
<1>4. \A s \in Req : daily'[s] # NoDaily => s = loc'[r].id
  <2>1. daily' = daily BY DEF FindDaily, dbvars
  <2>2. \/ {s \in Req : daily[s] # NoDaily} = {}
        \/ \E s \in Req : daily[s] # NoDaily /\ loc' = [loc EXCEPT ![r].id = s]
    BY DEF FindDaily
  <2>3. \A s \in Req : loc' = [loc EXCEPT ![r].id = s] => loc'[r].id = s BY <1>0 DEF Local
  <2>4. QED BY <2>1, <2>2, <2>3 DEF DailyInv, DayOne
<1>5. DayInv(r)' BY <1>1, <1>3, <1>4 DEF DayInv
<1>6. ~Commit(r) /\ ~WriteDaily(r) BY <1>1 DEF Commit, WriteDaily
<1>7. QED BY <1>1, <1>2, <1>5, <1>6, DayLocal

(* The attempts are added up. *)
LEMMA SumHeldDay ==
    ASSUME Serial, Sound, DailyInv, [Next]_vars, NEW r \in Req, SumHeld(r)
    PROVE  DailyInv'
<1>0. TypeOK /\ loc[r] \in Local /\ pc \in [Req -> Steps] /\ loc \in [Req -> Local] BY DEF Sound, TypeInv, TypeOK
<1>1. /\ Step(r) /\ pc[r] = "dheld" /\ pc'[r] = "dwrite" /\ daily' = daily /\ activated' = activated
      /\ loc' = [loc EXCEPT ![r] = [loc[r] EXCEPT !.add = HeldPoints]]
  BY <1>0 DEF Step, SumHeld, Asks, Goto, txvars, dbvars
<1>2. r \in Behind' BY <1>1 DEF Behind
<1>3. r \notin activated' BY <1>1 DEF DailyInv, DayInv
<1>4. loc'[r].add = HeldPoints /\ loc'[r].id = loc[r].id BY <1>0, <1>1 DEF Local
<1>5. ~Commit(r) /\ ~WriteDaily(r) BY <1>1 DEF Commit, WriteDaily
<1>6. HeldPoints' = HeldPoints BY <1>1, <1>5, HeldKept
<1>7. DayInv(r)' BY <1>1, <1>3, <1>4, <1>6 DEF DayInv, DailyInv
<1>8. QED BY <1>1, <1>2, <1>5, <1>7, DayLocal

(* The row of the day is written: the one there is, or the first. *)
LEMMA WriteDailyDay ==
    ASSUME Serial, Sound, DailyInv, [Next]_vars, NEW r \in Req, WriteDaily(r)
    PROVE  DailyInv'
<1>0. /\ TypeOK /\ loc[r] \in Local /\ pc \in [Req -> Steps] /\ daily \in [Req -> Nat \cup {NoDaily}]
      /\ LocTyped(r)
  BY DEF Sound, TypeInv, TypeOK
<1>1. /\ Step(r) /\ pc[r] = "dwrite" /\ pc'[r] = "reply" /\ actives' = actives /\ activated' = activated
      /\ daily' = [daily EXCEPT ![loc[r].id] = loc[r].add]
  BY <1>0 DEF Step, WriteDaily, Goto, txvars
<1>2. Alone' BY AloneStep DEF DailyInv
<1>3. HeldPoints' = HeldPoints BY <1>1, HeldKept DEF Commit
<1>4. loc[r].add = HeldPoints /\ \A s \in Req : daily[s] # NoDaily => s = loc[r].id
  BY <1>1 DEF DailyInv, DayInv
<1>5. \A s \in Req : daily'[s] # NoDaily => s = loc[r].id /\ daily'[s] = HeldPoints' BY <1>0, <1>1, <1>3, <1>4
<1>6. DayOne' /\ DayFresh' BY <1>5 DEF DayOne, DayFresh
<1>7. ActiveOne' BY <1>1 DEF DailyInv, ActiveOne
<1>8. r \notin activated' BY <1>1 DEF DailyInv, DayInv
<1>9. DayInv(r)' BY <1>1, <1>8 DEF DayInv
<1>10. \A q \in Req : DayInv(q)' BY <1>1, <1>9, DayOthers
<1>11. QED BY <1>2, <1>6, <1>7, <1>10 DEF DailyInv

(* The activity row: only if there is none. *)
LEMMA ActiveDay ==
    ASSUME Serial, Sound, DailyInv, [Next]_vars, NEW r \in Req, setstudentactive(r)
    PROVE  DailyInv'
<1>0. pc \in [Req -> Steps] BY DEF Sound, TypeInv, TypeOK
<1>1. Step(r) /\ pc[r] = "active" /\ pc'[r] = "commit" /\ actives' = actives BY <1>0 DEF Step, setstudentactive, Goto, dbvars
<1>2. r \notin activated BY <1>1 DEF DailyInv, DayInv
<1>3. r \in activated' => \A s \in actives : ActivityOf[s] # ActivityOf[r] BY <1>2 DEF setstudentactive
<1>4. DayInv(r)' BY <1>1, <1>3 DEF DayInv
<1>5. r \notin Behind /\ ~Commit(r) /\ ~WriteDaily(r) BY <1>1 DEF Behind, AddingStars, Commit, WriteDaily
<1>6. QED BY <1>1, <1>4, <1>5, DayLocal

(* The commit: the row of the day is brought up to date afterwards, unless the attempts hold what they held. *)
LEMMA CommitDay ==
    ASSUME Serial, Sound, DailyInv, [Next]_vars, NEW r \in Req, Commit(r)
    PROVE  DailyInv'
<1>0. pc \in [Req -> Steps] BY DEF Sound, TypeInv, TypeOK
<1>1. /\ Step(r) /\ pc[r] = "commit" /\ pc'[r] = AfterCommit(r) /\ daily' = daily
      /\ actives' = actives \cup (activated \cap {r}) /\ r \notin activated'
  BY <1>0 DEF Step, Commit, EndTransaction, Goto
<1>2. Alone' BY AloneStep DEF DailyInv
<1>3. DayOne' BY <1>1 DEF DailyInv, DayOne
<1>4. ActiveOne' BY <1>1 DEF DailyInv, ActiveOne, DayInv
<1>5. DayInv(r)' BY <1>1 DEF DayInv, AfterCommit
<1>6. \A q \in Req : DayInv(q)' BY <1>1, <1>5, DayOthers
<1>7. DayFresh'
  <2>1. CASE Kind(r) = "baseline"
    <3>1. HeldPoints' = HeldPoints BY <1>1, <2>1, HeldKept DEF Lessonly
    <3>2. r \notin Behind BY <1>1 DEF Behind, AddingStars
    <3>3. \A q \in Req : q \in Behind => q \in Behind' BY <1>1, <3>2, DayOthers
    <3>4. Behind' = {} => Behind = {} BY <3>3 DEF Behind
    <3>5. QED BY <1>1, <3>1, <3>4 DEF DailyInv, DayFresh
  <2>2. CASE Kind(r) # "baseline"
    <3>1. r \in Behind' BY <1>1, <2>2 DEF Behind, AfterCommit, AddingStars
    <3>2. QED BY <3>1 DEF DayFresh
  <2>3. QED BY <2>1, <2>2
<1>8. QED BY <1>2, <1>3, <1>4, <1>6, <1>7 DEF DailyInv

(* Every other step of a request has nothing to do with the day. *)
LEMMA OtherDay ==
    ASSUME Serial, Sound, DailyInv, [Next]_vars, NEW r \in Req, Receive(r) \/ Step(r) \/ Timeout(r) \/ Fail(r),
           ~FindDaily(r), ~SumHeld(r), ~WriteDaily(r), ~setstudentactive(r), ~Commit(r)
    PROVE  DailyInv'
<1>0. pc \in [Req -> Steps] BY DEF Sound, TypeInv, TypeOK
<1>1. DayInv(r) BY DEF DailyInv
<1>2. PICK step : pc' = [pc EXCEPT ![r] = step] /\ step \notin {"dheld", "dwrite", "commit"} /\ r \notin activated'
                  /\ (r \in Behind => step \in AddingStars \cup {"dfind", "error"})
  <2>1. CASE Timeout(r) \/ Fail(r)
    BY <2>1 DEF Timeout, Fail, Abort, EndTransaction, Goto, AddingStars
  <2>2. CASE Receive(r) \/ Insert(r) \/ insertquestion(r) \/ Begin(r) \/ Find(r) \/ Recover(r) \/ ReadTotal(r) \/ WriteTotal(r)
    BY <1>1, <2>2 DEF Receive, Insert, insertquestion, Begin, Rewarding, Find, Recover, ReadTotal, WriteTotal, DayInv,
                 EndTransaction, Goto, txvars, Behind, AddingStars
  <2>3. CASE AskPassOld(r) \/ AskTried(r) \/ AskOld(r) \/ AskNewest(r) \/ Reply(r) \/ ReadStars(r) \/ WriteStars(r)
    BY <1>1, <2>3 DEF AskPassOld, AskTried, AskOld, AskNewest, Asks, Reply, ReadStars, WriteStars, DayInv, Goto, txvars,
                 Behind, AddingStars
  <2>4. QED BY <2>1, <2>2, <2>3 DEF Step
<1>3. pc'[r] = step BY <1>0, <1>2
<1>4. DayInv(r)' BY <1>2, <1>3 DEF DayInv
<1>5. r \in Behind => r \in Behind' BY <1>2, <1>3 DEF Behind
<1>6. QED BY <1>4, <1>5, DayLocal

(* Every step keeps the day right. *)
LEMMA DailyStep == ASSUME Serial PROVE Sound /\ DailyInv /\ [Next]_vars => DailyInv'
<1> SUFFICES ASSUME Sound, DailyInv, [Next]_vars PROVE DailyInv' OBVIOUS
<1>1. ASSUME NEW r \in Req, Receive(r) \/ Step(r) \/ Timeout(r) \/ Fail(r) PROVE DailyInv'
  BY <1>1, FindDailyDay, SumHeldDay, WriteDailyDay, ActiveDay, CommitDay, OtherDay
<1>2. CASE Crash
  <2>1. /\ UNCHANGED dbvars /\ activated' = activated \ InFlight
        /\ pc' = [q \in Req |-> IF q \in InFlight THEN "lost" ELSE pc[q]]
    BY <1>2 DEF Crash, EndTransaction
  <2>2. Alone' BY AloneStep DEF DailyInv
  <2>3. DayOne' /\ ActiveOne' BY <2>1 DEF DailyInv, DayOne, ActiveOne, dbvars
  <2>4. HeldPoints' = HeldPoints BY <2>1, HeldSame DEF dbvars, Rows, Sound, TypeInv
  <2>5. \A q \in Req : q \in Behind => q \in Behind' BY <2>1 DEF Behind
  <2>6. Behind' = {} => Behind = {} BY <2>5 DEF Behind
  <2>7. DayFresh' BY <2>1, <2>4, <2>6 DEF DailyInv, DayFresh, dbvars
  <2>8. ASSUME NEW q \in Req PROVE DayInv(q)'
    <3>1. pc'[q] \in Ended \cup {"idle"} BY <2>1 DEF InFlight, Ended
    <3>2. q \in activated => q \in InFlight BY DEF DailyInv, DayInv, InFlight, Ended
    <3>3. QED BY <2>1, <3>1, <3>2 DEF DayInv, Ended
  <2>9. QED BY <2>2, <2>3, <2>7, <2>8 DEF DailyInv
<1>3. CASE UNCHANGED vars
  <2>1. UNCHANGED dbvars /\ UNCHANGED <<pc, loc, activated>> BY <1>3 DEF vars, txvars
  <2>2. HeldPoints' = HeldPoints BY <2>1, HeldSame DEF dbvars, Rows, Sound, TypeInv
  <2>3. DayOne' /\ ActiveOne' /\ Behind' = Behind BY <2>1 DEF DailyInv, DayOne, ActiveOne, dbvars, Behind
  <2>4. DayFresh' BY <2>1, <2>2, <2>3 DEF DailyInv, DayFresh, dbvars
  <2>5. ASSUME NEW q \in Req PROVE DayInv(q)' BY <2>1, <2>2 DEF DailyInv, DayInv, dbvars
  <2>6. Alone' BY AloneStep DEF DailyInv
  <2>7. QED BY <2>3, <2>4, <2>5, <2>6 DEF DailyInv
<1>4. QED BY <1>1, <1>2, <1>3 DEF Next

(* Before any request arrives there is no row of the day and no activity row. *)
LEMMA InitDaily == Init => DailyInv
<1> SUFFICES ASSUME Init PROVE DailyInv OBVIOUS
<1>1. InFlight = {} BY DEF Init, InFlight
<1>2. \A s \in Req : daily[s] = NoDaily BY DEF Init
<1>3. QED BY <1>1, <1>2 DEF Init, DailyInv, Alone, DayOne, ActiveOne, DayFresh, DayInv

(* So it is right throughout. *)
LEMMA AlwaysDaily == ASSUME Serial PROVE Spec => []DailyInv
<1>1. Sound /\ DailyInv /\ [Next]_vars => DailyInv' BY DailyStep
<1>2. QED BY <1>1, InitDaily, AlwaysSound, PTL DEF Spec

(***************************************************************************)
(* For a client that sends one result at a time there is one row of the    *)
(* day (updateuserdailypoints) and one activity row of each activity       *)
(* (setstudentactive), although each is found in one statement and made in *)
(* another: also after failures and crashes.                               *)
(***************************************************************************)
THEOREM DayHasOneRow == ASSUME Serial PROVE Spec => []OneRowOfTheDay
<1>1. ASSUME DailyInv, TypeOK PROVE OneRowOfTheDay
  <2> DEFINE D == {s \in Req : daily[s] # NoDaily}
  <2>1. Cardinality(D) <= 1
    <3>1. CASE D = {} BY <3>1, FS_EmptySet
    <3>2. CASE D # {}
      <4>1. PICK s \in D : TRUE BY <3>2
      <4>2. D = {s} BY <1>1, <4>1 DEF DailyInv, DayOne
      <4> HIDE DEF D
      <4>3. QED BY <4>2, FS_Singleton
    <3>3. QED BY <3>1, <3>2
  <2>2. QED BY <1>1, <2>1 DEF OneRowOfTheDay, DailyInv, ActiveOne
<1>2. QED BY <1>1, AlwaysDaily, SubmissionTypes, PTL

(***************************************************************************)
(* For that client the row of the day shows what the attempts hold once    *)
(* every request has been acknowledged (the sum of updateuserdailypoints   *)
(* is computed anew at every save), however many results it sent, and how  *)
(* often.                                                                  *)
(***************************************************************************)
THEOREM DayIsFresh == ASSUME Serial PROVE Spec => []DailyFresh
<1>1. ASSUME DailyInv PROVE DailyFresh
  <2>1. (\A r \in Req : pc[r] \in {"idle", "ok"}) => Behind = {} BY DEF Behind, AddingStars
  <2>2. QED BY <1>1, <2>1 DEF DailyInv, DayFresh, DailyFresh
<1>2. QED BY <1>1, AlwaysDaily, PTL


-----------------------------------------------------------------------------
(* The attempt the request is making, the tables its reward goes to, and what a table adds up. *)
New(r) == NewAttempt(r, loc[r].pct)
DueTables(r) == IF Kind(r) = "levelquiz" THEN {"level", "grade"} ELSE Tables
KindsOf(t) == IF t = "lesson" THEN {"practice", "quiz"} ELSE {"practice", "quiz", "levelquiz"}
Expected(t) == EarnedBy(KindsOf(t))

(* An attempt, that the activity is not passed without, at an activity that earns. *)
Fresh(r) == r \notin passed /\ Kind(r) # "baseline"

(* From the moment the reward is worked out to the insert of the attempt, and to the commit. *)
Reckoning == {"passold", "tried", "old", "newest", "begin", "find", "insert", "answers"}
Rewarded  == {"read", "write", "active", "commit"}
Settled   == {"newest", "begin", "find", "insert", "answers"} \cup Rewarded

(* The reward is worked out right: what the attempt adds to what the activity has earned. *)
Owed(r) ==
    /\ loc[r].add = New(r).points
    /\ Earned(ActivityOf[r]) = IF loc[r].due THEN 0 ELSE New(r).points

(* What the request's variables hold, by the place it is at. *)
Reckoned(r) ==
    /\ pc[r] \in Reckoning => tab[r] = FirstTable(r)
    /\ pc[r] = "passold" => r \in passed
    /\ pc[r] \in {"tried", "old", "newest"} => Fresh(r)
    /\ pc[r] \in Settled \cup {"tried", "old"} /\ Fresh(r) => ~ispass(ActivityOf[r])
    /\ pc[r] = "old" => (loc[r].due <=> ~hasTried(ActivityOf[r]))
    /\ pc[r] = "newest" => Rule /\ Kind(r) = "quiz" /\ ~New(r).pass
    /\ pc[r] \in Settled => IF Fresh(r) THEN Owed(r) ELSE ~loc[r].due
    /\ r \in pending => row[r].points = New(r).points /\ row[r].pass = New(r).pass

(* An uncommitted write of a progress row holds the new total, in the one row there is. *)
Written(r, t) ==
    /\ t \in DueTables(r) /\ loc[r].due
    /\ writes[r][t].row \in ProgressRow /\ writes[r][t].row.points = Expected(t) + New(r).points
    /\ writes[r][t].id \in Req /\ \A s \in Req : agg[t][s] # NoRow => s = writes[r][t].id

(* What the request's transaction has written, by the place it is at. *)
Wrote(r) ==
    /\ writes[r] # NoWrites => pc[r] \in Rewarded
    /\ \A t \in Tables : writes[r][t] # NoWrite => Written(r, t)
    /\ pc[r] \in {"read", "write"} =>
          /\ loc[r].due /\ tab[r] \in DueTables(r)
          /\ \A t \in DueTables(r) \ Ahead(tab[r]) : writes[r][t] # NoWrite
    /\ pc[r] = "write" =>
          /\ \A s \in Req : agg[tab[r]][s] # NoRow => s = loc[r].id
          /\ loc[r].seen = agg[tab[r]][loc[r].id]
    /\ pc[r] \in {"active", "commit"} /\ r \in pending /\ loc[r].due => \A t \in DueTables(r) : writes[r][t] # NoWrite

(* One row at most, which holds n points, or no row and nothing to hold. *)
Holds(t, n) ==
    /\ \A s, u \in Req : agg[t][s] # NoRow /\ agg[t][u] # NoRow => s = u
    /\ \A s \in Req : agg[t][s] # NoRow => agg[t][s].points = n
    /\ (\A s \in Req : agg[t][s] = NoRow) => n = 0

RightTotals == \A t \in Tables : Holds(t, Expected(t))

(* Every attempt row holds what its attempt is worth under the rule. *)
RowsWorth == \A s \in stored \cup pending : row[s].points = AttemptPoints(s, row[s].pass)

Claim(r) == Reckoned(r) /\ Wrote(r)

LedgerInv == Alone /\ RowsWorth /\ RightTotals /\ \A r \in Req : Claim(r)

-----------------------------------------------------------------------------
(* What an activity has earned is a number of points, at most its worth; so is what a table adds up. *)
LEMMA EarnedTyped ==
    /\ \A a \in Activities : Earned(a) \in Nat /\ Worth[a] \in Nat /\ Earned(a) <= Worth[a]
    /\ \A t \in Tables : Expected(t) \in Nat
<1>1. ASSUME NEW a \in Activities PROVE Earned(a) \in Nat /\ Worth[a] \in Nat /\ Earned(a) <= Worth[a]
  <2>1. Worth[a] \in Nat BY SubmissionAssumption
  <2>2. Earned(a) = Worth[a] \/ Earned(a) = 0 BY DEF Earned
  <2>3. QED BY <2>1, <2>2
<1>2. ASSUME NEW t \in Tables PROVE Expected(t) \in Nat
  <2> DEFINE f == [a \in Activities |-> Earned(a)]
             S == OfKinds(KindsOf(t))
  <2>1. S \subseteq Activities /\ IsFiniteSet(S) BY SubmissionAssumption, FS_Subset DEF OfKinds
  <2>2. \A a \in S : f[a] \in Nat BY <1>1, <2>1
  <2>3. Expected(t) = SumFunctionOnSet(f, S) BY DEF Expected, EarnedBy
  <2> HIDE DEF f, S
  <2>4. QED BY <2>1, <2>2, <2>3, SumNat
<1>3. QED BY <1>1, <1>2

(* A change of what one activity has earned changes the tables that add it up by as much. *)
LEMMA ExpectedChange ==
    ASSUME NEW b \in Activities, \A a \in Activities \ {b} : Earned(a)' = Earned(a), NEW t \in Tables, Earned(b)' \in Nat
    PROVE  Expected(t)' = IF KindOf[b] \in KindsOf(t) THEN Expected(t) + (Earned(b)' - Earned(b)) ELSE Expected(t)
<1> DEFINE f == [a \in Activities |-> Earned(a)]
           e == [a \in Activities |-> Earned(a)']
           S == OfKinds(KindsOf(t))
<1>1. S \subseteq Activities /\ IsFiniteSet(S) BY SubmissionAssumption, FS_Subset DEF OfKinds
<1>2. Expected(t) = SumFunctionOnSet(f, S) BY DEF Expected, EarnedBy
<1>3. Expected(t)' = SumFunctionOnSet(e, S) BY DEF Expected, EarnedBy, KindsOf, OfKinds
<1>4. \A a \in S : f[a] = Earned(a) /\ e[a] = Earned(a)' BY <1>1
<1>5. \A a \in S : f[a] \in Int /\ e[a] \in Int
  <2> SUFFICES ASSUME NEW a \in S PROVE f[a] \in Int /\ e[a] \in Int OBVIOUS
  <2>1. a \in Activities /\ Earned(a) \in Nat BY <1>1, EarnedTyped
  <2>2. Earned(a)' \in Nat BY <2>1
  <2>3. QED BY <1>4, <2>1, <2>2
<1>6. \A a \in S \ {b} : e[a] = f[a] BY <1>1, <1>4
<1>7. b \in S <=> KindOf[b] \in KindsOf(t) BY DEF OfKinds
<1>8. CASE b \in S
  <2>1. f[b] = Earned(b) /\ e[b] = Earned(b)' BY <1>4, <1>8
  <2> HIDE DEF f, e, S
  <2>2. SumFunctionOnSet(e, S) = SumFunctionOnSet(f, S) + (e[b] - f[b]) BY <1>1, <1>5, <1>6, <1>8, SumChange
  <2>3. QED BY <1>2, <1>3, <1>7, <1>8, <2>1, <2>2
<1>9. CASE b \notin S
  <2>1. \A a \in S : f[a] = e[a] BY <1>6, <1>9
  <2> HIDE DEF f, e, S
  <2>2. SumFunctionOnSet(f, S) = SumFunctionOnSet(e, S) BY <1>1, <2>1, SumSame
  <2>3. QED BY <1>2, <1>3, <1>7, <1>9, <2>2
<1>10. QED BY <1>8, <1>9

(* What is known of the stored attempts stays. *)
Kept ==
    /\ \A a \in Activities : Earned(a)' = Earned(a) /\ (ispass(a)' <=> ispass(a)) /\ (hasTried(a)' <=> hasTried(a))
    /\ \A t \in Tables : Expected(t)' = Expected(t)

(* So it does while the stored rows are the same. *)
LEMMA SameRowsKept ==
    ASSUME stored' = stored, \A s \in stored : row'[s] = row[s]
    PROVE  Kept
<1>1. ASSUME NEW a \in Activities PROVE Rows(a)' = Rows(a) BY DEF Rows
<1>2. ASSUME NEW a \in Activities PROVE (ispass(a)' <=> ispass(a)) /\ (hasTried(a)' <=> hasTried(a))
  <2>1. Rows(a) \subseteq stored BY DEF Rows
  <2>2. QED BY <1>1, <2>1 DEF ispass, hasTried
<1>3. ASSUME NEW a \in Activities PROVE Earned(a)' = Earned(a) BY <1>2 DEF Earned
<1>4. ASSUME NEW t \in Tables PROVE Expected(t)' = Expected(t)
  <2>1. [a \in Activities |-> Earned(a)]' = [a \in Activities |-> Earned(a)] BY <1>3
  <2>2. QED BY <2>1 DEF Expected, EarnedBy, KindsOf, OfKinds
<1>5. QED BY <1>2, <1>3, <1>4 DEF Kept

(* Every step but the commit keeps it. *)
LEMMA StepKept ==
    ASSUME Sound, NEW r \in Req, Receive(r) \/ Step(r) \/ Timeout(r) \/ Fail(r), ~Commit(r)
    PROVE  Kept
<1>0. TypeOK /\ Located(r) BY DEF Sound, IInv, TypeInv
<1>1. \A s \in Req \ {r} : row'[s] = row[s] BY <1>0, OthersUntouched DEF Untouched
<1>2. r \in stored => row'[r] = row[r]
  <2>1. r \in stored => ~Insert(r) /\ ~insertquestion(r)
    BY <1>0 DEF Insert, insertquestion, Located, AddingStars, Closing, Ended
  <2>2. QED BY <2>1, RowChanges
<1>3. stored \subseteq Req BY <1>0 DEF TypeOK
<1>4. \A s \in stored : row'[s] = row[s] BY <1>1, <1>2, <1>3
<1>5. stored' = stored BY StoredChanges
<1>6. QED BY <1>4, <1>5, SameRowsKept

(* Where nothing is inserted or written there is nothing to claim. *)
LEMMA NothingWritten ==
    ASSUME NEW r \in Req, writes'[r] = NoWrites, pc'[r] \notin {"read", "write"}, r \notin pending'
    PROVE  Wrote(r)'
<1>1. \A t \in Tables : writes'[r][t] = NoWrite BY DEF NoWrites
<1>2. QED BY <1>1 DEF Wrote

(* Before and after the transaction there is nothing to claim at all. *)
LEMMA NothingClaimed ==
    ASSUME NEW r \in Req, writes'[r] = NoWrites, r \notin pending', pc'[r] \notin Reckoning \cup Rewarded
    PROVE  Claim(r)'
<1>1. Wrote(r)' BY NothingWritten DEF Rewarded
<1>2. Reckoned(r)' BY DEF Reckoned, Reckoning, Settled
<1>3. QED BY <1>1, <1>2 DEF Claim

(* A step of the only request in progress leaves the others with nothing to claim. *)
LEMMA LedgerOthers ==
    ASSUME Serial, Sound, LedgerInv, NEW r \in Req, Receive(r) \/ Step(r) \/ Timeout(r) \/ Fail(r),
           NEW q \in Req, q # r
    PROVE  Claim(q)'
<1>0. TypeOK /\ Untouched(q) BY OthersUntouched DEF Sound, TypeInv
<1>1. q \notin InFlight
  <2>1. CASE Receive(r) BY <2>1 DEF Receive, Quiet
  <2>2. CASE ~Receive(r) BY <2>2, Moving DEF Alone, LedgerInv
  <2>3. QED BY <2>1, <2>2
<1>2. pc[q] \in Ended \cup {"idle"} BY <1>1 DEF InFlight
<1>3. q \notin pending BY <1>1, NothingPending
<1>4. writes[q] = NoWrites BY <1>2 DEF LedgerInv, Claim, Wrote, Rewarded, Ended
<1>5. QED BY <1>0, <1>2, <1>3, <1>4, NothingClaimed DEF Untouched, Ended, Reckoning, Rewarded

(* Only the insert makes a row, and nothing changes what it holds. *)
LEMMA WorthKept ==
    ASSUME Sound, LedgerInv, NEW r \in Req, Receive(r) \/ Step(r) \/ Timeout(r) \/ Fail(r), ~Insert(r)
    PROVE  RowsWorth'
<1>0. TypeOK /\ row \in [Req -> Attempt] /\ stored \cup pending \subseteq Req BY DEF Sound, TypeInv, TypeOK
<1>1. stored' \cup pending' \subseteq stored \cup pending
  BY DEF Receive, Step, Timeout, Fail, Abort, EndTransaction, AskPassOld, AskTried, AskOld, AskNewest, SumHeld, Asks,
         Begin, Find, insertquestion, Recover, Reply, ReadTotal, ReadStars, FindDaily, WriteDaily, setstudentactive,
         WriteTotal, Commit, WriteStars, txvars, dbvars
<1>2. \A s \in Req : row'[s].points = row[s].points /\ row'[s].pass = row[s].pass
  <2>1. CASE insertquestion(r) BY <1>0, <2>1 DEF insertquestion, Attempt
  <2>2. CASE ~insertquestion(r) BY <2>2, RowChanges
  <2>3. QED BY <2>1, <2>2
<1>3. ASSUME NEW s \in stored' \cup pending' PROVE row'[s].points = AttemptPoints(s, row'[s].pass)
  <2>1. s \in stored \cup pending /\ s \in Req BY <1>0, <1>1
  <2>2. row[s].points = AttemptPoints(s, row[s].pass) BY <2>1 DEF LedgerInv, RowsWorth
  <2>3. QED BY <1>2, <2>1, <2>2
<1>4. QED BY <1>3 DEF RowsWorth, AttemptPoints, Kind, Points

(* Enough to show of a step that leaves the progress tables alone. *)
LEMMA LedgerLocal ==
    ASSUME Serial, Sound, LedgerInv, [Next]_vars, NEW r \in Req, Receive(r) \/ Step(r) \/ Timeout(r) \/ Fail(r),
           ~Commit(r), ~WriteStars(r), RowsWorth', Claim(r)'
    PROVE  LedgerInv'
<1>1. agg' = agg
  BY DEF Receive, Step, Timeout, Fail, Abort, AskPassOld, AskTried, AskOld, AskNewest, SumHeld, Asks, Begin, Find,
         Insert, insertquestion, Recover, Reply, ReadTotal, ReadStars, FindDaily, WriteDaily, setstudentactive,
         WriteTotal, dbvars
<1>2. Kept BY StepKept
<1>3. RightTotals'
  <2> SUFFICES ASSUME NEW t \in Tables PROVE Holds(t, Expected(t))' BY DEF RightTotals
  <2>1. Holds(t, Expected(t)) /\ Expected(t)' = Expected(t) BY <1>2 DEF LedgerInv, RightTotals, Kept
  <2>2. QED BY <1>1, <2>1 DEF Holds
<1>4. Alone' BY AloneStep DEF LedgerInv
<1>5. \A q \in Req : Claim(q)' BY LedgerOthers
<1>6. QED BY <1>3, <1>4, <1>5 DEF LedgerInv

-----------------------------------------------------------------------------
(* What an attempt is worth. *)
LEMMA AttemptWorth ==
    ASSUME NEW r \in Req
    PROVE  /\ Points(r) \in Nat /\ ActivityOf[r] \in Activities
           /\ \A pass \in BOOLEAN :
                 AttemptPoints(r, pass) = IF Rule /\ Kind(r) = "quiz" /\ ~pass THEN 0 ELSE Points(r)
           /\ Earned(ActivityOf[r]) =
                 IF (IF Rule /\ Kind(r) = "quiz" THEN ispass(ActivityOf[r]) ELSE hasTried(ActivityOf[r]))
                 THEN Points(r) ELSE 0
<1>1. Points(r) \in Nat /\ ActivityOf[r] \in Activities BY SubmissionAssumption DEF Points
<1>2. QED BY <1>1 DEF AttemptPoints, lessonQuizAttemptPoints, Earned, Kind, Points

(* A stored attempt at the same activity holds what one of this request's would. *)
LEMMA RowsHold ==
    ASSUME Sound, RowsWorth, NEW r \in Req, NEW s \in Rows(ActivityOf[r])
    PROVE  s \in Req /\ row[s].pass \in BOOLEAN /\ row[s].points = AttemptPoints(r, row[s].pass)
<1>1. s \in stored /\ ActivityOf[s] = ActivityOf[r] BY DEF Rows
<1>2. s \in Req /\ row[s].pass \in BOOLEAN BY <1>1 DEF Sound, TypeInv, TypeOK, Attempt
<1>3. row[s].points = AttemptPoints(s, row[s].pass) BY <1>1 DEF RowsWorth
<1>4. AttemptPoints(s, row[s].pass) = AttemptPoints(r, row[s].pass) BY <1>1 DEF AttemptPoints, Kind, Points
<1>5. QED BY <1>2, <1>3, <1>4

(* A new attempt's pass and points. *)
LEMMA NewHolds ==
    ASSUME NEW r \in Req, NEW pct
    PROVE  /\ NewAttempt(r, pct).pass \in BOOLEAN
           /\ NewAttempt(r, pct).points = AttemptPoints(r, NewAttempt(r, pct).pass)
<1> DEFINE passes == pct >= COMPLETED_PERCENTAGE
<1>1. passes \in BOOLEAN OBVIOUS
<1>2. NewAttempt(r, pct).pass = passes /\ NewAttempt(r, pct).points = AttemptPoints(r, passes) BY DEF NewAttempt
<1>3. QED BY <1>1, <1>2

(* The request arrives, with its result. *)
LEMMA ReceiveLedger ==
    ASSUME Serial, Sound, LedgerInv, [Next]_vars, NEW r \in Req, Receive(r)
    PROVE  LedgerInv'
<1>0. /\ TypeOK /\ pc \in [Req -> Steps] /\ loc \in [Req -> Local] /\ tab \in [Req -> Tables] /\ Located(r)
      /\ Reckoned(r) /\ Wrote(r)
  BY DEF Sound, TypeInv, TypeOK, IInv, LedgerInv, Claim
<1>1. pc[r] = "idle" /\ r \notin pending /\ writes[r] = NoWrites /\ r \notin passed
  BY <1>0 DEF Receive, Located, AfterInsert, Wrote, Rewarded
<1>2. pending' = pending /\ writes' = writes /\ tab'[r] = FirstTable(r) BY <1>0 DEF Receive, txvars
<1>3. Kept BY StepKept DEF Receive, Commit
<1>4. pc'[r] \in {"passold", "begin", "tried"} BY <1>0 DEF Receive, Goto
<1>5. Wrote(r)' BY <1>1, <1>2, <1>4, NothingWritten
<1>6. Reckoned(r)'
  <2>1. CASE Kind(r) # "baseline" /\ ispass(ActivityOf[r])
    <3>1. pc'[r] = "passold" /\ r \in passed' BY <1>0, <2>1 DEF Receive, Goto
    <3>2. QED BY <1>1, <1>2, <3>1 DEF Reckoned, Settled, Rewarded
  <2>2. CASE ~(Kind(r) # "baseline" /\ ispass(ActivityOf[r])) /\ Kind(r) = "baseline"
    <3>1. pc'[r] = "begin" /\ passed' = passed /\ ~loc'[r].due BY <1>0, <2>2 DEF Receive, Goto, Blank
    <3>2. ~Fresh(r)' BY <2>2 DEF Fresh, Kind
    <3>3. QED BY <1>1, <1>2, <3>1, <3>2 DEF Reckoned
  <2>3. CASE Kind(r) # "baseline" /\ ~ispass(ActivityOf[r])
    <3>1. pc'[r] = "tried" /\ passed' = passed BY <1>0, <2>3 DEF Receive, Goto
    <3>2. Fresh(r)' BY <1>1, <2>3, <3>1 DEF Fresh, Kind
    <3>3. ~ispass(ActivityOf[r])' BY <1>3, <2>3, AttemptWorth DEF Kept
    <3>4. QED BY <1>1, <1>2, <3>1, <3>2, <3>3 DEF Reckoned, Settled, Rewarded
  <2>4. QED BY <2>1, <2>2, <2>3
<1>7. ~Commit(r) /\ ~WriteStars(r) /\ ~Insert(r) BY <1>1 DEF Commit, WriteStars, Insert
<1>8. QED BY <1>5, <1>6, <1>7, WorthKept, LedgerLocal DEF Claim

(* What the reads before the transaction have in common. *)
LEMMA AskLedger ==
    ASSUME Serial, Sound, LedgerInv, [Next]_vars, NEW r \in Req, Step(r), NEW at \in {"passold", "tried", "old", "newest"},
           NEW then \in {"old", "newest", "begin"}, NEW new, Asks(r, at, then, new), Reckoned(r)'
    PROVE  LedgerInv'
<1>0. pc \in [Req -> Steps] /\ Located(r) /\ Wrote(r) BY DEF Sound, TypeInv, TypeOK, IInv, LedgerInv, Claim
<1>1. pc[r] = at /\ pc'[r] = then /\ pending' = pending /\ writes' = writes BY <1>0 DEF Asks, Goto, txvars
<1>2. r \notin pending /\ writes[r] = NoWrites BY <1>0, <1>1 DEF Located, AfterInsert, Wrote, Rewarded
<1>3. Wrote(r)' BY <1>1, <1>2, NothingWritten
<1>4. ~Commit(r) /\ ~WriteStars(r) /\ ~Insert(r) BY <1>1 DEF Commit, WriteStars, Insert
<1>5. QED BY <1>3, <1>4, WorthKept, LedgerLocal DEF Claim

(* The points of a passed activity have not changed: its reward is not due again. *)
LEMMA AskPassOldLedger ==
    ASSUME Serial, Sound, LedgerInv, [Next]_vars, NEW r \in Req, AskPassOld(r)
    PROVE  LedgerInv'
<1>0. pc \in [Req -> Steps] /\ loc \in [Req -> Local] /\ Located(r) /\ Reckoned(r) /\ TypeOK /\ RowsWorth
  BY DEF Sound, TypeInv, TypeOK, IInv, LedgerInv, Claim
<1> DEFINE a == ActivityOf[r]
           old == IF Rule /\ Kind(r) = "quiz" THEN getpassoldpoints(a, Points(r)) ELSE getoldpoints(a, Points(r))
           new == [loc[r] EXCEPT !.old = old, !.due = old # NoOld, !.add = Delta(Points(r), old)]
<1>1. Asks(r, "passold", "begin", new) BY DEF AskPassOld
<1>2. pc[r] = "passold" /\ pc'[r] = "begin" /\ loc'[r] = new /\ tab' = tab /\ passed' = passed /\ pending' = pending
  BY <1>0, <1>1 DEF Asks, Goto, txvars
<1>3. r \in passed /\ r \notin pending /\ tab[r] = FirstTable(r)
  BY <1>0, <1>2 DEF Reckoned, Located, AfterInsert, Reckoning
<1>4. Rows(a) \subseteq Req BY <1>0 DEF Rows, TypeOK
<1>5. old = NoOld
  <2>1. CASE Rule /\ Kind(r) = "quiz"
    <3> DEFINE ps == {s \in Rows(a) : row[s].pass}
    <3>1. ps # {} => Oldest(ps) \in ps BY <1>4, NewestIn
    <3>2. \A s \in ps : row[s].points = Points(r)
      <4> SUFFICES ASSUME NEW s \in ps PROVE row[s].points = Points(r) OBVIOUS
      <4>1. s \in Rows(ActivityOf[r]) /\ row[s].pass OBVIOUS
      <4>2. QED BY <1>0, <4>1, RowsHold, AttemptWorth
    <3>3. old = OldPoints(ps, Oldest(ps), Points(r)) BY <2>1 DEF getpassoldpoints
    <3> HIDE DEF ps, old
    <3>4. QED BY <3>1, <3>2, <3>3 DEF OldPoints
  <2>2. CASE ~(Rule /\ Kind(r) = "quiz")
    <3>1. Rows(a) # {} => Newest(Rows(a)) \in Rows(a) BY <1>4, NewestIn
    <3>2. \A s \in Rows(a) : row[s].points = Points(r) BY <1>0, <2>2, RowsHold, AttemptWorth
    <3>3. old = OldPoints(Rows(a), Newest(Rows(a)), Points(r)) BY <2>2 DEF getoldpoints
    <3> HIDE DEF a, old
    <3>4. QED BY <3>1, <3>2, <3>3 DEF OldPoints
  <2>3. QED BY <2>1, <2>2
<1>6. ~loc'[r].due
  <2> HIDE DEF old
  <2>1. loc[r] \in Local BY <1>0
  <2>2. new.due = (old # NoOld) BY <2>1 DEF Local
  <2>3. QED BY <1>2, <1>5, <2>2
<1> HIDE DEF new, old, a
<1>7. Reckoned(r)' BY <1>2, <1>3, <1>6 DEF Reckoned, Fresh
<1>8. QED BY <1>1, <1>7, AskLedger DEF Step

(* Has the activity been tried? *)
LEMMA AskTriedLedger ==
    ASSUME Serial, Sound, LedgerInv, [Next]_vars, NEW r \in Req, AskTried(r)
    PROVE  LedgerInv'
<1>0. pc \in [Req -> Steps] /\ loc \in [Req -> Local] /\ Located(r) /\ Reckoned(r)
  BY DEF Sound, TypeInv, TypeOK, IInv, LedgerInv, Claim
<1> DEFINE new == [loc[r] EXCEPT !.due = ~hasTried(ActivityOf[r])]
<1>1. Asks(r, "tried", "old", new) /\ Step(r) BY DEF AskTried, Step
<1>2. pc[r] = "tried" /\ pc'[r] = "old" /\ loc'[r] = new /\ tab' = tab /\ passed' = passed /\ pending' = pending
  BY <1>0, <1>1 DEF Asks, Goto, txvars
<1>3. Fresh(r) /\ r \notin pending /\ tab[r] = FirstTable(r) /\ ~ispass(ActivityOf[r])
  BY <1>0, <1>2 DEF Reckoned, Located, AfterInsert, Reckoning
<1>4. loc'[r].due = ~hasTried(ActivityOf[r]) BY <1>0, <1>2 DEF Local
<1>5. Kept BY <1>1, <1>2, StepKept DEF Commit
<1>6. (ispass(ActivityOf[r])' <=> ispass(ActivityOf[r])) /\ (hasTried(ActivityOf[r])' <=> hasTried(ActivityOf[r]))
  BY <1>5, AttemptWorth DEF Kept
<1>7. Fresh(r)' BY <1>2, <1>3 DEF Fresh, Kind
<1> HIDE DEF new
<1>8. Reckoned(r)' BY <1>2, <1>3, <1>4, <1>6, <1>7 DEF Reckoned, Settled, Rewarded
<1>9. QED BY <1>1, <1>8, AskLedger

(* What an attempt that no earlier one passed is owed, given what the activity holds. *)
LEMMA OwedFacts ==
    ASSUME Sound, RowsWorth, NEW r \in Req, NEW pct, ~ispass(ActivityOf[r]),
           NEW new, new = NewAttempt(r, pct).points, NEW old, old = getoldpoints(ActivityOf[r], new)
    PROVE  /\ new \in Nat /\ Delta(new, old) = new
           /\ Earned(ActivityOf[r]) = IF ~hasTried(ActivityOf[r]) \/ old # NoOld THEN 0 ELSE new
<1> DEFINE a == ActivityOf[r]
           pass == NewAttempt(r, pct).pass
<1>1. pass \in BOOLEAN /\ new = AttemptPoints(r, pass) BY NewHolds
<1>2. Points(r) \in Nat BY AttemptWorth
<1>3. new = IF Rule /\ Kind(r) = "quiz" /\ ~pass THEN 0 ELSE Points(r) BY <1>1, AttemptWorth
<1>4. new \in Nat BY <1>2, <1>3
<1>5. Rows(a) \subseteq Req BY DEF Rows, Sound, TypeInv, TypeOK
<1>6. Rows(a) # {} => Newest(Rows(a)) \in Rows(a) BY <1>5, NewestIn
<1>7. ASSUME NEW s \in Rows(a) PROVE row[s].points = IF Rule /\ Kind(r) = "quiz" THEN 0 ELSE Points(r)
  <2>1. row[s].pass = FALSE BY RowsHold DEF ispass
  <2>2. row[s].points = AttemptPoints(r, FALSE) BY <2>1, RowsHold
  <2>3. QED BY <2>2, AttemptWorth
<1>8. old = IF Rows(a) # {} /\ row[Newest(Rows(a))].points # new THEN row[Newest(Rows(a))].points ELSE NoOld
  BY DEF getoldpoints, OldPoints
<1>9. Earned(a) = IF Rule /\ Kind(r) = "quiz" THEN 0 ELSE IF Rows(a) # {} THEN Points(r) ELSE 0
  BY AttemptWorth DEF hasTried
<1>10. hasTried(a) <=> Rows(a) # {} BY DEF hasTried
<1> HIDE DEF a, pass
<1>11. CASE Rule /\ Kind(r) = "quiz"
  <2>1. old \in {NoOld, 0} BY <1>6, <1>7, <1>8, <1>11
  <2>2. Delta(new, old) = new BY <2>1 DEF Delta
  <2>3. Rows(a) # {} /\ old = NoOld => new = 0 BY <1>6, <1>7, <1>8, <1>11 DEF NoOld
  <2>4. QED BY <1>4, <1>9, <1>10, <1>11, <2>2, <2>3 DEF a
<1>12. CASE ~(Rule /\ Kind(r) = "quiz")
  <2>1. old = NoOld BY <1>3, <1>6, <1>7, <1>8, <1>12
  <2>2. Delta(new, old) = new BY <2>1 DEF Delta
  <2>3. QED BY <1>3, <1>4, <1>9, <1>10, <1>12, <2>1, <2>2 DEF a
<1>13. QED BY <1>11, <1>12

(* The points of an earlier attempt: what is due, and how much. *)
LEMMA AskOldLedger ==
    ASSUME Serial, Sound, LedgerInv, [Next]_vars, NEW r \in Req, AskOld(r)
    PROVE  LedgerInv'
<1>0. pc \in [Req -> Steps] /\ loc \in [Req -> Local] /\ Located(r) /\ Reckoned(r) /\ RowsWorth
  BY DEF Sound, TypeInv, TypeOK, IInv, LedgerInv, Claim
<1> DEFINE at == NewAttempt(r, loc[r].pct)
           old == getoldpoints(ActivityOf[r], at.points)
           step == IF Rule /\ Kind(r) = "quiz" /\ ~at.pass THEN "newest" ELSE "begin"
           new == [loc[r] EXCEPT !.old = old, !.due = @ \/ old # NoOld, !.add = Delta(at.points, old)]
<1>1. Asks(r, "old", step, new) /\ Step(r) BY DEF AskOld, Step
<1>2. pc[r] = "old" /\ pc'[r] = step /\ loc'[r] = new /\ tab' = tab /\ passed' = passed /\ pending' = pending
  BY <1>0, <1>1 DEF Asks, Goto, txvars
<1>3. /\ Fresh(r) /\ r \notin pending /\ tab[r] = FirstTable(r) /\ ~ispass(ActivityOf[r])
      /\ loc[r].due <=> ~hasTried(ActivityOf[r])
  BY <1>0, <1>2 DEF Reckoned, Located, AfterInsert, Reckoning
<1>4. /\ at.points \in Nat /\ Delta(at.points, old) = at.points
      /\ Earned(ActivityOf[r]) = IF ~hasTried(ActivityOf[r]) \/ old # NoOld THEN 0 ELSE at.points
  BY <1>0, <1>3, OwedFacts
<1>5. new.pct = loc[r].pct /\ new.due = (loc[r].due \/ old # NoOld) /\ new.add = Delta(at.points, old)
  <2> HIDE DEF old, at
  <2>1. loc[r] \in Local BY <1>0
  <2>2. QED BY <2>1 DEF Local
<1>6. New(r)' = at BY <1>2, <1>5 DEF New, NewAttempt, AttemptPoints, Kind, Points
<1>7. Kept BY <1>1, <1>2, StepKept DEF Commit
<1>8. (ispass(ActivityOf[r])' <=> ispass(ActivityOf[r])) /\ Earned(ActivityOf[r])' = Earned(ActivityOf[r])
  BY <1>7, AttemptWorth DEF Kept
<1>9. Fresh(r)' BY <1>2, <1>3 DEF Fresh, Kind
<1>10. step \in {"newest", "begin"} /\ (step = "newest" => Rule /\ Kind(r) = "quiz" /\ ~at.pass) OBVIOUS
<1> HIDE DEF at, old, step, new
<1>11. Owed(r)' BY <1>2, <1>3, <1>4, <1>5, <1>6, <1>8 DEF Owed
<1>12. Reckoned(r)' BY <1>2, <1>3, <1>6, <1>8, <1>9, <1>10, <1>11 DEF Reckoned, Kind
<1>13. QED BY <1>1, <1>10, <1>12, AskLedger

(* A failed attempt earns nothing, whether a later one is stored or not. *)
LEMMA AskNewestLedger ==
    ASSUME Serial, Sound, LedgerInv, [Next]_vars, NEW r \in Req, AskNewest(r)
    PROVE  LedgerInv'
<1>0. pc \in [Req -> Steps] /\ loc \in [Req -> Local] /\ Located(r) /\ Reckoned(r)
  BY DEF Sound, TypeInv, TypeOK, IInv, LedgerInv, Claim
<1> DEFINE rs == Rows(ActivityOf[r])
           stale == rs # {} /\ StartOf[Newest(rs)] > StartOf[r]
           new == [loc[r] EXCEPT !.due = @ /\ ~stale]
<1>1. Asks(r, "newest", "begin", new) /\ Step(r) BY DEF AskNewest, Step
<1>2. pc[r] = "newest" /\ pc'[r] = "begin" /\ loc'[r] = new /\ tab' = tab /\ passed' = passed /\ pending' = pending
  BY <1>0, <1>1 DEF Asks, Goto, txvars
<1>3. /\ Fresh(r) /\ r \notin pending /\ tab[r] = FirstTable(r) /\ ~ispass(ActivityOf[r]) /\ Owed(r)
      /\ Rule /\ Kind(r) = "quiz" /\ ~New(r).pass
  BY <1>0, <1>2 DEF Reckoned, Located, AfterInsert, Reckoning, Settled
<1>4. new.pct = loc[r].pct /\ new.add = loc[r].add
  <2> HIDE DEF stale
  <2>1. loc[r] \in Local BY <1>0
  <2>2. QED BY <2>1 DEF Local
<1>5. New(r)' = New(r) BY <1>2, <1>4 DEF New, NewAttempt, AttemptPoints, Kind, Points
<1>6. New(r).points = 0 /\ Earned(ActivityOf[r]) = 0
  <2>1. New(r).points = AttemptPoints(r, New(r).pass) /\ New(r).pass \in BOOLEAN BY NewHolds DEF New
  <2>2. QED BY <1>3, <2>1, AttemptWorth
<1>7. Kept BY <1>1, <1>2, StepKept DEF Commit
<1>8. (ispass(ActivityOf[r])' <=> ispass(ActivityOf[r])) /\ Earned(ActivityOf[r])' = Earned(ActivityOf[r])
  BY <1>7, AttemptWorth DEF Kept
<1>9. Fresh(r)' BY <1>2, <1>3 DEF Fresh, Kind
<1> HIDE DEF new
<1>10. Owed(r)' BY <1>2, <1>3, <1>4, <1>5, <1>6, <1>8 DEF Owed
<1>11. Reckoned(r)' BY <1>2, <1>3, <1>8, <1>9, <1>10 DEF Reckoned
<1>12. QED BY <1>1, <1>11, AskLedger

(* Up to the insert: the transaction is opened, the row looked for and inserted. *)
LEMMA BeginLedger ==
    ASSUME Serial, Sound, LedgerInv, [Next]_vars, NEW r \in Req, Begin(r) \/ Find(r)
    PROVE  LedgerInv'
<1>0. pc \in [Req -> Steps] /\ Located(r) /\ Reckoned(r) /\ Wrote(r)
  BY DEF Sound, TypeInv, TypeOK, IInv, LedgerInv, Claim
<1>1. /\ pc[r] \in {"begin", "find"} /\ UNCHANGED <<loc, tab, passed, pending, writes>> /\ Step(r)
      /\ pc'[r] \in {"find", "insert", "active"}
  <2>1. CASE Begin(r)
    <3>1. r \in passed => Rewarding(r) = "active"
      BY <1>0, <2>1 DEF Begin, Reckoned, Settled, Fresh, Rewarding
    <3>2. QED BY <1>0, <2>1, <3>1 DEF Begin, Goto, Step
  <2>2. CASE Find(r) BY <1>0, <2>2 DEF Find, Goto, txvars, Step
  <2>3. QED BY <2>1, <2>2
<1>2. r \notin pending /\ writes[r] = NoWrites
  BY <1>0, <1>1 DEF Located, AfterInsert, Wrote, Rewarded
<1>3. Wrote(r)' BY <1>1, <1>2, NothingWritten
<1>4. Kept BY <1>1, StepKept DEF Commit
<1>5. (ispass(ActivityOf[r])' <=> ispass(ActivityOf[r])) /\ Earned(ActivityOf[r])' = Earned(ActivityOf[r])
  BY <1>4, AttemptWorth DEF Kept
<1>6. Fresh(r)' = Fresh(r) /\ New(r)' = New(r) BY <1>1 DEF Fresh, New, Kind, NewAttempt, AttemptPoints, Points
<1>7. Owed(r)' = Owed(r) BY <1>1, <1>5, <1>6 DEF Owed
<1>8. Reckoned(r)' BY <1>0, <1>1, <1>2, <1>5, <1>6, <1>7 DEF Reckoned, Reckoning, Settled, Rewarded
<1>9. ~Commit(r) /\ ~WriteStars(r) /\ ~Insert(r) BY <1>1 DEF Commit, WriteStars, Insert
<1>10. QED BY <1>1, <1>3, <1>8, <1>9, WorthKept, LedgerLocal DEF Claim

(* The attempt is inserted, with the points it was reckoned to have, or its key is taken. *)
LEMMA InsertLedger ==
    ASSUME Serial, Sound, LedgerInv, [Next]_vars, NEW r \in Req, Insert(r)
    PROVE  LedgerInv'
<1>0. /\ pc \in [Req -> Steps] /\ Located(r) /\ Reckoned(r) /\ Wrote(r) /\ RowsWorth /\ row \in [Req -> Attempt]
      /\ stored \cup pending \subseteq Req
  BY DEF Sound, TypeInv, TypeOK, IInv, LedgerInv, Claim
<1>1. pc[r] = "insert" /\ UNCHANGED <<loc, tab, passed, stored>> /\ Step(r) BY DEF Insert, Step
<1>2. r \notin pending /\ r \notin stored /\ writes[r] = NoWrites
  BY <1>0, <1>1 DEF Located, AfterInsert, AddingStars, Closing, Ended, Wrote, Rewarded
<1>3. ~Commit(r) /\ ~WriteStars(r) BY <1>1 DEF Commit, WriteStars
<1>4. CASE Duplicate(r)
  <2>1. pc'[r] \in {"recover", "conflict"} /\ pending' = pending \ {r} /\ writes'[r] = NoWrites /\ row' = row
    BY <1>0, <1>4 DEF Insert, EndTransaction, Goto
  <2>2. Claim(r)' BY <2>1, NothingClaimed DEF Reckoning, Rewarded
  <2>3. RowsWorth' BY <1>0, <1>1, <2>1 DEF RowsWorth, AttemptPoints, Kind, Points
  <2>4. QED BY <1>1, <1>3, <2>2, <2>3, LedgerLocal
<1>5. CASE ~Duplicate(r)
  <2>1. /\ pc'[r] = "answers" /\ pending' = pending \cup {r} /\ writes' = writes
        /\ row' = [row EXCEPT ![r] = NewAttempt(r, loc[r].pct)]
    BY <1>0, <1>5 DEF Insert, Goto
  <2>2. row'[r] = New(r) BY <1>0, <2>1 DEF New
  <2>3. RowsWorth'
    <3>1. ASSUME NEW s \in stored' \cup pending' PROVE row'[s].points = AttemptPoints(s, row'[s].pass)
      <4>1. CASE s = r BY <2>2, <4>1, NewHolds DEF New
      <4>2. CASE s # r
        <5>1. s \in stored \cup pending /\ row'[s] = row[s] BY <1>0, <1>1, <2>1, <4>2
        <5>2. QED BY <1>0, <5>1 DEF RowsWorth
      <4>3. QED BY <4>1, <4>2
    <3>2. QED BY <3>1 DEF RowsWorth, AttemptPoints, Kind, Points
  <2>4. Kept BY <1>1, <1>3, StepKept
  <2>5. (ispass(ActivityOf[r])' <=> ispass(ActivityOf[r])) /\ Earned(ActivityOf[r])' = Earned(ActivityOf[r])
    BY <2>4, AttemptWorth DEF Kept
  <2>6. Fresh(r)' = Fresh(r) /\ New(r)' = New(r) BY <1>1 DEF Fresh, New, Kind, NewAttempt, AttemptPoints, Points
  <2>7. Owed(r)' = Owed(r) BY <1>1, <2>5, <2>6 DEF Owed
  <2>8. Reckoned(r)' BY <1>0, <1>1, <2>1, <2>2, <2>5, <2>6, <2>7 DEF Reckoned, Reckoning, Settled, Rewarded
  <2>9. Wrote(r)'
    <3>1. \A t \in Tables : writes'[r][t] = NoWrite BY <1>2, <2>1 DEF NoWrites
    <3>2. QED BY <1>2, <2>1, <3>1 DEF Wrote
  <2>10. QED BY <1>1, <1>3, <2>3, <2>8, <2>9, LedgerLocal DEF Claim
<1>6. QED BY <1>4, <1>5

(* The tables a reward goes to start at the first of its kind and follow one another. *)
LEMMA DueFacts ==
    ASSUME NEW r \in Req
    PROVE  /\ FirstTable(r) \in DueTables(r) /\ DueTables(r) \subseteq Tables /\ "grade" \in DueTables(r)
           /\ DueTables(r) \subseteq Ahead(FirstTable(r))
           /\ \A t \in DueTables(r) : t # "grade" => NextTable(t) \in DueTables(r)
  BY DEF FirstTable, DueTables, Tables, Ahead, NextTable

(* The points of the lesson cover what its activities are worth (learning, practice and quiz points add up to it). *)
TotalCoversActivities == SumFunctionOnSet(Worth, OfKinds({"practice", "quiz"})) <= TotalOf["lesson"]

(* So what is owed always fits into the lesson. *)
LEMMA LessonFits ==
    ASSUME TotalCoversActivities, NEW r \in Req, Lessonly(r), NEW n \in Nat, n <= Points(r), Earned(ActivityOf[r]) = 0
    PROVE  Expected("lesson") + n <= TotalOf["lesson"]
<1> DEFINE a == ActivityOf[r]
           S == OfKinds({"practice", "quiz"})
           f == [b \in Activities |-> Earned(b)]
           e == [b \in Activities |-> IF b = a THEN n ELSE Earned(b)]
<1>1. S \subseteq Activities /\ IsFiniteSet(S) BY SubmissionAssumption, FS_Subset DEF OfKinds
<1>2. a \in S /\ Points(r) = Worth[a] BY AttemptWorth DEF Lessonly, Kind, OfKinds, Points
<1>3. Expected("lesson") = SumFunctionOnSet(f, S) BY DEF Expected, EarnedBy, KindsOf
<1>4. \A b \in S : f[b] \in Int /\ e[b] \in Int /\ Worth[b] \in Int /\ e[b] <= Worth[b]
  <2> SUFFICES ASSUME NEW b \in S PROVE f[b] \in Int /\ e[b] \in Int /\ Worth[b] \in Int /\ e[b] <= Worth[b]
    OBVIOUS
  <2>1. b \in Activities /\ Earned(b) \in Nat /\ Worth[b] \in Nat /\ Earned(b) <= Worth[b] BY <1>1, EarnedTyped
  <2>2. QED BY <1>2, <2>1
<1>5. \A b \in S \ {a} : e[b] = f[b] BY <1>1
<1>6. f[a] = 0 /\ e[a] = n BY <1>1, <1>2
<1>7. SumFunctionOnSet(e, S) = SumFunctionOnSet(f, S) + (e[a] - f[a])
  <2> HIDE DEF S, f, e, a
  <2>1. QED BY <1>1, <1>2, <1>4, <1>5, SumChange
<1>8. SumFunctionOnSet(e, S) <= SumFunctionOnSet(Worth, S)
  <2> HIDE DEF S, f, e, a
  <2>1. QED BY <1>1, <1>4, SumMono
<1>9. SumFunctionOnSet(Worth, S) \in Int /\ SumFunctionOnSet(f, S) \in Int
  <2> HIDE DEF S, f, e, a
  <2>1. QED BY <1>1, <1>4, SumTyped
<1>10. SumFunctionOnSet(Worth, S) <= TotalOf["lesson"] BY DEF TotalCoversActivities
<1>11. TotalOf["lesson"] \in Int BY SubmissionAssumption DEF Tables
<1> HIDE DEF S, f, e, a
<1>12. QED BY <1>3, <1>6, <1>7, <1>8, <1>9, <1>10, <1>11

(* The answers are in: on to the reward, if it is due. *)
LEMMA AnswersLedger ==
    ASSUME Serial, Sound, LedgerInv, [Next]_vars, NEW r \in Req, insertquestion(r)
    PROVE  LedgerInv'
<1>0. /\ pc \in [Req -> Steps] /\ Located(r) /\ Reckoned(r) /\ Wrote(r) /\ row \in [Req -> Attempt]
  BY DEF Sound, TypeInv, TypeOK, IInv, LedgerInv, Claim
<1>1. /\ pc[r] = "answers" /\ UNCHANGED <<loc, tab, passed, pending, writes>> /\ Step(r)
      /\ pc'[r] = IF Kind(r) = "baseline" THEN "active" ELSE Rewarding(r)
      /\ row'[r].points = row[r].points /\ row'[r].pass = row[r].pass
  BY <1>0 DEF insertquestion, Step, Goto, txvars, Attempt
<1>2. writes[r] = NoWrites /\ tab[r] = FirstTable(r) BY <1>0, <1>1 DEF Wrote, Rewarded, Reckoned, Reckoning
<1>3. Kept BY <1>1, StepKept DEF Commit
<1>4. (ispass(ActivityOf[r])' <=> ispass(ActivityOf[r])) /\ Earned(ActivityOf[r])' = Earned(ActivityOf[r])
  BY <1>3, AttemptWorth DEF Kept
<1>5. Fresh(r)' = Fresh(r) /\ New(r)' = New(r) BY <1>1 DEF Fresh, New, Kind, NewAttempt, AttemptPoints, Points
<1>6. Owed(r)' = Owed(r) BY <1>1, <1>4, <1>5 DEF Owed
<1>7. /\ pc'[r] \in {"read", "active"} /\ (pc'[r] = "read" => loc[r].due)
      /\ (loc[r].due => pc'[r] = "read")
  <2>1. Kind(r) = "baseline" => ~loc[r].due BY <1>0, <1>1 DEF Reckoned, Settled, Fresh
  <2>2. QED BY <1>1, <2>1 DEF Rewarding
<1>8. Reckoned(r)' BY <1>0, <1>1, <1>4, <1>5, <1>6, <1>7 DEF Reckoned, Reckoning, Settled, Rewarded
<1>9. Wrote(r)'
  <2>1. \A t \in Tables : writes'[r][t] = NoWrite BY <1>1, <1>2 DEF NoWrites
  <2>2. tab'[r] \in DueTables(r) /\ DueTables(r) \ Ahead(tab'[r]) = {} BY <1>1, <1>2, DueFacts
  <2>3. DueTables(r)' = DueTables(r) BY DEF DueTables, Kind
  <2>4. QED BY <1>1, <1>2, <1>7, <2>1, <2>2, <2>3 DEF Wrote
<1>10. ~Commit(r) /\ ~WriteStars(r) /\ ~Insert(r) BY <1>1 DEF Commit, WriteStars, Insert
<1>11. QED BY <1>1, <1>8, <1>9, <1>10, WorthKept, LedgerLocal DEF Claim

(* What an uncommitted write claims does not change until the commit. *)
LEMMA WrittenKept ==
    ASSUME NEW r \in Req, NEW t \in Tables, Kept, agg' = agg, writes'[r][t] = writes[r][t],
           loc'[r].due = loc[r].due, New(r)' = New(r), Written(r, t)
    PROVE  Written(r, t)'
  BY DEF Written, Kept, DueTables, Kind

(* The activity row: with the rewards written. *)
LEMMA ActiveLedger ==
    ASSUME Serial, Sound, LedgerInv, [Next]_vars, NEW r \in Req, setstudentactive(r)
    PROVE  LedgerInv'
<1>0. pc \in [Req -> Steps] /\ Reckoned(r) /\ Wrote(r) BY DEF Sound, TypeInv, TypeOK, LedgerInv, Claim
<1>1. /\ pc[r] = "active" /\ pc'[r] = "commit" /\ UNCHANGED <<loc, tab, passed, pending, writes, row, agg>> /\ Step(r)
  BY <1>0 DEF setstudentactive, Step, Goto, dbvars
<1>2. Kept BY <1>1, StepKept DEF Commit
<1>3. (ispass(ActivityOf[r])' <=> ispass(ActivityOf[r])) /\ Earned(ActivityOf[r])' = Earned(ActivityOf[r])
  BY <1>2, AttemptWorth DEF Kept
<1>4. Fresh(r)' = Fresh(r) /\ New(r)' = New(r) BY <1>1 DEF Fresh, New, Kind, NewAttempt, AttemptPoints, Points
<1>5. Owed(r)' = Owed(r) BY <1>1, <1>3, <1>4 DEF Owed
<1>6. Reckoned(r)' BY <1>0, <1>1, <1>3, <1>4, <1>5 DEF Reckoned, Reckoning, Settled, Rewarded
<1>7. \A t \in Tables : writes'[r][t] # NoWrite => Written(r, t)' BY <1>0, <1>1, <1>2, <1>4, WrittenKept DEF Wrote
<1>8. DueTables(r)' = DueTables(r) BY DEF DueTables, Kind
<1>9. Wrote(r)' BY <1>0, <1>1, <1>7, <1>8 DEF Wrote, Rewarded
<1>10. ~Commit(r) /\ ~WriteStars(r) /\ ~Insert(r) BY <1>1 DEF Commit, WriteStars, Insert
<1>11. QED BY <1>1, <1>6, <1>9, <1>10, WorthKept, LedgerLocal DEF Claim

(* The one row of the table is read, or none is there. *)
LEMMA ReadTotalLedger ==
    ASSUME Serial, Sound, LedgerInv, [Next]_vars, NEW r \in Req, ReadTotal(r)
    PROVE  LedgerInv'
<1>0. /\ pc \in [Req -> Steps] /\ loc \in [Req -> Local] /\ tab \in [Req -> Tables] /\ Reckoned(r) /\ Wrote(r)
      /\ RightTotals
  BY DEF Sound, TypeInv, TypeOK, LedgerInv, Claim
<1>1. /\ pc[r] = "read" /\ pc'[r] = "write" /\ UNCHANGED <<tab, passed, pending, writes, row, agg>> /\ Step(r)
      /\ Sees(r, tab[r])
  BY <1>0 DEF ReadTotal, Step, Goto, txvars, dbvars
<1>2. PICK seen, id : /\ loc' = [loc EXCEPT ![r].seen = seen, ![r].id = id]
                      /\ id \in Req /\ seen = agg[tab[r]][id]
                      /\ \/ \A s \in Req : agg[tab[r]][s] = NoRow
                         \/ agg[tab[r]][id] # NoRow
  <2> DEFINE ids == {s \in Req : agg[tab[r]][s] # NoRow}
  <2>1. CASE ids = {} /\ loc' = [loc EXCEPT ![r].seen = NoRow, ![r].id = r]
    <3>1. NoRow = agg[tab[r]][r] /\ \A s \in Req : agg[tab[r]][s] = NoRow BY <2>1
    <3>2. QED BY <2>1, <3>1
  <2>2. CASE \E s \in ids : loc' = [loc EXCEPT ![r].seen = agg[tab[r]][s], ![r].id = s] BY <2>2
  <2>3. QED BY <1>1, <2>1, <2>2 DEF Sees
<1>3. loc'[r].seen = seen /\ loc'[r].id = id /\ loc'[r].pct = loc[r].pct /\ loc'[r].due = loc[r].due /\ loc'[r].add = loc[r].add
  <2>1. loc[r] \in Local BY <1>0
  <2>2. QED BY <1>0, <1>2, <2>1 DEF Local
<1>4. \A s \in Req : agg[tab[r]][s] # NoRow => s = id
  <2>1. Holds(tab[r], Expected(tab[r])) BY <1>0 DEF RightTotals
  <2>2. QED BY <1>2, <2>1 DEF Holds
<1>5. Kept BY <1>1, StepKept DEF Commit
<1>6. (ispass(ActivityOf[r])' <=> ispass(ActivityOf[r])) /\ Earned(ActivityOf[r])' = Earned(ActivityOf[r])
  BY <1>5, AttemptWorth DEF Kept
<1>7. Fresh(r)' = Fresh(r) /\ New(r)' = New(r) BY <1>1, <1>3 DEF Fresh, New, Kind, NewAttempt, AttemptPoints, Points
<1>8. Owed(r)' = Owed(r) BY <1>3, <1>6, <1>7 DEF Owed
<1>9. Reckoned(r)' BY <1>0, <1>1, <1>3, <1>6, <1>7, <1>8 DEF Reckoned, Reckoning, Settled, Rewarded
<1>10. \A t \in Tables : writes'[r][t] # NoWrite => Written(r, t)' BY <1>0, <1>1, <1>3, <1>5, <1>7, WrittenKept DEF Wrote
<1>11. DueTables(r)' = DueTables(r) BY DEF DueTables, Kind
<1>12. Wrote(r)' BY <1>0, <1>1, <1>2, <1>3, <1>4, <1>10, <1>11 DEF Wrote, Rewarded
<1>13. ~Commit(r) /\ ~WriteStars(r) /\ ~Insert(r) BY <1>1 DEF Commit, WriteStars, Insert
<1>14. QED BY <1>1, <1>9, <1>12, <1>13, WorthKept, LedgerLocal DEF Claim

(* A total after a reward that fits. *)
LEMMA TotalPoints ==
    ASSUME NEW t \in Tables, NEW seen \in Row, NEW n \in Nat, NEW held \in Nat,
           seen = NoRow => held = 0, seen # NoRow => seen.points = held,
           t = "lesson" => held + n <= TotalOf[t]
    PROVE  /\ TotalAfter(t, seen, n) \in ProgressRow
           /\ TotalAfter(t, seen, n).points = held + n
           /\ t = "lesson" => LandedPoints(seen, n, TotalOf[t]) = n
<1>1. TotalOf[t] \in Nat BY SubmissionAssumption
<1>2. TotalAfter(t, seen, n) \in ProgressRow BY TotalTyped
<1>3. Positive(n) = n BY DEF Positive
<1>4. CASE seen = NoRow
  <2>1. TotalAfter(t, seen, n).points = Positive(n) BY <1>4 DEF TotalAfter, LessonRow, NewLessonRow, TotalRow
  <2>2. Overflow(seen, n, TotalOf[t]) = 0 BY <1>4 DEF Overflow
  <2>3. LandedPoints(seen, n, TotalOf[t]) = n BY <2>2 DEF LandedPoints
  <2>4. QED BY <1>2, <1>3, <1>4, <2>1, <2>3
<1>5. CASE seen # NoRow
  <2>1. seen \in ProgressRow /\ seen.points = held BY <1>5 DEF Row
  <2>2. AddPoints(seen.points, n) = held + n BY <2>1 DEF AddPoints
  <2>3. t = "lesson" => Overflow(seen, n, TotalOf[t]) = 0 BY <1>1, <2>2 DEF Overflow
  <2>4. t = "lesson" => LandedPoints(seen, n, TotalOf[t]) = n BY <2>3 DEF LandedPoints
  <2>5. CASE t = "lesson"
    <3> DEFINE p == AddPoints(seen.points, n) - Overflow(seen, n, TotalOf[t])
    <3>1. TotalAfter(t, seen, n) = [seen EXCEPT !.points = p, !.completed = LessonCompleted(p, Passing, TotalOf[t])]
      BY <1>5, <2>5 DEF TotalAfter, LessonRow
    <3>2. p = held + n BY <2>2, <2>3, <2>5
    <3> HIDE DEF p
    <3>3. TotalAfter(t, seen, n).points = p BY <2>1, <3>1 DEF ProgressRow
    <3>4. QED BY <1>2, <2>4, <3>2, <3>3
  <2>6. CASE t # "lesson"
    <3> DEFINE p == AddPoints(seen.points, n)
    <3>1. TotalAfter(t, seen, n) = [seen EXCEPT !.points = p, !.completed = percentCompleted(progressPercent(p, TotalOf[t]))]
      BY <1>5, <2>6 DEF TotalAfter, TotalRow
    <3>2. p = held + n BY <2>2
    <3> HIDE DEF p
    <3>3. TotalAfter(t, seen, n).points = p BY <2>1, <3>1 DEF ProgressRow
    <3>4. QED BY <1>2, <2>6, <3>2, <3>3
  <2>7. QED BY <2>5, <2>6
<1>6. QED BY <1>4, <1>5

(* The reward is added to the total of one table: the lesson holds it, so all of it goes on. *)
LEMMA WriteTotalLedger ==
    ASSUME Serial, TotalCoversActivities, Sound, LedgerInv, [Next]_vars, NEW r \in Req, WriteTotal(r)
    PROVE  LedgerInv'
<1>0. /\ pc \in [Req -> Steps] /\ loc \in [Req -> Local] /\ tab \in [Req -> Tables] /\ Reckoned(r) /\ Wrote(r)
      /\ LocTyped(r) /\ Located(r) /\ RightTotals /\ TypeOK
      /\ writes \in [Req -> [Tables -> [id : Req, row : Row] \cup {NoWrite}]]
  BY DEF Sound, IInv, TypeInv, TypeOK, LedgerInv, Claim
<1> DEFINE t == tab[r]
           l == loc[r]
           n == New(r).points
           w == [id |-> l.id, row |-> TotalAfter(t, l.seen, l.add)]
<1>1. /\ pc[r] = "write" /\ pc'[r] = (IF t = "grade" THEN "active" ELSE "read") /\ UNCHANGED <<passed, pending, row, agg>>
      /\ Step(r) /\ writes' = [writes EXCEPT ![r][t] = w] /\ tab'[r] = NextTable(t)
      /\ loc' = IF t = "lesson" THEN [loc EXCEPT ![r].add = LandedPoints(l.seen, l.add, TotalOf[t])] ELSE loc
  BY <1>0 DEF WriteTotal, Step, Goto, dbvars
<1>2. /\ l.due /\ t \in DueTables(r) /\ t \in Tables /\ \A u \in DueTables(r) \ Ahead(t) : writes[r][u] # NoWrite
      /\ \A s \in Req : agg[t][s] # NoRow => s = l.id
      /\ l.seen = agg[t][l.id] /\ l.id \in Req /\ l.seen \in Row
  BY <1>0, <1>1 DEF Wrote, LocTyped, Local
<1>3. Fresh(r) /\ Owed(r) /\ ~ispass(ActivityOf[r]) BY <1>0, <1>1, <1>2 DEF Reckoned, Settled, Rewarded
<1>4. l.add = n /\ Earned(ActivityOf[r]) = 0 BY <1>2, <1>3 DEF Owed
<1>5. n \in Nat /\ n <= Points(r)
  <2>1. New(r).pass \in BOOLEAN /\ n = AttemptPoints(r, New(r).pass) BY NewHolds DEF New
  <2>2. Points(r) \in Nat /\ n \in {0, Points(r)} BY <2>1, AttemptWorth
  <2> HIDE DEF n
  <2>3. QED BY <2>2
<1>6. Expected(t) \in Nat BY <1>2, EarnedTyped
<1>7. Holds(t, Expected(t)) BY <1>0, <1>2 DEF RightTotals
<1>8. (l.seen = NoRow => Expected(t) = 0) /\ (l.seen # NoRow => l.seen.points = Expected(t))
  BY <1>2, <1>7 DEF Holds
<1>9. t = "lesson" => Expected(t) + n <= TotalOf[t]
  <2>1. t = "lesson" => Lessonly(r)
    <3>1. Kind(r) \in Kinds BY SubmissionAssumption DEF Kind
    <3>2. QED BY <1>2, <1>3, <3>1 DEF DueTables, Fresh, Lessonly, Kinds
  <2> HIDE DEF n
  <2>2. QED BY <1>4, <1>5, <2>1, LessonFits
<1>10. /\ TotalAfter(t, l.seen, l.add) \in ProgressRow /\ TotalAfter(t, l.seen, l.add).points = Expected(t) + n
       /\ t = "lesson" => LandedPoints(l.seen, l.add, TotalOf[t]) = n
  <2> HIDE DEF n, t, l
  <2>1. QED BY <1>2, <1>4, <1>5, <1>6, <1>8, <1>9, TotalPoints
<1>11. loc'[r].pct = l.pct /\ loc'[r].due = l.due /\ loc'[r].add = l.add
  <2>1. CASE t = "lesson"
    <3>1. loc' = [loc EXCEPT ![r].add = n] BY <1>1, <1>10, <2>1
    <3>2. loc[r] \in Local BY <1>0
    <3> HIDE DEF n
    <3>3. QED BY <1>0, <1>4, <3>1, <3>2 DEF Local
  <2>2. CASE t # "lesson" BY <1>1, <2>2
  <2>3. QED BY <2>1, <2>2
<1>12. Kept BY <1>1, StepKept DEF Commit
<1>13. (ispass(ActivityOf[r])' <=> ispass(ActivityOf[r])) /\ Earned(ActivityOf[r])' = Earned(ActivityOf[r])
  BY <1>12, AttemptWorth DEF Kept
<1>14. Fresh(r)' = Fresh(r) /\ New(r)' = New(r) BY <1>1, <1>11 DEF Fresh, New, Kind, NewAttempt, AttemptPoints, Points
<1>15. Owed(r)' = Owed(r) BY <1>11, <1>13, <1>14 DEF Owed
<1>16. Reckoned(r)' BY <1>0, <1>1, <1>3, <1>11, <1>13, <1>14, <1>15 DEF Reckoned, Reckoning, Settled, Rewarded
<1>17. writes'[r][t] = w /\ \A u \in Tables : u # t => writes'[r][u] = writes[r][u] BY <1>0, <1>1, <1>2
<1>18. w # NoWrite /\ w.id = l.id /\ w.row = TotalAfter(t, l.seen, l.add)
  <2>1. w.id \in Req /\ NoWrite.id = "none" BY <1>2 DEF NoWrite
  <2>2. w # NoWrite BY <2>1, SubmissionAssumption
  <2>3. QED BY <2>2
<1>19. \A u \in Tables : u = t => Written(r, u)'
  <2>1. /\ writes'[r][t].row \in ProgressRow /\ writes'[r][t].row.points = Expected(t) + n /\ writes'[r][t].id = l.id
    BY <1>10, <1>17, <1>18
  <2> HIDE DEF w, n, t, l
  <2>2. ASSUME NEW u \in Tables, u = t PROVE Written(r, u)'
    <3>1. DueTables(r)' = DueTables(r) BY DEF DueTables, Kind
    <3>2. Expected(u)' = Expected(u) BY <1>12 DEF Kept
    <3>3. /\ u \in DueTables(r)' /\ loc'[r].due BY <1>2, <1>11, <2>2, <3>1
    <3>4. \A s \in Req : agg'[u][s] # NoRow => s = writes'[r][u].id BY <1>1, <1>2, <2>1, <2>2
    <3>5. writes'[r][u].row \in ProgressRow /\ writes'[r][u].row.points = Expected(u)' + New(r)'.points /\ writes'[r][u].id \in Req
      BY <1>2, <1>14, <2>1, <2>2, <3>2 DEF n
    <3>6. QED BY <3>3, <3>4, <3>5 DEF Written
  <2>3. QED BY <2>2
<1> HIDE DEF w, n
<1>20. \A u \in Tables : writes'[r][u] # NoWrite => Written(r, u)'
  <2> SUFFICES ASSUME NEW u \in Tables, writes'[r][u] # NoWrite PROVE Written(r, u)' OBVIOUS
  <2>1. CASE u = t BY <1>19, <2>1
  <2>2. CASE u # t
    <3>1. writes'[r][u] = writes[r][u] BY <1>17, <2>2
    <3>2. Written(r, u) BY <1>0, <3>1 DEF Wrote
    <3>3. QED BY <1>1, <1>11, <1>12, <1>14, <3>1, <3>2, WrittenKept
  <2>3. QED BY <2>1, <2>2
<1>21. DueTables(r)' = DueTables(r) BY DEF DueTables, Kind
<1>22. \A u \in DueTables(r) : u \notin Ahead(t) \/ u = t => writes'[r][u] # NoWrite
  <2>1. DueTables(r) \subseteq Tables BY DueFacts
  <2>2. QED BY <1>2, <1>17, <1>18, <2>1
<1>23. Wrote(r)'
  <2>1. CASE t = "grade"
    <3>1. Ahead(t) = {t} BY <2>1 DEF Ahead
    <3>2. \A u \in DueTables(r) : writes'[r][u] # NoWrite BY <1>22, <3>1
    <3>3. pc'[r] = "active" BY <1>1, <2>1
    <3>4. QED BY <1>20, <1>21, <3>2, <3>3 DEF Wrote, Rewarded
  <2>2. CASE t # "grade"
    <3>1. NextTable(t) \in DueTables(r) /\ Ahead(NextTable(t)) = Ahead(t) \ {t} BY <1>2, <2>2, DueFacts, TableFacts
    <3>2. \A u \in DueTables(r) \ Ahead(NextTable(t)) : writes'[r][u] # NoWrite BY <1>22, <3>1
    <3>3. pc'[r] = "read" /\ tab'[r] = NextTable(t) BY <1>1, <2>2
    <3>4. QED BY <1>2, <1>11, <1>20, <1>21, <3>1, <3>2, <3>3 DEF Wrote, Rewarded
  <2>3. QED BY <2>1, <2>2
<1>24. ~Commit(r) /\ ~WriteStars(r) /\ ~Insert(r) BY <1>1 DEF Commit, WriteStars, Insert
<1>25. QED BY <1>1, <1>16, <1>23, <1>24, WorthKept, LedgerLocal DEF Claim

(* After the transaction, committed or rolled back, there is nothing left to claim. *)
LEMMA ElsewhereLedger ==
    ASSUME Serial, Sound, LedgerInv, [Next]_vars, NEW r \in Req,
           Recover(r) \/ ReadStars(r) \/ FindDaily(r) \/ SumHeld(r) \/ WriteDaily(r) \/ Reply(r) \/ Timeout(r) \/ Fail(r)
    PROVE  LedgerInv'
<1>0. pc \in [Req -> Steps] /\ Wrote(r) /\ Located(r) BY DEF Sound, IInv, TypeInv, TypeOK, LedgerInv, Claim
<1>1. (Step(r) \/ Timeout(r) \/ Fail(r)) /\ ~Commit(r) /\ ~WriteStars(r) /\ ~Insert(r)
  <2>1. CASE Timeout(r) \/ Fail(r)
    <3>1. pc'[r] = "error" BY <1>0, <2>1 DEF Timeout, Fail, Abort, Goto
    <3>2. ~Commit(r) /\ ~WriteStars(r) /\ ~Insert(r)
      BY <1>0, <3>1 DEF Commit, AfterCommit, WriteStars, Insert, Goto
    <3>3. QED BY <2>1, <3>2
  <2>2. CASE ~(Timeout(r) \/ Fail(r))
    BY <2>2 DEF Step, Recover, ReadStars, FindDaily, SumHeld, Asks, WriteDaily, Reply, Commit, WriteStars, Insert
  <2>3. QED BY <2>1, <2>2
<1>2. writes'[r] = NoWrites /\ r \notin pending' /\ pc'[r] \notin Reckoning \cup Rewarded
  <2>1. CASE Timeout(r) \/ Fail(r)
    BY <1>0, <2>1 DEF Timeout, Fail, Abort, EndTransaction, Goto, Reckoning, Rewarded
  <2>2. CASE Recover(r) \/ ReadStars(r) \/ FindDaily(r) \/ SumHeld(r) \/ WriteDaily(r) \/ Reply(r)
    <3>1. /\ pc[r] \in {"recover", "stars", "dfind", "dheld", "dwrite", "reply"} /\ UNCHANGED <<writes, pending>>
          /\ pc'[r] \in {"dfind", "conflict", "starred", "dheld", "dwrite", "reply", "ok"}
      BY <1>0, <2>2 DEF Recover, ReadStars, FindDaily, SumHeld, Asks, WriteDaily, Reply, Goto, txvars
    <3>2. QED BY <1>0, <3>1 DEF Wrote, Located, AfterInsert, Reckoning, Rewarded
  <2>3. QED BY <2>1, <2>2
<1>3. Claim(r)' BY <1>2, NothingClaimed
<1>4. QED BY <1>1, <1>3, WorthKept, LedgerLocal

(* The stars leave the points of every row as they are. *)
LEMMA WriteStarsLedger ==
    ASSUME Serial, Sound, LedgerInv, [Next]_vars, NEW r \in Req, WriteStars(r)
    PROVE  LedgerInv'
<1>0. /\ pc \in [Req -> Steps] /\ agg \in [Tables -> [Req -> Row]] /\ Wrote(r) /\ Located(r) /\ LocTyped(r) /\ tab[r] \in Tables
      /\ RightTotals
  BY DEF Sound, IInv, TypeInv, TypeOK, LedgerInv, Claim
<1>1. /\ Step(r) /\ pc[r] = "starred" /\ pc'[r] \in {"dfind", "stars"} /\ UNCHANGED <<writes, pending>>
  BY <1>0 DEF WriteStars, Step, Goto, txvars
<1>2. Claim(r)' BY <1>0, <1>1, NothingClaimed DEF Wrote, Located, AfterInsert, Reckoning, Rewarded
<1>3. ~Commit(r) /\ ~Insert(r) BY <1>1 DEF Commit, Insert
<1>4. RowsWorth' BY <1>1, <1>3, WorthKept
<1>5. Alone' BY AloneStep DEF LedgerInv
<1>6. \A q \in Req : Claim(q)' BY <1>1, <1>2, LedgerOthers
<1>7. Kept BY <1>1, <1>3, StepKept
<1>8. \A u \in Tables, s \in Req : (agg'[u][s] = NoRow <=> agg[u][s] = NoRow) /\ agg'[u][s].points = agg[u][s].points
  <2> DEFINE t == tab[r]
             id == loc[r].id
             seen == loc[r].seen
             add == Carried(r) + ExtraStar(r, t, seen)
             lit == seen.flag \/ ExtraStar(r, t, seen) = 1
  <2>1. CASE seen = NoRow
    <3>1. agg' = agg BY <2>1 DEF WriteStars
    <3>2. QED BY <3>1
  <2>2. CASE seen # NoRow
    <3>1. id \in Req /\ agg[t][id] # NoRow BY <1>0, <1>1, <2>2 DEF LocTyped
    <3>2. agg[t][id] \in ProgressRow BY <1>0, <3>1 DEF Row
    <3> DEFINE a == [agg[t][id] EXCEPT !.scores = seen.scores + add, !.flag = lit]
    <3>3. agg' = [agg EXCEPT ![t][id].scores = seen.scores + add, ![t][id].flag = lit] BY <2>2 DEF WriteStars
    <3> HIDE DEF add, lit
    <3>4. agg' = [agg EXCEPT ![t] = [agg[t] EXCEPT ![id] = a]] BY <1>0, <3>1, <3>3
    <3>5. DOMAIN a = DOMAIN agg[t][id] /\ a.points = agg[t][id].points BY <3>2 DEF ProgressRow
    <3>6. a # NoRow
      <4>1. DOMAIN agg[t][id] # DOMAIN NoRow BY <3>2 DEF ProgressRow, NoRow
      <4>2. QED BY <3>5, <4>1
    <3> HIDE DEF a
    <3>7. QED BY <1>0, <3>1, <3>4, <3>5, <3>6
  <2>3. QED BY <2>1, <2>2
<1>9. RightTotals'
  <2> SUFFICES ASSUME NEW u \in Tables PROVE Holds(u, Expected(u))' BY DEF RightTotals
  <2>1. Holds(u, Expected(u)) /\ Expected(u)' = Expected(u) BY <1>0, <1>7 DEF RightTotals, Kept
  <2>2. QED BY <1>8, <2>1 DEF Holds
<1>10. QED BY <1>4, <1>5, <1>6, <1>9 DEF LedgerInv

(* What the activity has earned once the attempt is stored: what the attempt holds. *)
LEMMA CommitEarns ==
    ASSUME Sound, NEW r \in Req, Commit(r), r \in pending, row[r].pass \in BOOLEAN, row[r].points = AttemptPoints(r, row[r].pass),
           ~ispass(ActivityOf[r])
    PROVE  /\ Earned(ActivityOf[r])' = row[r].points /\ row[r].points \in Nat
           /\ \A a \in Activities \ {ActivityOf[r]} : Earned(a)' = Earned(a)
<1> DEFINE a == ActivityOf[r]
<1>1. stored' = stored \cup {r} /\ row' = row BY DEF Commit
<1>2. Rows(a)' = Rows(a) \cup {r} BY <1>1 DEF Rows
<1>3. hasTried(a)' BY <1>2 DEF hasTried
<1>4. ispass(a)' <=> row[r].pass BY <1>1, <1>2 DEF ispass
<1>5. Earned(a)' = IF (IF Rule /\ Kind(r) = "quiz" THEN ispass(a)' ELSE hasTried(a)') THEN Points(r) ELSE 0
  BY DEF Earned, Kind, Points
<1>6. row[r].points \in Nat /\ Earned(a)' = row[r].points
  <2> HIDE DEF a
  <2>1. QED BY <1>3, <1>4, <1>5, AttemptWorth
<1>7. ASSUME NEW b \in Activities \ {a} PROVE Earned(b)' = Earned(b)
  <2>1. Rows(b)' = Rows(b) BY <1>1 DEF Rows
  <2>2. (ispass(b)' <=> ispass(b)) /\ (hasTried(b)' <=> hasTried(b)) BY <1>1, <2>1 DEF ispass, hasTried
  <2>3. QED BY <2>2 DEF Earned
<1>8. QED BY <1>6, <1>7

(* A table no write of the transaction is for stays as it is. *)
LEMMA CommitLeaves ==
    ASSUME NEW r \in Req, Commit(r), NEW t \in Tables, writes[r][t] = NoWrite
    PROVE  \A s \in Req : agg'[t][s] = agg[t][s]
  BY DEF Commit, Committed

(* A table with a write has one row afterwards, with the points of the write. *)
LEMMA CommitHolds ==
    ASSUME TypeOK, NEW r \in Req, Commit(r), NEW t \in Tables, writes[r][t] # NoWrite, writes[r][t].row \in ProgressRow,
           writes[r][t].id \in Req, \A s \in Req : agg[t][s] # NoRow => s = writes[r][t].id,
           NEW n, writes[r][t].row.points = n
    PROVE  /\ \A s \in Req : agg'[t][s] # NoRow <=> s = writes[r][t].id
           /\ agg'[t][writes[r][t].id].points = n
<1> DEFINE w == writes[r][t]
           a == agg[t][w.id]
<1>1. \A s \in Req : agg'[t][s] = Committed(r, t, s) BY DEF Commit
<1>2. \A s \in Req : s # w.id => Committed(r, t, s) = agg[t][s] BY DEF Committed
<1>3. \A s \in Req : s # w.id => agg'[t][s] = NoRow BY <1>1, <1>2
<1>4. agg'[t][w.id] \in ProgressRow /\ agg'[t][w.id].points = n
  <2>1. a \in Row BY DEF TypeOK
  <2>2. CASE a = NoRow
    <3>1. Committed(r, t, w.id) = w.row BY <2>2 DEF Committed
    <3>2. QED BY <1>1, <3>1
  <2>3. CASE a # NoRow
    <3>1. Committed(r, t, w.id) = [a EXCEPT !.points = w.row.points, !.completed = w.row.completed]
      BY <2>3 DEF Committed
    <3>2. a \in ProgressRow BY <2>1, <2>3 DEF Row
    <3>3. w.row.points \in Int /\ w.row.completed \in BOOLEAN BY DEF ProgressRow
    <3>4. agg'[t][w.id] = [a EXCEPT !.points = w.row.points, !.completed = w.row.completed] BY <1>1, <3>1
    <3> HIDE DEF a, w
    <3>5. QED BY <3>2, <3>3, <3>4 DEF ProgressRow, w
  <2>4. QED BY <2>2, <2>3
<1>5. agg'[t][w.id] # NoRow BY <1>4, RowFacts
<1>6. QED BY <1>3, <1>4, <1>5

(* The commit: the attempt is stored and its reward with it. *)
LEMMA CommitLedger ==
    ASSUME Serial, Sound, LedgerInv, [Next]_vars, NEW r \in Req, Commit(r)
    PROVE  LedgerInv'
<1>0. /\ pc \in [Req -> Steps] /\ TypeOK /\ Reckoned(r) /\ Wrote(r) /\ Located(r) /\ RightTotals /\ row[r] \in Attempt
  BY DEF Sound, IInv, TypeInv, TypeOK, LedgerInv, Claim
<1>1. /\ Step(r) /\ pc[r] = "commit" /\ pc'[r] \in {"reply", "stars", "dfind"} /\ row' = row
      /\ pending' = pending \ {r} /\ writes'[r] = NoWrites /\ stored' = stored \cup (pending \cap {r})
  BY <1>0 DEF Commit, EndTransaction, AfterCommit, Step, Goto
<1>2. Claim(r)' BY <1>1, NothingClaimed DEF Reckoning, Rewarded
<1>3. RowsWorth' BY <1>1, WorthKept DEF Insert
<1>4. Alone' BY AloneStep DEF LedgerInv
<1>5. \A q \in Req : Claim(q)' BY <1>1, <1>2, LedgerOthers
<1>6. RightTotals'
  <2>1. CASE r \notin pending
    <3>1. stored' = stored BY <1>1, <2>1
    <3>2. Kept BY <1>1, <3>1, SameRowsKept
    <3>3. \A t \in Tables : writes[r][t] = NoWrite
      <4>1. ASSUME NEW t \in Tables, writes[r][t] # NoWrite PROVE FALSE
        <5>1. writes[r] # NoWrites BY <4>1 DEF NoWrites
        <5>2. r \in passed BY <1>0, <2>1, <5>1 DEF Located
        <5>3. ~loc[r].due BY <1>0, <1>1, <5>2 DEF Reckoned, Settled, Rewarded, Fresh
        <5>4. QED BY <1>0, <4>1, <5>3 DEF Wrote, Written
      <4>2. QED BY <4>1
    <3>4. \A t \in Tables, s \in Req : agg'[t][s] = agg[t][s] BY <3>3, CommitLeaves
    <3>5. \A t \in Tables : Holds(t, Expected(t))' BY <1>0, <3>2, <3>4 DEF RightTotals, Holds, Kept
    <3>6. QED BY <3>5 DEF RightTotals
  <2>2. CASE r \in pending /\ Kind(r) = "baseline"
    <3>1. ~loc[r].due BY <1>0, <1>1, <2>2 DEF Reckoned, Settled, Rewarded, Fresh
    <3>2. \A t \in Tables : writes[r][t] = NoWrite BY <1>0, <3>1 DEF Wrote, Written
    <3>3. \A t \in Tables, s \in Req : agg'[t][s] = agg[t][s] BY <3>2, CommitLeaves
    <3>4. \A a \in Activities \ {ActivityOf[r]} : Earned(a)' = Earned(a)
      <4>1. ASSUME NEW a \in Activities, a # ActivityOf[r] PROVE Earned(a)' = Earned(a)
        <5>1. Rows(a)' = Rows(a) BY <1>1, <4>1 DEF Rows
        <5>2. (ispass(a)' <=> ispass(a)) /\ (hasTried(a)' <=> hasTried(a)) BY <1>1, <5>1 DEF ispass, hasTried
        <5>3. QED BY <5>2 DEF Earned
      <4>2. QED BY <4>1
    <3>5. ActivityOf[r] \in Activities /\ Earned(ActivityOf[r])' \in Nat
      <4>1. ActivityOf[r] \in Activities BY AttemptWorth
      <4>2. \A a \in Activities : Earned(a)' \in {Worth[a], 0} /\ Worth[a] \in Nat BY SubmissionAssumption DEF Earned
      <4>3. QED BY <4>1, <4>2
    <3>6. \A t \in Tables : KindOf[ActivityOf[r]] \notin KindsOf(t) BY <2>2 DEF Kind, KindsOf
    <3>7. \A t \in Tables : Expected(t)' = Expected(t) BY <3>4, <3>5, <3>6, ExpectedChange
    <3>8. \A t \in Tables : Holds(t, Expected(t))' BY <1>0, <3>3, <3>7 DEF RightTotals, Holds
    <3>9. QED BY <3>8 DEF RightTotals
  <2>3. CASE r \in pending /\ Kind(r) # "baseline"
    <3>1. Fresh(r) /\ Owed(r) /\ ~ispass(ActivityOf[r]) /\ row[r].points = New(r).points
      <4>1. r \notin passed BY <1>0, <2>3 DEF Located
      <4>2. QED BY <1>0, <1>1, <2>3, <4>1 DEF Reckoned, Settled, Rewarded, Fresh
    <3>2. row[r].points = AttemptPoints(r, row[r].pass) /\ row[r].pass \in BOOLEAN
      BY <1>0, <2>3 DEF LedgerInv, RowsWorth, Attempt
    <3> DEFINE n == row[r].points
               b == ActivityOf[r]
    <3>3. /\ Earned(b)' = n /\ n \in Nat /\ b \in Activities
          /\ \A a \in Activities \ {b} : Earned(a)' = Earned(a)
      BY <2>3, <3>1, <3>2, CommitEarns, AttemptWorth
    <3>4. Earned(b) = IF loc[r].due THEN 0 ELSE n BY <3>1 DEF Owed
    <3>5. \A t \in Tables : Expected(t) \in Nat /\ Expected(t)' = IF Kind(r) \in KindsOf(t) THEN Expected(t) + (n - Earned(b)) ELSE Expected(t)
      BY <3>3, ExpectedChange, EarnedTyped DEF Kind
    <3>6. Kind(r) \in {"practice", "quiz", "levelquiz"}
      <4>1. Kind(r) \in Kinds BY SubmissionAssumption DEF Kind
      <4>2. QED BY <2>3, <4>1 DEF Kinds
    <3>7. \A t \in Tables : t \in DueTables(r) <=> Kind(r) \in KindsOf(t) BY <3>6 DEF DueTables, KindsOf, Tables
    <3> HIDE DEF n, b
    <3>8. ASSUME NEW t \in Tables PROVE Holds(t, Expected(t))'
      <4>1. Holds(t, Expected(t)) BY <1>0 DEF RightTotals
      <4>2. CASE loc[r].due /\ t \in DueTables(r)
        <5>1. writes[r][t] # NoWrite /\ Written(r, t) BY <1>0, <1>1, <2>3, <4>2 DEF Wrote
        <5>2. Expected(t)' = Expected(t) + n BY <3>3, <3>4, <3>5, <3>7, <4>2
        <5>3. writes[r][t].row.points = Expected(t)' BY <3>1, <5>1, <5>2 DEF Written, n
        <5>4. /\ \A s \in Req : agg'[t][s] # NoRow <=> s = writes[r][t].id
              /\ agg'[t][writes[r][t].id].points = Expected(t)'
              /\ writes[r][t].id \in Req
          BY <1>0, <5>1, <5>3, CommitHolds DEF Written
        <5>5. QED BY <5>4 DEF Holds
      <4>3. CASE ~(loc[r].due /\ t \in DueTables(r))
        <5>1. writes[r][t] = NoWrite BY <1>0, <4>3 DEF Wrote, Written
        <5>2. \A s \in Req : agg'[t][s] = agg[t][s] BY <5>1, CommitLeaves
        <5>3. Expected(t)' = Expected(t) BY <3>3, <3>4, <3>5, <3>7, <4>3
        <5>4. QED BY <4>1, <5>2, <5>3 DEF Holds
      <4>4. QED BY <4>2, <4>3
    <3>9. QED BY <3>8 DEF RightTotals
  <2>4. QED BY <2>1, <2>2, <2>3
<1>7. QED BY <1>3, <1>4, <1>5, <1>6 DEF LedgerInv

(* Every step keeps the ledger right. *)
LEMMA LedgerStep == ASSUME Serial, TotalCoversActivities PROVE Sound /\ LedgerInv /\ [Next]_vars => LedgerInv'
<1> SUFFICES ASSUME Sound, LedgerInv, [Next]_vars PROVE LedgerInv' OBVIOUS
<1>1. ASSUME NEW r \in Req, Receive(r) \/ Step(r) \/ Timeout(r) \/ Fail(r) PROVE LedgerInv'
  <2>1. CASE Receive(r) BY <2>1, ReceiveLedger
  <2>2. CASE AskPassOld(r) \/ AskTried(r) \/ AskOld(r) \/ AskNewest(r)
    BY <2>2, AskPassOldLedger, AskTriedLedger, AskOldLedger, AskNewestLedger
  <2>3. CASE Begin(r) \/ Find(r) \/ Insert(r) \/ insertquestion(r) BY <2>3, BeginLedger, InsertLedger, AnswersLedger
  <2>4. CASE ReadTotal(r) \/ WriteTotal(r) \/ setstudentactive(r) \/ Commit(r) \/ WriteStars(r)
    BY <2>4, ReadTotalLedger, WriteTotalLedger, ActiveLedger, CommitLedger, WriteStarsLedger
  <2>5. CASE \/ Recover(r) \/ ReadStars(r) \/ FindDaily(r) \/ SumHeld(r) \/ WriteDaily(r) \/ Reply(r)
             \/ Timeout(r) \/ Fail(r)
    BY <2>5, ElsewhereLedger
  <2>6. QED BY <1>1, <2>1, <2>2, <2>3, <2>4, <2>5 DEF Step
<1>2. ASSUME Crash \/ UNCHANGED vars PROVE LedgerInv'
  <2>1. UNCHANGED dbvars /\ pending' \subseteq pending BY <1>2 DEF Crash, EndTransaction, vars, txvars
  <2>2. Alone' BY AloneStep DEF LedgerInv
  <2>3. Kept BY <2>1, SameRowsKept DEF dbvars
  <2>4. RightTotals'
    <3>1. \A t \in Tables : Holds(t, Expected(t))' BY <2>1, <2>3 DEF LedgerInv, RightTotals, Holds, Kept, dbvars
    <3>2. QED BY <3>1 DEF RightTotals
  <2>5. RowsWorth' BY <2>1 DEF LedgerInv, RowsWorth, dbvars, AttemptPoints, Kind, Points
  <2>6. ASSUME NEW q \in Req PROVE Claim(q)'
    <3>1. CASE Crash
      <4>1. pc'[q] \in Ended \cup {"idle"} BY <3>1 DEF Crash, InFlight, Ended
      <4>2. q \notin pending' BY <3>1, NothingPending DEF Crash, EndTransaction
      <4>3. writes'[q] = NoWrites
        <5>1. CASE q \in InFlight BY <3>1, <5>1 DEF Crash, EndTransaction
        <5>2. CASE q \notin InFlight
          <6>1. writes[q] = NoWrites BY <5>2 DEF InFlight, Ended, LedgerInv, Claim, Wrote, Rewarded
          <6>2. QED BY <3>1, <5>2, <6>1 DEF Crash, EndTransaction
        <5>3. QED BY <5>1, <5>2
      <4>4. QED BY <4>1, <4>2, <4>3, NothingClaimed DEF Ended, Reckoning, Rewarded
    <3>2. CASE UNCHANGED vars
      <4>1. UNCHANGED <<pc, loc, tab, passed, pending, writes, row, agg>> BY <3>2 DEF vars, txvars, dbvars
      <4>2. Fresh(q)' = Fresh(q) /\ New(q)' = New(q) BY <4>1 DEF Fresh, New, Kind, NewAttempt, AttemptPoints, Points
      <4>3. /\ (ispass(ActivityOf[q])' <=> ispass(ActivityOf[q])) /\ (hasTried(ActivityOf[q])' <=> hasTried(ActivityOf[q]))
            /\ Earned(ActivityOf[q])' = Earned(ActivityOf[q])
        BY <2>3, AttemptWorth DEF Kept
      <4>4. Owed(q)' = Owed(q) BY <4>1, <4>2, <4>3 DEF Owed
      <4>5. Reckoned(q) /\ Wrote(q) BY DEF LedgerInv, Claim
      <4>6. Reckoned(q)' BY <4>1, <4>2, <4>3, <4>4, <4>5 DEF Reckoned, Kind
      <4>7. \A t \in Tables : writes'[q][t] # NoWrite => Written(q, t)' BY <2>3, <4>1, <4>2, <4>5, WrittenKept DEF Wrote
      <4>8. DueTables(q)' = DueTables(q) BY DEF DueTables, Kind
      <4>9. Wrote(q)' BY <4>1, <4>5, <4>7, <4>8 DEF Wrote
      <4>10. QED BY <4>6, <4>9 DEF Claim
    <3>3. QED BY <1>2, <3>1, <3>2
  <2>7. QED BY <2>2, <2>4, <2>5, <2>6 DEF LedgerInv
<1>3. QED BY <1>1, <1>2 DEF Next

(* Nothing is earned and nothing on record before any request arrives. *)
LEMMA InitLedger == Init => LedgerInv
<1> SUFFICES ASSUME Init PROVE LedgerInv OBVIOUS
<1>1. InFlight = {} /\ stored = {} /\ pending = {} BY DEF Init, InFlight
<1>2. \A a \in Activities : Earned(a) = 0 BY <1>1 DEF Earned, ispass, hasTried, Rows
<1>3. ASSUME NEW t \in Tables PROVE Expected(t) = 0
  <2> DEFINE f == [a \in Activities |-> Earned(a)]
             S == OfKinds(KindsOf(t))
  <2>1. S \subseteq Activities /\ IsFiniteSet(S) BY SubmissionAssumption, FS_Subset DEF OfKinds
  <2>2. Expected(t) = SumFunctionOnSet(f, S) BY DEF Expected, EarnedBy
  <2>3. \A a \in S : f[a] = 0 BY <1>2, <2>1
  <2> HIDE DEF f, S
  <2>4. SumFunctionOnSet(f, S) = 0 BY <2>1, <2>3, SumZero
  <2>5. QED BY <2>2, <2>4
<1>4. RightTotals BY <1>3 DEF Init, RightTotals, Holds
<1>5. ASSUME NEW q \in Req PROVE Claim(q)
  <2>1. pc[q] = "idle" /\ writes[q] = NoWrites /\ q \notin pending BY <1>1 DEF Init
  <2>2. \A t \in Tables : writes[q][t] = NoWrite BY <2>1 DEF NoWrites
  <2>3. QED BY <2>1, <2>2 DEF Claim, Reckoned, Wrote, Reckoning, Settled, Rewarded
<1>6. QED BY <1>1, <1>4, <1>5 DEF LedgerInv, Alone, RowsWorth

(* So the ledger is right throughout. *)
LEMMA AlwaysLedger == ASSUME Serial, TotalCoversActivities PROVE Spec => []LedgerInv
<1>1. Sound /\ LedgerInv /\ [Next]_vars => LedgerInv' BY LedgerStep
<1>2. QED BY <1>1, InitLedger, AlwaysSound, PTL DEF Spec

(* One row at most, and what it holds: the sum over the rows is that. *)
LEMMA HoldsSum ==
    ASSUME TypeOK, NEW t \in Tables, NEW n \in Nat, Holds(t, n)
    PROVE  Sum(t) = n
<1> DEFINE f == [s \in Req |-> agg[t][s].points]
<1>1. Sum(t) = SumFunctionOnSet(f, Ids(t)) BY DEF Sum
<1>2. CASE Ids(t) = {}
  <2>1. n = 0 BY <1>2 DEF Ids, Holds
  <2> HIDE DEF f
  <2>2. QED BY <1>1, <1>2, <2>1, SumEmpty
<1>3. CASE Ids(t) # {}
  <2>1. PICK s \in Ids(t) : TRUE BY <1>3
  <2>2. Ids(t) = {s} /\ f[s] = n BY <2>1 DEF Ids, Holds
  <2> HIDE DEF f
  <2>3. QED BY <1>1, <2>2, SumSingle
<1>4. QED BY <1>2, <1>3

(***************************************************************************)
(* For a client that sends one result at a time the running totals of the  *)
(* lesson, the level and the grade are what its attempts have earned       *)
(* (updateUserReward, updateLevelQuizReward), for any number of results,   *)
(* copies, failures and crashes, any activities and worths, with and       *)
(* without the organisation's rule: the row of an attempt and its reward   *)
(* stand or fall together.  The points of the lesson cover its activities. *)
(***************************************************************************)
THEOREM TotalsAreEarned == ASSUME Serial, TotalCoversActivities PROVE Spec => []TotalsEarned
<1>1. ASSUME LedgerInv, TypeOK PROVE TotalsEarned
  <2>1. \A t \in Tables : Sum(t) = Expected(t) BY <1>1, HoldsSum, EarnedTyped DEF LedgerInv, RightTotals
  <2>2. "lesson" \in Tables /\ "level" \in Tables /\ "grade" \in Tables BY DEF Tables
  <2>3. /\ Expected("lesson") = EarnedBy({"practice", "quiz"})
        /\ Expected("level") = EarnedBy({"practice", "quiz", "levelquiz"})
        /\ Expected("grade") = Expected("level")
    BY DEF Expected, KindsOf
  <2>4. QED BY <2>1, <2>2, <2>3 DEF TotalsEarned
<1>2. QED BY <1>1, AlwaysLedger, SubmissionTypes, PTL


-----------------------------------------------------------------------------
(* The stars a table should show: the stored attempts' and the extra ones. *)
StarsDue(t) ==
    IF t = "lesson" THEN ScoresOf({"quiz"}) + Flags("lesson")
    ELSE ScoresOf({"quiz"}) + Flags("lesson") + ScoresOf({"levelquiz"}) + Flags("level")

NoFault == \A r \in Req : pc[r] \notin {"error", "lost"}

(* A table is n stars short of what it should show; more, if some request has failed. *)
Short(t, n) ==
    /\ ScoreSum(t) + n <= StarsDue(t)
    /\ NoFault => ScoreSum(t) + n = StarsDue(t)

(* The request that adds its stars owes them to the tables ahead of it; nobody else owes any. *)
Owes(r, t) == Short(t, IF t \in Ahead(tab[r]) THEN Carried(r) ELSE 0)
Owing(r)   == pc[r] \in AddingStars => \A t \in Tables : Owes(r, t)
NobodyOwes == (\A r \in Req : pc[r] \notin AddingStars) => \A t \in Tables : Short(t, 0)

(* A stored attempt has a row in every table its reward went to. *)
RowsExist == \A s \in stored : Kind(s) # "baseline" => \A t \in DueTables(s) : Ids(t) # {}

(* What the request's place says of the row its stars go to, and of the rows it will make. *)
Adding(r) ==
    /\ pc[r] \in AddingStars => Kind(r) # "baseline" /\ tab[r] \in DueTables(r)
    /\ pc[r] = "starred" =>
          /\ \A s \in Req : agg[tab[r]][s] # NoRow => s = loc[r].id
          /\ loc[r].seen = agg[tab[r]][loc[r].id]
TriedIfNotDue(r) == pc[r] \in Settled /\ Fresh(r) /\ ~loc[r].due => hasTried(ActivityOf[r])
NewRowsStarless(r) ==
    \A t \in Tables : writes[r][t] # NoWrite /\ agg[t][writes[r][t].id] = NoRow =>
        writes[r][t].row.scores = 0 /\ ~writes[r][t].row.flag
PracticeStarless(r) == Kind(r) = "practice" => row[r].scores = 0

Starring(r) == Adding(r) /\ TriedIfNotDue(r) /\ NewRowsStarless(r) /\ PracticeStarless(r)

StarsInv == NobodyOwes /\ RowsExist /\ \A r \in Req : Owing(r) /\ Starring(r)

-----------------------------------------------------------------------------
(* The stars and the flags of the rows of a table. *)
StarsIn(a) == SumFunctionOnSet([s \in Req |-> a[s].scores], {s \in Req : a[s] # NoRow})
FlagsIn(a) == Cardinality({s \in {q \in Req : a[q] # NoRow} : a[s].flag})

(* Of a table with one row at most. *)
LEMMA OneRowSums ==
    ASSUME NEW a \in [Req -> Row], NEW s \in Req, \A q \in Req : a[q] # NoRow => q = s
    PROVE  /\ a[s].scores \in Nat /\ a[s].flag \in BOOLEAN
           /\ StarsIn(a) = a[s].scores /\ FlagsIn(a) = IF a[s].flag THEN 1 ELSE 0
<1> DEFINE f == [q \in Req |-> a[q].scores]
           ids == {q \in Req : a[q] # NoRow}
<1>1. a[s].scores \in Nat /\ a[s].flag \in BOOLEAN
  <2>1. a[s] \in ProgressRow \/ a[s] = NoRow BY DEF Row
  <2>2. CASE a[s] \in ProgressRow BY <2>2 DEF ProgressRow
  <2>3. CASE a[s] = NoRow BY <2>3 DEF NoRow
  <2>4. QED BY <2>1, <2>2, <2>3
<1>2. CASE a[s] = NoRow
  <2>1. ids = {} BY <1>2
  <2>2. StarsIn(a) = SumFunctionOnSet(f, {}) BY <2>1 DEF StarsIn
  <2>3. {q \in ids : a[q].flag} = {} BY <2>1
  <2>4. FlagsIn(a) = 0 BY <2>3, FS_EmptySet DEF FlagsIn
  <2>5. a[s].scores = 0 /\ ~a[s].flag BY <1>2 DEF NoRow
  <2> HIDE DEF f, ids
  <2>6. QED BY <1>1, <2>2, <2>4, <2>5, SumEmpty
<1>3. CASE a[s] # NoRow
  <2>1. ids = {s} BY <1>3
  <2>2. f[s] = a[s].scores /\ StarsIn(a) = SumFunctionOnSet(f, {s}) BY <2>1 DEF StarsIn
  <2>3. {q \in ids : a[q].flag} = IF a[s].flag THEN {s} ELSE {} BY <2>1
  <2>4. FlagsIn(a) = IF a[s].flag THEN 1 ELSE 0 BY <2>3, FS_EmptySet, FS_Singleton DEF FlagsIn
  <2> HIDE DEF f, ids
  <2>5. QED BY <1>1, <2>2, <2>4, SumSingle
<1>4. QED BY <1>2, <1>3

(* What the definitions of Submission say, table by table. *)
LEMMA SumsIn ==
    ASSUME NEW t
    PROVE  /\ ScoreSum(t) = StarsIn(agg[t]) /\ Flags(t) = FlagsIn(agg[t])
           /\ ScoreSum(t)' = StarsIn(agg'[t]) /\ Flags(t)' = FlagsIn(agg'[t])
  BY DEF ScoreSum, Flags, Ids, StarsIn, FlagsIn

(* The table's one row, by the ledger. *)
LEMMA TheRow ==
    ASSUME TypeOK, RightTotals, NEW t \in Tables, NEW s \in Req, agg[t][s] # NoRow
    PROVE  \A q \in Req : agg[t][q] # NoRow => q = s
  BY DEF RightTotals, Holds

(* All the numbers are numbers. *)
LEMMA StarsTyped ==
    ASSUME TypeOK, RightTotals, NEW t \in Tables
    PROVE  ScoreSum(t) \in Nat /\ Flags(t) \in Nat /\ \A kinds : ScoresOf(kinds) \in Nat
<1>1. agg[t] \in [Req -> Row] BY DEF TypeOK
<1>2. ScoreSum(t) \in Nat /\ Flags(t) \in Nat
  <2>1. CASE \E s \in Req : agg[t][s] # NoRow
    <3>1. PICK s \in Req : agg[t][s] # NoRow BY <2>1
    <3>2. QED BY <1>1, <3>1, TheRow, OneRowSums, SumsIn
  <2>2. CASE \A s \in Req : agg[t][s] = NoRow
    <3>1. CASE Req = {}
      <4>1. Ids(t) = {} /\ {s \in Ids(t) : agg[t][s].flag} = {} BY <3>1 DEF Ids
      <4>2. QED BY <4>1, SumEmpty, FS_EmptySet DEF ScoreSum, Flags
    <3>2. CASE Req # {}
      <4>1. PICK s \in Req : TRUE BY <3>2
      <4>2. QED BY <1>1, <2>2, <4>1, OneRowSums, SumsIn
    <3>3. QED BY <3>1, <3>2
  <2>3. QED BY <2>1, <2>2
<1>3. ASSUME NEW kinds PROVE ScoresOf(kinds) \in Nat
  <2> DEFINE f == [s \in Req |-> row[s].scores]
             S == {s \in stored : Kind(s) \in kinds}
  <2>1. S \subseteq Req /\ IsFiniteSet(S) BY SubmissionAssumption, FS_Subset DEF TypeOK
  <2>2. \A s \in Req : row[s].scores \in Nat
    <3>1. \A s \in Req : row[s] \in Attempt BY DEF TypeOK
    <3>2. QED BY <3>1 DEF Attempt
  <2>3. \A s \in S : f[s] \in Nat BY <2>1, <2>2
  <2>4. ScoresOf(kinds) = SumFunctionOnSet(f, S) BY DEF ScoresOf
  <2> HIDE DEF f, S
  <2>5. QED BY <2>1, <2>3, <2>4, SumNat
<1>4. QED BY <1>2, <1>3

(* The stored attempts' stars stay while no attempt is stored. *)
LEMMA ScoresKept ==
    ASSUME TypeOK, stored' = stored, \A s \in stored : row'[s].scores = row[s].scores, NEW kinds
    PROVE  ScoresOf(kinds)' = ScoresOf(kinds)
<1> DEFINE f == [s \in Req |-> row[s].scores]
           e == [s \in Req |-> row'[s].scores]
           S == {s \in stored : Kind(s) \in kinds}
<1>1. S \subseteq Req /\ IsFiniteSet(S) BY SubmissionAssumption, FS_Subset DEF TypeOK
<1>2. \A s \in S : f[s] = e[s] BY <1>1
<1>3. ScoresOf(kinds) = SumFunctionOnSet(f, S) BY DEF ScoresOf
<1>4. ScoresOf(kinds)' = SumFunctionOnSet(e, S) BY DEF ScoresOf, Kind
<1> HIDE DEF f, e, S
<1>5. QED BY <1>1, <1>2, <1>3, <1>4, SumSame

(* An attempt that is stored brings its own. *)
LEMMA ScoresGrow ==
    ASSUME TypeOK, NEW r \in Req, r \notin stored, stored' = stored \cup {r}, row' = row, NEW kinds
    PROVE  ScoresOf(kinds)' = ScoresOf(kinds) + IF Kind(r) \in kinds THEN row[r].scores ELSE 0
<1> DEFINE f == [s \in Req |-> row[s].scores]
           S == {s \in stored : Kind(s) \in kinds}
           T == {s \in stored' : Kind(s) \in kinds}
<1>1. S \subseteq Req /\ T \subseteq Req /\ IsFiniteSet(S) /\ IsFiniteSet(T)
  BY SubmissionAssumption, FS_Subset DEF TypeOK
<1>2. \A s \in T : f[s] \in Int
  <2>1. \A s \in Req : row[s] \in Attempt BY DEF TypeOK
  <2>2. \A s \in Req : row[s].scores \in Int BY <2>1 DEF Attempt
  <2>3. QED BY <1>1, <2>2
<1>3. ScoresOf(kinds) = SumFunctionOnSet(f, S) /\ f[r] = row[r].scores BY DEF ScoresOf
<1>4. ScoresOf(kinds)' = SumFunctionOnSet(f, T) BY DEF ScoresOf, Kind
<1>5. SumFunctionOnSet(f, S) \in Int
  <2>1. S \subseteq T BY DEF Kind
  <2> HIDE DEF f, S, T
  <2>2. QED BY <1>1, <1>2, <2>1, SumTyped
<1>6. CASE Kind(r) \in kinds
  <2>1. r \in T /\ T \ {r} = S BY <1>6
  <2> HIDE DEF f, S, T
  <2>2. SumFunctionOnSet(f, T) = f[r] + SumFunctionOnSet(f, T \ {r}) BY <1>1, <1>2, <2>1, SumSplit
  <2>3. SumFunctionOnSet(f, T) = f[r] + SumFunctionOnSet(f, S) BY <2>1, <2>2, Zenon
  <2>4. f[r] \in Int BY <1>2, <2>1
  <2>5. SumFunctionOnSet(f, T) = SumFunctionOnSet(f, S) + f[r] BY <1>5, <2>3, <2>4
  <2>6. QED BY <1>3, <1>4, <1>6, <2>5
<1>7. CASE Kind(r) \notin kinds
  <2>1. T = S BY <1>7
  <2> HIDE DEF f, S, T
  <2>2. QED BY <1>3, <1>4, <1>5, <1>7, <2>1
<1>8. QED BY <1>6, <1>7

(* Where neither the rows nor the stored attempts change, what is shown and what is due do not. *)
LEMMA StarsFrame ==
    ASSUME TypeOK, agg' = agg, stored' = stored, \A s \in stored : row'[s].scores = row[s].scores
    PROVE  \A t \in Tables : ScoreSum(t)' = ScoreSum(t) /\ StarsDue(t)' = StarsDue(t) /\ Ids(t)' = Ids(t)
<1>1. \A kinds : ScoresOf(kinds)' = ScoresOf(kinds)
  <2> SUFFICES ASSUME NEW kinds PROVE ScoresOf(kinds)' = ScoresOf(kinds) OBVIOUS
  <2>1. QED BY ScoresKept
<1>2. ASSUME NEW t PROVE ScoreSum(t)' = ScoreSum(t) /\ Flags(t)' = Flags(t) /\ Ids(t)' = Ids(t)
  BY DEF ScoreSum, Flags, Ids
<1>3. ASSUME NEW t PROVE StarsDue(t)' = StarsDue(t)
  <2>1. /\ ScoresOf({"quiz"})' = ScoresOf({"quiz"}) /\ ScoresOf({"levelquiz"})' = ScoresOf({"levelquiz"})
    BY <1>1
  <2>2. Flags("lesson")' = Flags("lesson") /\ Flags("level")' = Flags("level") BY <1>2
  <2>3. QED BY <2>1, <2>2 DEF StarsDue
<1>4. QED BY <1>2, <1>3

(* A request that has failed stays failed. *)
LEMMA FaultStays ==
    ASSUME Sound, [Next]_vars, NoFault'
    PROVE  NoFault
<1>0. TypeOK BY DEF Sound, TypeInv
<1>1. ASSUME NEW r \in Req, Receive(r) \/ Step(r) \/ Timeout(r) \/ Fail(r) PROVE NoFault
  <2>1. pc[r] \notin {"error", "lost"}
    <3>1. CASE Receive(r) BY <3>1 DEF Receive
    <3>2. CASE ~Receive(r)
      <4>1. r \in InFlight BY <1>1, <3>2, Moving
      <4>2. QED BY <4>1 DEF InFlight, Ended
    <3>3. QED BY <3>1, <3>2
  <2>2. \A q \in Req \ {r} : pc'[q] = pc[q] BY <1>0, <1>1, OthersUntouched DEF Untouched
  <2>3. QED BY <2>1, <2>2 DEF NoFault
<1>2. CASE Crash
  <2>1. \A q \in Req : pc'[q] = (IF q \in InFlight THEN "lost" ELSE pc[q]) BY <1>2 DEF Crash
  <2>2. QED BY <2>1 DEF NoFault
<1>3. CASE UNCHANGED vars BY <1>3 DEF NoFault, vars
<1>4. QED BY <1>1, <1>2, <1>3 DEF Next

(* What is short by n, and where nothing changes, stays so. *)
LEMMA ShortStays ==
    ASSUME NEW t \in Tables, NEW n, ScoreSum(t)' = ScoreSum(t), StarsDue(t)' = StarsDue(t), NoFault' => NoFault, Short(t, n)
    PROVE  Short(t, n)'
  BY DEF Short

(* What a request still carries. *)
LEMMA CarriedTyped ==
    ASSUME Sound, NEW r \in Req, pc[r] \in AddingStars
    PROVE  Carried(r) \in Nat
<1>1. row[r] \in Attempt /\ tab[r] \in Tables /\ LocTyped(r) BY DEF Sound, TypeInv, TypeOK
<1>2. row[r].scores \in Nat BY <1>1 DEF Attempt
<1>3. QED BY <1>1, <1>2 DEF Carried, LocTyped

(* A step of the only request in progress: the others add no stars and write none. *)
LEMMA StarsOthers ==
    ASSUME Serial, Sound, LedgerInv, StarsInv, NEW r \in Req, Receive(r) \/ Step(r) \/ Timeout(r) \/ Fail(r),
           NEW q \in Req, q # r
    PROVE  pc[q] \notin AddingStars /\ pc'[q] \notin AddingStars /\ Owing(q)' /\ Starring(q)'
<1>0. TypeOK /\ Untouched(q) BY OthersUntouched DEF Sound, TypeInv
<1>1. q \notin InFlight
  <2>1. CASE Receive(r) BY <2>1 DEF Receive, Quiet
  <2>2. CASE ~Receive(r) BY <2>2, Moving DEF Alone, LedgerInv
  <2>3. QED BY <2>1, <2>2
<1>2. pc[q] \in Ended \cup {"idle"} /\ pc'[q] = pc[q] BY <1>0, <1>1 DEF InFlight, Untouched
<1>3. writes'[q] = NoWrites BY <1>0, <1>2 DEF LedgerInv, Claim, Wrote, Rewarded, Ended, Untouched
<1>4. pc[q] \notin AddingStars /\ pc'[q] \notin AddingStars /\ pc'[q] # "starred" /\ pc'[q] \notin Settled
  BY <1>2 DEF AddingStars, Settled, Rewarded, Ended
<1>5. Owing(q)' BY <1>4 DEF Owing
<1>6. NewRowsStarless(q)' BY <1>3 DEF NewRowsStarless, NoWrites
<1>7. PracticeStarless(q)'
  <2>1. PracticeStarless(q) /\ row'[q] = row[q] BY <1>0 DEF StarsInv, Starring, Untouched
  <2>2. QED BY <2>1 DEF PracticeStarless, Kind
<1>8. Adding(q)' /\ TriedIfNotDue(q)' BY <1>4 DEF Adding, TriedIfNotDue
<1>9. QED BY <1>4, <1>5, <1>6, <1>7, <1>8 DEF Starring

(* The stars of a stored attempt do not change. *)
LEMMA StoredScoresKept ==
    ASSUME Sound, NEW r \in Req, Receive(r) \/ Step(r) \/ Timeout(r) \/ Fail(r)
    PROVE  \A s \in stored : row'[s].scores = row[s].scores
<1>0. TypeOK /\ Located(r) BY DEF Sound, IInv, TypeInv
<1>1. \A s \in Req \ {r} : row'[s] = row[s] BY <1>0, OthersUntouched DEF Untouched
<1>2. r \in stored => row'[r] = row[r]
  <2>1. r \in stored => ~Insert(r) /\ ~insertquestion(r)
    BY <1>0 DEF Insert, insertquestion, Located, AddingStars, Closing, Ended
  <2>2. QED BY <2>1, RowChanges
<1>3. stored \subseteq Req BY <1>0 DEF TypeOK
<1>4. QED BY <1>1, <1>2, <1>3

(* Enough to show of a step that neither commits nor writes stars. *)
LEMMA StarsLocal ==
    ASSUME Serial, Sound, LedgerInv, StarsInv, [Next]_vars, NEW r \in Req, Receive(r) \/ Step(r) \/ Timeout(r) \/ Fail(r),
           ~Commit(r), ~WriteStars(r), Starring(r)',
           \/ pc[r] \notin AddingStars /\ pc'[r] \notin AddingStars
           \/ pc[r] \in AddingStars /\ pc'[r] \in AddingStars /\ tab'[r] = tab[r] /\ Carried(r)' = Carried(r)
           \/ pc[r] \in AddingStars /\ pc'[r] = "error"
    PROVE  StarsInv'
<1>0. TypeOK /\ RightTotals /\ RowsExist /\ NobodyOwes /\ Owing(r) BY DEF Sound, TypeInv, LedgerInv, StarsInv
<1>1. agg' = agg
  BY DEF Receive, Step, Timeout, Fail, Abort, AskPassOld, AskTried, AskOld, AskNewest, SumHeld, Asks, Begin, Find,
         Insert, insertquestion, Recover, Reply, ReadTotal, ReadStars, FindDaily, WriteDaily, setstudentactive,
         WriteTotal, dbvars
<1>2. stored' = stored BY StoredChanges
<1>3. \A s \in stored : row'[s].scores = row[s].scores BY StoredScoresKept
<1>4. \A t \in Tables : ScoreSum(t)' = ScoreSum(t) /\ StarsDue(t)' = StarsDue(t) /\ Ids(t)' = Ids(t)
  BY <1>0, <1>1, <1>2, <1>3, StarsFrame
<1>5. NoFault' => NoFault BY FaultStays
<1>6. \A q \in Req : q # r => pc[q] \notin AddingStars /\ pc'[q] \notin AddingStars /\ Owing(q)' /\ Starring(q)'
  BY StarsOthers
<1>7. RowsExist'
  <2>1. \A s \in stored : DueTables(s)' = DueTables(s) /\ DueTables(s) \subseteq Tables BY DEF DueTables, Kind, Tables
  <2>2. QED BY <1>0, <1>2, <1>4, <2>1 DEF RowsExist, Kind
<1>8. CASE pc[r] \notin AddingStars /\ pc'[r] \notin AddingStars
  <2>1. \A t \in Tables : Short(t, 0) BY <1>0, <1>6, <1>8 DEF NobodyOwes
  <2>2. \A t \in Tables : Short(t, 0)' BY <1>4, <1>5, <2>1, ShortStays
  <2>3. NobodyOwes' BY <2>2 DEF NobodyOwes
  <2>4. Owing(r)' BY <1>8 DEF Owing
  <2>5. QED BY <1>6, <1>7, <2>3, <2>4 DEF StarsInv
<1>9. CASE pc[r] \in AddingStars /\ pc'[r] \in AddingStars /\ tab'[r] = tab[r] /\ Carried(r)' = Carried(r)
  <2>1. \A t \in Tables : Owes(r, t) BY <1>0, <1>9 DEF Owing
  <2>2. ASSUME NEW t \in Tables PROVE Owes(r, t)'
    <3> DEFINE n == IF t \in Ahead(tab[r]) THEN Carried(r) ELSE 0
    <3>1. Short(t, n) BY <2>1 DEF Owes
    <3>2. n' = n BY <1>9
    <3> HIDE DEF n
    <3>3. ScoreSum(t)' + n' <= StarsDue(t)' /\ (NoFault' => ScoreSum(t)' + n' = StarsDue(t)')
      BY <1>4, <1>5, <3>1, <3>2 DEF Short
    <3>4. QED BY <3>3 DEF Owes, Short, n
  <2>3. Owing(r)' BY <2>2 DEF Owing
  <2>4. NobodyOwes' BY <1>9 DEF NobodyOwes
  <2>5. QED BY <1>6, <1>7, <2>3, <2>4 DEF StarsInv
<1>10. CASE pc[r] \in AddingStars /\ pc'[r] = "error"
  <2>1. \A t \in Tables : Owes(r, t) BY <1>0, <1>10 DEF Owing
  <2>2. ~NoFault' BY <1>10 DEF NoFault
  <2>3. ASSUME NEW t \in Tables PROVE Short(t, 0)'
    <3>1. Carried(r) \in Nat BY <1>10, CarriedTyped
    <3>2. ScoreSum(t) \in Nat /\ \A kinds : ScoresOf(kinds) \in Nat BY <1>0, StarsTyped
    <3>3. Flags("lesson") \in Nat /\ Flags("level") \in Nat BY <1>0, StarsTyped DEF Tables
    <3>4. StarsDue(t) \in Nat BY <3>2, <3>3 DEF StarsDue
    <3>5. \E n \in Nat : ScoreSum(t) + n <= StarsDue(t) BY <2>1, <3>1 DEF Owes, Short
    <3>6. ScoreSum(t) <= StarsDue(t) BY <3>2, <3>4, <3>5
    <3>7. ScoreSum(t)' + 0 <= StarsDue(t)' BY <1>4, <3>2, <3>6
    <3>8. QED BY <2>2, <3>7 DEF Short
  <2>4. NobodyOwes' BY <2>3 DEF NobodyOwes
  <2>5. Owing(r)' BY <1>10 DEF Owing, AddingStars
  <2>6. QED BY <1>6, <1>7, <2>4, <2>5 DEF StarsInv
<1>11. QED BY <1>8, <1>9, <1>10

(* The rows a transaction will make have no stars: what it has written stays, or is dropped. *)
LEMMA NewRowsStay ==
    ASSUME Sound, NEW r \in Req, NewRowsStarless(r), agg' = agg, writes'[r] \in {writes[r], NoWrites}
    PROVE  NewRowsStarless(r)'
<1>1. CASE writes'[r] = writes[r] BY <1>1 DEF NewRowsStarless
<1>2. CASE writes'[r] = NoWrites BY <1>2 DEF NewRowsStarless, NoWrites
<1>3. QED BY <1>1, <1>2

(* A practice never has stars. *)
LEMMA PracticeStays ==
    ASSUME Sound, NEW r \in Req, PracticeStarless(r), Receive(r) \/ Step(r) \/ Timeout(r) \/ Fail(r)
    PROVE  PracticeStarless(r)'
<1>0. row \in [Req -> Attempt] BY DEF Sound, TypeInv, TypeOK
<1>1. CASE Insert(r)
  <2>1. row' = row \/ row' = [row EXCEPT ![r] = NewAttempt(r, loc[r].pct)] BY <1>1 DEF Insert
  <2>2. CASE row' = row BY <2>2 DEF PracticeStarless, Kind
  <2>3. CASE row' = [row EXCEPT ![r] = NewAttempt(r, loc[r].pct)]
    <3>1. row'[r] = NewAttempt(r, loc[r].pct) BY <1>0, <2>3
    <3>2. Kind(r) = "practice" => NewAttempt(r, loc[r].pct).scores = 0 BY DEF NewAttempt
    <3>3. QED BY <3>1, <3>2 DEF PracticeStarless, Kind
  <2>4. QED BY <2>1, <2>2, <2>3
<1>2. CASE insertquestion(r)
  <2>1. row'[r].scores = row[r].scores BY <1>0, <1>2 DEF insertquestion, Attempt
  <2>2. QED BY <2>1 DEF PracticeStarless, Kind
<1>3. CASE ~Insert(r) /\ ~insertquestion(r)
  <2>1. row' = row BY <1>3, RowChanges
  <2>2. QED BY <2>1 DEF PracticeStarless, Kind
<1>4. QED BY <1>1, <1>2, <1>3

(* Whether a reward is due is settled; that it is not, because the activity has been tried, stays so. *)
LEMMA DueStays ==
    ASSUME Sound, NEW r \in Req, Receive(r) \/ Step(r) \/ Timeout(r) \/ Fail(r), ~Commit(r), TriedIfNotDue(r),
           pc'[r] \in Settled => pc[r] \in Settled /\ loc'[r].due = loc[r].due, passed' = passed
    PROVE  TriedIfNotDue(r)'
<1>1. Kept BY StepKept
<1>2. hasTried(ActivityOf[r])' <=> hasTried(ActivityOf[r]) BY <1>1, AttemptWorth DEF Kept
<1>3. QED BY <1>2 DEF TriedIfNotDue, Fresh, Kind

(* A step that is not about stars, from and to places that are not. *)
LEMMA StarsElsewhere ==
    ASSUME Serial, Sound, LedgerInv, StarsInv, [Next]_vars, NEW r \in Req, Receive(r) \/ Step(r) \/ Timeout(r) \/ Fail(r),
           ~Commit(r), ~WriteStars(r), pc[r] \notin AddingStars, pc'[r] \notin AddingStars, TriedIfNotDue(r)', NewRowsStarless(r)'
    PROVE  StarsInv'
<1>1. PracticeStarless(r)' BY PracticeStays DEF StarsInv, Starring
<1>2. Adding(r)' BY DEF Adding, AddingStars
<1>3. QED BY <1>1, <1>2, StarsLocal DEF Starring

(* The request arrives, and asks. *)
LEMMA ReceiveStars ==
    ASSUME Serial, Sound, LedgerInv, StarsInv, [Next]_vars, NEW r \in Req, Receive(r)
    PROVE  StarsInv'
<1>0. pc \in [Req -> Steps] /\ Starring(r) BY DEF Sound, TypeInv, TypeOK, StarsInv
<1>1. /\ pc[r] = "idle" /\ pc'[r] \in {"passold", "tried", "begin"} /\ writes' = writes /\ agg' = agg
      /\ pc'[r] = "begin" => Kind(r) = "baseline"
  BY <1>0 DEF Receive, Goto, txvars, dbvars
<1>2. TriedIfNotDue(r)' BY <1>1 DEF TriedIfNotDue, Settled, Rewarded, Fresh, Kind
<1>3. NewRowsStarless(r)' BY <1>0, <1>1, NewRowsStay DEF Starring
<1>4. ~Commit(r) /\ ~WriteStars(r) BY <1>1 DEF Commit, WriteStars
<1>5. QED BY <1>1, <1>2, <1>3, <1>4, StarsElsewhere DEF AddingStars

(* Not due: tried before, and its points unchanged, or a later attempt is stored. *)
LEMMA AskStars ==
    ASSUME Serial, Sound, LedgerInv, StarsInv, [Next]_vars, NEW r \in Req,
           AskPassOld(r) \/ AskTried(r) \/ AskOld(r) \/ AskNewest(r)
    PROVE  StarsInv'
<1>0. pc \in [Req -> Steps] /\ loc \in [Req -> Local] /\ Starring(r) /\ Reckoned(r)
  BY DEF Sound, TypeInv, TypeOK, StarsInv, LedgerInv, Claim
<1>1. /\ pc[r] \in {"passold", "tried", "old", "newest"} /\ pc'[r] \in {"old", "newest", "begin"}
      /\ UNCHANGED <<passed, writes, agg>> /\ Step(r)
  BY <1>0 DEF AskPassOld, AskTried, AskOld, AskNewest, Asks, Goto, txvars, dbvars, Step
<1>2. ~Commit(r) /\ ~WriteStars(r) BY <1>1 DEF Commit, WriteStars
<1>3. Kept BY <1>1, <1>2, StepKept
<1>4. hasTried(ActivityOf[r])' <=> hasTried(ActivityOf[r]) BY <1>3, AttemptWorth DEF Kept
<1>5. TriedIfNotDue(r)'
  <2>1. CASE AskPassOld(r)
    <3>1. r \in passed BY <1>0, <2>1 DEF AskPassOld, Asks, Reckoned
    <3>2. QED BY <1>1, <3>1 DEF TriedIfNotDue, Fresh
  <2>2. CASE AskTried(r)
    <3>1. pc'[r] = "old" BY <1>0, <2>2 DEF AskTried, Asks, Goto
    <3>2. QED BY <3>1 DEF TriedIfNotDue, Settled, Rewarded
  <2>3. CASE AskOld(r)
    <3> DEFINE new == NewAttempt(r, loc[r].pct)
               old == getoldpoints(ActivityOf[r], new.points)
    <3>1. loc' = [loc EXCEPT ![r] = [loc[r] EXCEPT !.old = old, !.due = @ \/ old # NoOld, !.add = Delta(new.points, old)]]
      BY <2>3 DEF AskOld, Asks
    <3> HIDE DEF new, old
    <3>2. loc'[r].due = (loc[r].due \/ old # NoOld)
      <4>1. loc[r] \in Local BY <1>0
      <4>2. QED BY <1>0, <3>1, <4>1 DEF Local
    <3>3. loc[r].due <=> ~hasTried(ActivityOf[r]) BY <1>0, <2>3 DEF AskOld, Asks, Reckoned
    <3>4. ~loc'[r].due => hasTried(ActivityOf[r]) BY <3>2, <3>3
    <3>5. QED BY <1>4, <3>4 DEF TriedIfNotDue
  <2>4. CASE AskNewest(r)
    <3> DEFINE rs == Rows(ActivityOf[r])
               stale == rs # {} /\ StartOf[Newest(rs)] > StartOf[r]
    <3>1. loc' = [loc EXCEPT ![r] = [loc[r] EXCEPT !.due = @ /\ ~stale]] BY <2>4 DEF AskNewest, Asks
    <3>2. loc'[r].due = (loc[r].due /\ ~stale)
      <4>1. loc[r] \in Local BY <1>0
      <4> HIDE DEF stale
      <4>2. QED BY <1>0, <3>1, <4>1 DEF Local
    <3>3. stale => hasTried(ActivityOf[r]) BY DEF hasTried
    <3> HIDE DEF stale
    <3>4. pc[r] = "newest" BY <2>4 DEF AskNewest, Asks
    <3>5. ~loc[r].due /\ Fresh(r) => hasTried(ActivityOf[r]) BY <1>0, <3>4 DEF Starring, TriedIfNotDue, Settled
    <3>6. Fresh(r)' = Fresh(r) BY <1>1 DEF Fresh, Kind
    <3>7. loc'[r].due \in BOOLEAN /\ loc[r].due \in BOOLEAN
      <4>1. loc[r] \in Local BY <1>0
      <4>2. loc[r].due \in BOOLEAN BY <4>1 DEF Local
      <4>3. QED BY <3>2, <4>2
    <3>8. QED BY <1>4, <3>2, <3>3, <3>5, <3>6, <3>7 DEF TriedIfNotDue
  <2>5. QED BY <2>1, <2>2, <2>3, <2>4
<1>6. NewRowsStarless(r)' BY <1>0, <1>1, NewRowsStay DEF Starring
<1>7. QED BY <1>1, <1>2, <1>5, <1>6, StarsElsewhere DEF AddingStars

(* Up to the commit, but for the writes of the reward, and after the stars; and where it ends in an error. *)
LEMMA PlainStars ==
    ASSUME Serial, Sound, LedgerInv, StarsInv, [Next]_vars, NEW r \in Req,
           \/ Begin(r) \/ Find(r) \/ Insert(r) \/ insertquestion(r) \/ ReadTotal(r) \/ setstudentactive(r)
           \/ Recover(r) \/ FindDaily(r) \/ SumHeld(r) \/ WriteDaily(r) \/ Reply(r)
    PROVE  StarsInv'
<1>0. pc \in [Req -> Steps] /\ loc \in [Req -> Local] /\ Starring(r) BY DEF Sound, TypeInv, TypeOK, StarsInv
<1>1. /\ pc[r] \notin AddingStars \cup {"commit"} /\ pc'[r] \notin AddingStars /\ UNCHANGED <<passed, agg>> /\ Step(r)
      /\ writes'[r] \in {writes[r], NoWrites}
  BY <1>0 DEF Begin, Find, Insert, insertquestion, ReadTotal, setstudentactive, Recover, FindDaily, SumHeld, Asks,
     WriteDaily, Reply, Step, Goto, Rewarding, EndTransaction, txvars, dbvars, AddingStars
<1>2. ~Commit(r) /\ ~WriteStars(r) BY <1>1 DEF Commit, WriteStars, AddingStars
<1>3. pc'[r] \in Settled => pc[r] \in Settled /\ loc'[r].due = loc[r].due
  <2>1. CASE Begin(r) \/ Find(r) \/ Insert(r) \/ insertquestion(r) \/ setstudentactive(r)
    <3>1. loc' = loc /\ pc[r] \in Settled
      BY <2>1 DEF Begin, Find, Insert, insertquestion, setstudentactive, Settled, Rewarded
    <3>2. QED BY <3>1
  <2>2. CASE ReadTotal(r)
    <3>1. PICK seen, id : loc' = [loc EXCEPT ![r].seen = seen, ![r].id = id] BY <2>2 DEF ReadTotal, Sees
    <3>2. loc[r] \in Local /\ pc[r] \in Settled BY <1>0, <2>2 DEF ReadTotal, Settled, Rewarded
    <3>3. loc'[r].due = loc[r].due BY <1>0, <3>1, <3>2 DEF Local
    <3>4. QED BY <3>2, <3>3
  <2>3. CASE Recover(r) \/ FindDaily(r) \/ SumHeld(r) \/ WriteDaily(r) \/ Reply(r)
    <3>1. pc'[r] \in {"dfind", "conflict", "dheld", "dwrite", "reply", "ok"}
      BY <1>0, <2>3 DEF Recover, FindDaily, SumHeld, Asks, WriteDaily, Reply, Goto
    <3>2. QED BY <3>1 DEF Settled, Rewarded
  <2>4. QED BY <2>1, <2>2, <2>3
<1>4. TriedIfNotDue(r)' BY <1>0, <1>1, <1>2, <1>3, DueStays DEF Starring
<1>5. NewRowsStarless(r)' BY <1>0, <1>1, NewRowsStay DEF Starring
<1>6. QED BY <1>1, <1>2, <1>4, <1>5, StarsElsewhere

(* An error. *)
LEMMA AbortStars ==
    ASSUME Serial, Sound, LedgerInv, StarsInv, [Next]_vars, NEW r \in Req, Timeout(r) \/ Fail(r)
    PROVE  StarsInv'
<1>0. pc \in [Req -> Steps] /\ Starring(r) BY DEF Sound, TypeInv, TypeOK, StarsInv
<1>1. /\ pc'[r] = "error" /\ writes'[r] = NoWrites /\ UNCHANGED <<passed, agg>>
  BY <1>0 DEF Timeout, Fail, Abort, EndTransaction, Goto, dbvars
<1>2. ~Commit(r) /\ ~WriteStars(r) BY <1>0, <1>1 DEF Commit, AfterCommit, WriteStars, Goto
<1>3. PracticeStarless(r)' BY <1>0, PracticeStays DEF Starring
<1>4. TriedIfNotDue(r)' BY <1>1 DEF TriedIfNotDue, Settled, Rewarded
<1>5. NewRowsStarless(r)' BY <1>0, <1>1, NewRowsStay DEF Starring
<1>6. Adding(r)' BY <1>1 DEF Adding, AddingStars
<1>7. pc'[r] \notin AddingStars BY <1>1 DEF AddingStars
<1>8. QED BY <1>1, <1>2, <1>3, <1>4, <1>5, <1>6, <1>7, StarsLocal DEF Starring

(* The reward is written: of a row that is not there yet, a row with no stars. *)
LEMMA WriteTotalStars ==
    ASSUME Serial, Sound, LedgerInv, StarsInv, [Next]_vars, NEW r \in Req, WriteTotal(r)
    PROVE  StarsInv'
<1>0. /\ pc \in [Req -> Steps] /\ loc \in [Req -> Local] /\ tab \in [Req -> Tables] /\ Starring(r) /\ Wrote(r)
      /\ writes \in [Req -> [Tables -> [id : Req, row : Row] \cup {NoWrite}]]
  BY DEF Sound, TypeInv, TypeOK, StarsInv, LedgerInv, Claim
<1> DEFINE t == tab[r]
           l == loc[r]
           w == [id |-> l.id, row |-> TotalAfter(t, l.seen, l.add)]
<1>1. /\ pc[r] = "write" /\ pc'[r] \in {"active", "read"} /\ UNCHANGED <<passed, agg>> /\ Step(r)
      /\ writes' = [writes EXCEPT ![r][t] = w]
      /\ loc' = IF t = "lesson" THEN [loc EXCEPT ![r].add = LandedPoints(l.seen, l.add, TotalOf[t])] ELSE loc
  BY <1>0 DEF WriteTotal, Step, Goto, dbvars
<1>2. ~Commit(r) /\ ~WriteStars(r) BY <1>1 DEF Commit, WriteStars
<1>3. loc'[r].due = loc[r].due
  <2>1. CASE t = "lesson"
    <3>1. PICK n : loc' = [loc EXCEPT ![r].add = n] BY <1>1, <2>1
    <3>2. loc[r] \in Local BY <1>0
    <3>3. QED BY <1>0, <3>1, <3>2 DEF Local
  <2>2. CASE t # "lesson" BY <1>1, <2>2
  <2>3. QED BY <2>1, <2>2
<1>4. TriedIfNotDue(r)' BY <1>0, <1>1, <1>2, <1>3, DueStays DEF Starring, Settled, Rewarded
<1>5. l.seen = agg[t][l.id] BY <1>0, <1>1 DEF Wrote
<1>6. l.seen = NoRow => w.row.scores = 0 /\ ~w.row.flag
  <2>1. l.seen = NoRow => TotalAfter(t, l.seen, l.add).scores = 0 /\ ~TotalAfter(t, l.seen, l.add).flag
    BY DEF TotalAfter, LessonRow, NewLessonRow, TotalRow
  <2>2. QED BY <2>1
<1>7. \A u \in Tables : writes'[r][u] = IF u = t THEN w ELSE writes[r][u] BY <1>0, <1>1
<1>8. w.id = l.id OBVIOUS
<1>9. ASSUME NEW u \in Tables, writes'[r][u] # NoWrite, agg'[u][writes'[r][u].id] = NoRow
      PROVE  writes'[r][u].row.scores = 0 /\ ~writes'[r][u].row.flag
  <2> HIDE DEF w
  <2>1. CASE u = t BY <1>1, <1>5, <1>6, <1>7, <1>8, <1>9, <2>1
  <2>2. CASE u # t BY <1>0, <1>1, <1>7, <1>9, <2>2 DEF Starring, NewRowsStarless
  <2>3. QED BY <2>1, <2>2
<1>10. NewRowsStarless(r)' BY <1>9 DEF NewRowsStarless
<1>11. QED BY <1>1, <1>2, <1>4, <1>10, StarsElsewhere DEF AddingStars

(* The one row of the table is read, for the stars. *)
LEMMA ReadStarsStars ==
    ASSUME Serial, Sound, LedgerInv, StarsInv, [Next]_vars, NEW r \in Req, ReadStars(r)
    PROVE  StarsInv'
<1>0. /\ pc \in [Req -> Steps] /\ loc \in [Req -> Local] /\ tab \in [Req -> Tables] /\ Starring(r) /\ TypeOK /\ RightTotals
  BY DEF Sound, TypeInv, TypeOK, StarsInv, LedgerInv
<1>1. /\ pc[r] = "stars" /\ pc'[r] = "starred" /\ UNCHANGED <<tab, passed, writes, agg, row>> /\ Step(r)
      /\ Sees(r, tab[r])
  BY <1>0 DEF ReadStars, Step, Goto, txvars, dbvars
<1>2. PICK seen, id : /\ loc' = [loc EXCEPT ![r].seen = seen, ![r].id = id]
                      /\ id \in Req /\ seen = agg[tab[r]][id]
                      /\ \/ \A s \in Req : agg[tab[r]][s] = NoRow
                         \/ agg[tab[r]][id] # NoRow
  <2> DEFINE ids == {s \in Req : agg[tab[r]][s] # NoRow}
  <2>1. CASE ids = {} /\ loc' = [loc EXCEPT ![r].seen = NoRow, ![r].id = r]
    <3>1. NoRow = agg[tab[r]][r] /\ \A s \in Req : agg[tab[r]][s] = NoRow BY <2>1
    <3>2. QED BY <2>1, <3>1
  <2>2. CASE \E s \in ids : loc' = [loc EXCEPT ![r].seen = agg[tab[r]][s], ![r].id = s] BY <2>2
  <2>3. QED BY <1>1, <2>1, <2>2 DEF Sees
<1>3. loc'[r].seen = seen /\ loc'[r].id = id /\ loc'[r].add = loc[r].add
  <2>1. loc[r] \in Local BY <1>0
  <2>2. QED BY <1>0, <1>2, <2>1 DEF Local
<1>4. \A s \in Req : agg[tab[r]][s] # NoRow => s = id
  <2>1. tab[r] \in Tables BY <1>0
  <2>2. QED BY <1>0, <1>2, <2>1, TheRow
<1>5. ~Commit(r) /\ ~WriteStars(r) BY <1>1 DEF Commit, WriteStars
<1>6. Adding(r)' BY <1>0, <1>1, <1>2, <1>3, <1>4 DEF Adding, Starring, AddingStars, Kind, DueTables
<1>7. TriedIfNotDue(r)' BY <1>1 DEF TriedIfNotDue, Settled, Rewarded
<1>8. NewRowsStarless(r)' BY <1>0, <1>1, NewRowsStay DEF Starring
<1>9. PracticeStarless(r)' BY <1>0, <1>1, PracticeStays DEF Starring
<1>10. Carried(r)' = Carried(r) BY <1>1, <1>3 DEF Carried, FirstTable, Kind
<1>11. QED BY <1>1, <1>5, <1>6, <1>7, <1>8, <1>9, <1>10, StarsLocal DEF Starring, AddingStars

(* The row a transaction commits to has the stars and the flag it had, a new row none. *)
LEMMA CommitLeavesStars ==
    ASSUME Sound, LedgerInv, StarsInv, NEW r \in Req, Commit(r), NEW t \in Tables, NEW s \in Req
    PROVE  /\ agg'[t][s].scores = agg[t][s].scores /\ agg'[t][s].flag = agg[t][s].flag
           /\ agg[t][s] # NoRow => agg'[t][s] # NoRow
<1> DEFINE w == writes[r][t]
           a == agg[t][s]
<1>0. a \in Row /\ Wrote(r) /\ NewRowsStarless(r) BY DEF Sound, TypeInv, TypeOK, LedgerInv, Claim, StarsInv, Starring
<1>1. agg'[t][s] = Committed(r, t, s) BY DEF Commit
<1>2. CASE w = NoWrite \/ w.id # s
  <2>1. agg'[t][s] = a BY <1>1, <1>2 DEF Committed
  <2>2. QED BY <2>1
<1>3. CASE w # NoWrite /\ w.id = s /\ a = NoRow
  <2>1. agg'[t][s] = w.row BY <1>1, <1>3 DEF Committed
  <2>2. w.row.scores = 0 /\ ~w.row.flag /\ w.row \in ProgressRow BY <1>0, <1>3 DEF NewRowsStarless, Wrote, Written
  <2>3. w.row.flag = FALSE /\ a.scores = 0 /\ a.flag = FALSE BY <1>3, <2>2 DEF NoRow, ProgressRow
  <2>4. QED BY <1>3, <2>1, <2>2, <2>3
<1>4. CASE w # NoWrite /\ w.id = s /\ a # NoRow
  <2> DEFINE b == [a EXCEPT !.points = w.row.points, !.completed = w.row.completed]
  <2>1. agg'[t][s] = b BY <1>1, <1>4 DEF Committed
  <2>2. a \in ProgressRow /\ w.row \in ProgressRow BY <1>0, <1>4 DEF Row, Wrote, Written
  <2>3. w.row.points \in Int /\ w.row.completed \in BOOLEAN BY <2>2 DEF ProgressRow
  <2> HIDE DEF a, w
  <2>4. b \in ProgressRow /\ b.scores = a.scores /\ b.flag = a.flag BY <2>2, <2>3 DEF ProgressRow
  <2>5. b # NoRow BY <2>4, RowFacts
  <2> HIDE DEF b
  <2>6. QED BY <2>1, <2>4, <2>5 DEF a
<1>5. QED BY <1>2, <1>3, <1>4

(* So the stars shown are those shown before. *)
LEMMA CommitShowsSame ==
    ASSUME Sound, LedgerInv, StarsInv, NEW r \in Req, Commit(r), NEW t \in Tables, TypeOK', RightTotals'
    PROVE  ScoreSum(t)' = ScoreSum(t) /\ Flags(t)' = Flags(t) /\ (Ids(t) # {} => Ids(t)' # {})
<1>0. agg[t] \in [Req -> Row] /\ agg'[t] \in [Req -> Row] /\ TypeOK /\ RightTotals BY DEF Sound, TypeInv, TypeOK, LedgerInv
<1>1. \A s \in Req : /\ agg'[t][s].scores = agg[t][s].scores /\ agg'[t][s].flag = agg[t][s].flag
                     /\ agg[t][s] # NoRow => agg'[t][s] # NoRow
  BY CommitLeavesStars
<1>2. PICK s \in Req : \A q \in Req : agg'[t][q] # NoRow => q = s
  <2>1. CASE \E s \in Req : agg'[t][s] # NoRow
    <3>1. PICK s \in Req : agg'[t][s] # NoRow BY <2>1
    <3>2. \A q \in Req : agg'[t][q] # NoRow => q = s BY <3>1 DEF RightTotals, Holds
    <3>3. QED BY <3>2
  <2>2. CASE \A s \in Req : agg'[t][s] = NoRow BY <2>2
  <2>3. QED BY <2>1, <2>2
<1>3. \A q \in Req : agg[t][q] # NoRow => q = s BY <1>1, <1>2
<1>4. StarsIn(agg[t]) = agg[t][s].scores /\ FlagsIn(agg[t]) = IF agg[t][s].flag THEN 1 ELSE 0
  BY <1>0, <1>3, OneRowSums
<1>5. StarsIn(agg'[t]) = agg'[t][s].scores /\ FlagsIn(agg'[t]) = IF agg'[t][s].flag THEN 1 ELSE 0
  BY <1>0, <1>2, OneRowSums
<1>6. StarsIn(agg'[t]) = StarsIn(agg[t]) /\ FlagsIn(agg'[t]) = FlagsIn(agg[t]) BY <1>1, <1>4, <1>5
<1>7. Ids(t) # {} => Ids(t)' # {} BY <1>1 DEF Ids
<1>8. QED BY <1>6, <1>7, SumsIn

(* Where the sums go, given what the stored attempts and the flags bring. *)
LEMMA DueGrows ==
    ASSUME NEW q, NEW l, NEW fl, NEW fv, q \in Nat, l \in Nat, fl \in Nat, fv \in Nat,
           ScoresOf({"quiz"}) \in Nat, ScoresOf({"levelquiz"}) \in Nat, Flags("lesson") \in Nat, Flags("level") \in Nat,
           ScoresOf({"quiz"})' = ScoresOf({"quiz"}) + q, ScoresOf({"levelquiz"})' = ScoresOf({"levelquiz"}) + l,
           Flags("lesson")' = Flags("lesson") + fl, Flags("level")' = Flags("level") + fv, NEW t \in Tables
    PROVE  /\ StarsDue(t) \in Nat
           /\ StarsDue(t)' = StarsDue(t) + (q + fl + IF t = "lesson" THEN 0 ELSE l + fv)
  BY DEF StarsDue

(* The commit: the attempt is stored, and its stars are still to be added, to the rows its reward went to. *)
LEMMA CommitStars ==
    ASSUME Serial, Sound, LedgerInv, LedgerInv', TypeOK', StarsInv, [Next]_vars, NEW r \in Req, Commit(r)
    PROVE  StarsInv'
<1>0. /\ pc \in [Req -> Steps] /\ tab \in [Req -> Tables] /\ TypeOK /\ Reckoned(r) /\ Wrote(r) /\ Located(r)
      /\ RightTotals /\ RightTotals' /\ Starring(r) /\ RowsExist /\ NobodyOwes
      /\ row[r].scores \in Nat /\ stored \subseteq Req
  <2>1. row[r] \in Attempt BY DEF Sound, TypeInv, TypeOK
  <2>2. row[r].scores \in Nat BY <2>1 DEF Attempt
  <2>3. QED BY <2>2 DEF Sound, IInv, TypeInv, TypeOK, LedgerInv, Claim, StarsInv
<1>1. /\ Step(r) /\ pc[r] = "commit" /\ row' = row /\ writes'[r] = NoWrites /\ stored' = stored \cup (pending \cap {r})
      /\ pc'[r] = AfterCommit(r) /\ pc'[r] \in {"reply", "stars", "dfind"} /\ tab'[r] = FirstTable(r)
  BY <1>0 DEF Commit, EndTransaction, AfterCommit, Step, Goto
<1>2. \A q \in Req : q # r => pc[q] \notin AddingStars /\ pc'[q] \notin AddingStars /\ Owing(q)' /\ Starring(q)'
  BY <1>1, StarsOthers
<1>3. \A t \in Tables : Short(t, 0) BY <1>0, <1>1, <1>2 DEF NobodyOwes, AddingStars
<1>4. NoFault' => NoFault BY FaultStays
<1>5. \A t \in Tables : ScoreSum(t)' = ScoreSum(t) /\ Flags(t)' = Flags(t) /\ (Ids(t) # {} => Ids(t)' # {})
  BY <1>0, CommitShowsSame
<1>6. \A t \in Tables : ScoreSum(t) \in Nat /\ Flags(t) \in Nat /\ \A kinds : ScoresOf(kinds) \in Nat
  BY <1>0, StarsTyped
<1>7. Kind(r) \in Kinds BY SubmissionAssumption DEF Kind
<1>8. \A s \in Req : DueTables(s)' = DueTables(s) /\ DueTables(s) \subseteq Tables BY DEF DueTables, Kind, Tables
<1>9. NewRowsStarless(r)' /\ PracticeStarless(r)' /\ TriedIfNotDue(r)'
  <2>1. NewRowsStarless(r)' BY <1>1 DEF NewRowsStarless, NoWrites
  <2>2. PracticeStarless(r)' BY <1>0, <1>1, PracticeStays DEF Starring
  <2>3. TriedIfNotDue(r)' BY <1>1 DEF TriedIfNotDue, Settled, Rewarded
  <2>4. QED BY <2>1, <2>2, <2>3
<1>10. CASE r \notin pending \/ Kind(r) = "baseline"
  <2>1. pc'[r] \notin AddingStars
    <3>1. r \notin pending => r \notin created BY <1>0, <1>1 DEF Located, AfterInsert
    <3>2. QED BY <1>1, <1>10, <3>1 DEF AfterCommit, AddingStars
  <2>2. \A kinds : kinds \in {{"quiz"}, {"levelquiz"}} => ScoresOf(kinds)' = ScoresOf(kinds)
    <3> SUFFICES ASSUME NEW kinds, kinds \in {{"quiz"}, {"levelquiz"}} PROVE ScoresOf(kinds)' = ScoresOf(kinds) OBVIOUS
    <3>1. CASE r \notin pending
      <4>1. stored' = stored BY <1>1, <3>1
      <4>2. QED BY <1>0, <1>1, <4>1, ScoresKept
    <3>2. CASE r \in pending /\ Kind(r) = "baseline"
      <4>1. r \notin stored /\ stored' = stored \cup {r}
        BY <1>0, <1>1, <3>2 DEF Located, AddingStars, Closing, Ended
      <4>2. ScoresOf(kinds)' = ScoresOf(kinds) + (IF Kind(r) \in kinds THEN row[r].scores ELSE 0)
        BY <1>0, <1>1, <4>1, ScoresGrow
      <4>3. Kind(r) \notin kinds BY <3>2
      <4>4. ScoresOf(kinds) \in Nat BY <1>6 DEF Tables
      <4>5. QED BY <4>2, <4>3, <4>4
    <3>3. QED BY <1>10, <3>1, <3>2
  <2>3. ASSUME NEW t \in Tables PROVE StarsDue(t)' = StarsDue(t)
    <3>1. ScoresOf({"quiz"})' = ScoresOf({"quiz"}) /\ ScoresOf({"levelquiz"})' = ScoresOf({"levelquiz"}) BY <2>2
    <3>2. Flags("lesson")' = Flags("lesson") /\ Flags("level")' = Flags("level") BY <1>5 DEF Tables
    <3>3. QED BY <3>1, <3>2 DEF StarsDue
  <2>4. \A t \in Tables : Short(t, 0)' BY <1>3, <1>4, <1>5, <2>3, ShortStays
  <2>5. NobodyOwes' /\ Owing(r)' BY <2>1, <2>4 DEF NobodyOwes, Owing
  <2>6. RowsExist'
    <3>1. \A s \in stored' : Kind(s) # "baseline" => s \in stored BY <1>1, <1>10
    <3>2. ASSUME NEW s \in stored', Kind(s) # "baseline", NEW t \in DueTables(s)' PROVE Ids(t)' # {}
      <4>1. s \in stored /\ s \in Req BY <1>0, <3>1, <3>2
      <4>2. t \in DueTables(s) /\ t \in Tables BY <1>8, <3>2, <4>1
      <4>3. Ids(t) # {} BY <1>0, <3>2, <4>1, <4>2 DEF RowsExist
      <4>4. QED BY <1>5, <4>2, <4>3
    <3>3. QED BY <3>2 DEF RowsExist, Kind
  <2>7. Adding(r)' BY <2>1 DEF Adding, AddingStars
  <2>8. QED BY <1>2, <1>9, <2>5, <2>6, <2>7 DEF StarsInv, Starring
<1>11. CASE r \in pending /\ Kind(r) # "baseline"
  <2> DEFINE n == row[r].scores
  <2>1. r \in created /\ r \notin stored /\ stored' = stored \cup {r} /\ r \notin passed
    BY <1>0, <1>1, <1>11 DEF Located, AddingStars, Closing, Ended
  <2>2. pc'[r] = "stars" BY <1>1, <1>11, <2>1 DEF AfterCommit
  <2>3. \A kinds : ScoresOf(kinds)' = ScoresOf(kinds) + (IF Kind(r) \in kinds THEN n ELSE 0)
    <3> SUFFICES ASSUME NEW kinds PROVE ScoresOf(kinds)' = ScoresOf(kinds) + (IF Kind(r) \in kinds THEN n ELSE 0) OBVIOUS
    <3>1. QED BY <1>0, <1>1, <2>1, ScoresGrow
  <2>4. Carried(r)' = n BY <1>1 DEF Carried, FirstTable, Kind
  <2>5. Ahead(tab[r])' = Ahead(FirstTable(r)) BY <1>1 DEF Ahead
  <2>6. Kind(r) = "practice" => n = 0 BY <1>0 DEF Starring, PracticeStarless
  <2>7. ASSUME NEW t \in Tables PROVE StarsDue(t)' = StarsDue(t) + (IF t \in Ahead(FirstTable(r)) THEN n ELSE 0) /\ StarsDue(t) \in Nat
    <3> DEFINE q == IF Kind(r) = "quiz" THEN n ELSE 0
               l == IF Kind(r) = "levelquiz" THEN n ELSE 0
    <3>1. q \in Nat /\ l \in Nat BY <1>0
    <3>2. ScoresOf({"quiz"})' = ScoresOf({"quiz"}) + q /\ ScoresOf({"levelquiz"})' = ScoresOf({"levelquiz"}) + l BY <2>3
    <3>3. /\ Flags("lesson")' = Flags("lesson") /\ Flags("level")' = Flags("level")
          /\ Flags("lesson") \in Nat /\ Flags("level") \in Nat
      BY <1>5, <1>6 DEF Tables
    <3>4. ScoresOf({"quiz"}) \in Nat /\ ScoresOf({"levelquiz"}) \in Nat BY <1>6
    <3>5. Flags("lesson")' = Flags("lesson") + 0 /\ Flags("level")' = Flags("level") + 0 BY <3>3
    <3>6. q + (IF t = "lesson" THEN 0 ELSE l) = IF t \in Ahead(FirstTable(r)) THEN n ELSE 0
      <4>1. t \in {"lesson", "level", "grade"} /\ n \in Nat BY <1>0 DEF Tables
      <4>2. t \in Ahead(FirstTable(r)) <=> (Kind(r) = "levelquiz" => t # "lesson") BY <4>1 DEF Ahead, FirstTable, Tables
      <4>3. Kind(r) \in {"practice", "quiz", "levelquiz"} BY <1>7, <1>11 DEF Kinds
      <4> HIDE DEF n
      <4>4. QED BY <2>6, <4>1, <4>2, <4>3
    <3> HIDE DEF q, l, n
    <3>7. StarsDue(t) \in Nat /\ StarsDue(t)' = StarsDue(t) + (q + 0 + IF t = "lesson" THEN 0 ELSE l + 0)
      BY <3>1, <3>2, <3>3, <3>4, <3>5, DueGrows
    <3>8. q + 0 + (IF t = "lesson" THEN 0 ELSE l + 0) = q + (IF t = "lesson" THEN 0 ELSE l) BY <3>1
    <3>9. QED BY <3>6, <3>7, <3>8
  <2>8. ASSUME NEW t \in Tables PROVE Owes(r, t)'
    <3> DEFINE m == IF t \in Ahead(FirstTable(r)) THEN n ELSE 0
    <3>1. m \in Nat BY <1>0
    <3>2. Short(t, 0) /\ ScoreSum(t) \in Nat /\ ScoreSum(t)' = ScoreSum(t) BY <1>3, <1>5, <1>6
    <3>3. StarsDue(t)' = StarsDue(t) + m /\ StarsDue(t) \in Nat BY <2>7
    <3>4. m = (IF t \in Ahead(tab[r]) THEN Carried(r) ELSE 0)' BY <2>4, <2>5
    <3> HIDE DEF m, n
    <3>5. ScoreSum(t)' + m <= StarsDue(t)' /\ (NoFault' => ScoreSum(t)' + m = StarsDue(t)')
      BY <1>4, <3>1, <3>2, <3>3 DEF Short
    <3>6. QED BY <3>4, <3>5 DEF Owes, Short
  <2>9. NobodyOwes' /\ Owing(r)' BY <2>2, <2>8 DEF NobodyOwes, Owing, AddingStars
  <2>10. \A t \in DueTables(r) : Ids(t)' # {}
    <3> SUFFICES ASSUME NEW t \in DueTables(r) PROVE Ids(t)' # {} OBVIOUS
    <3>0. t \in Tables BY <1>8
    <3>1. CASE loc[r].due
      <4>1. writes[r][t] # NoWrite /\ Written(r, t) BY <1>0, <1>1, <1>11, <3>0, <3>1 DEF Wrote
      <4>2. PICK m : m = writes[r][t].row.points OBVIOUS
      <4>3. agg'[t][writes[r][t].id] # NoRow /\ writes[r][t].id \in Req
        BY <1>0, <3>0, <4>1, <4>2, CommitHolds DEF Written
      <4>4. QED BY <4>3 DEF Ids
    <3>2. CASE ~loc[r].due
      <4>1. Fresh(r) BY <1>11, <2>1 DEF Fresh
      <4>2. hasTried(ActivityOf[r]) BY <1>0, <1>1, <3>2, <4>1 DEF Starring, TriedIfNotDue, Settled, Rewarded
      <4>3. PICK s \in stored : ActivityOf[s] = ActivityOf[r] BY <4>2 DEF hasTried, Rows
      <4>4. Kind(s) = Kind(r) BY <4>3 DEF Kind
      <4>5. t \in DueTables(s) BY <4>4 DEF DueTables
      <4>6. Ids(t) # {} BY <1>0, <1>11, <4>3, <4>4, <4>5 DEF RowsExist
      <4>7. QED BY <1>5, <3>0, <4>6
    <3>3. QED BY <3>1, <3>2
  <2>11. RowsExist'
    <3>1. ASSUME NEW s \in stored', Kind(s) # "baseline", NEW t \in DueTables(s)' PROVE Ids(t)' # {}
      <4>1. s \in stored \/ s = r BY <2>1
      <4>2. s \in Req BY <1>0, <4>1
      <4>3. t \in DueTables(s) /\ t \in Tables BY <1>8, <3>1, <4>2
      <4>4. CASE s = r BY <2>10, <4>3, <4>4
      <4>5. CASE s \in stored
        <5>1. Ids(t) # {} BY <1>0, <3>1, <4>3, <4>5 DEF RowsExist
        <5>2. QED BY <1>5, <4>3, <5>1
      <4>6. QED BY <4>1, <4>4, <4>5
    <3>2. QED BY <3>1 DEF RowsExist, Kind
  <2>12. Adding(r)'
    <3>1. FirstTable(r) \in DueTables(r) BY DueFacts
    <3>2. QED BY <1>1, <1>8, <1>11, <2>2, <3>1 DEF Adding, Kind
  <2>13. QED BY <1>2, <1>9, <2>9, <2>11, <2>12 DEF StarsInv, Starring
<1>12. QED BY <1>10, <1>11

(* The row the stars are written to: the table's one row, as it was read. *)
WritesStars(r, t, id, extra) ==
    /\ t \in DueTables(r) /\ t \in Tables /\ id \in Req /\ Kind(r) # "baseline" /\ extra \in {0, 1}
    /\ \A q \in Req : agg[t][q] # NoRow <=> q = id
    /\ extra = 1 => ~agg[t][id].flag /\ t = (IF Kind(r) = "levelquiz" THEN "level" ELSE "lesson")
    /\ agg' = [agg EXCEPT ![t][id].scores = agg[t][id].scores + (Carried(r) + extra),
                          ![t][id].flag = agg[t][id].flag \/ extra = 1]
    /\ loc'[r].add = Carried(r) + extra

(* That is what the handler does. *)
LEMMA WriteStarsRow ==
    ASSUME Sound, LedgerInv, StarsInv, NEW r \in Req, WriteStars(r), NEW t, t = tab[r], NEW id, id = loc[r].id,
           NEW extra, extra = ExtraStar(r, t, agg[t][id])
    PROVE  WritesStars(r, t, id, extra)
<1>0. /\ TypeOK /\ Located(r) /\ LocTyped(r) /\ Adding(r) /\ RowsExist /\ pc[r] = "starred" /\ t \in Tables
      /\ loc \in [Req -> Local]
  BY DEF Sound, IInv, TypeInv, TypeOK, StarsInv, Starring, WriteStars
<1>1. loc[r].seen = agg[t][id] /\ \A q \in Req : agg[t][q] # NoRow => q = id BY <1>0 DEF Adding
<1>2. id \in Req /\ r \in stored /\ Kind(r) # "baseline" /\ t \in DueTables(r)
  BY <1>0 DEF LocTyped, Located, Adding, AddingStars
<1>3. Ids(t) # {} BY <1>0, <1>2 DEF RowsExist
<1>4. loc[r].seen # NoRow BY <1>1, <1>3 DEF Ids
<1>5. extra \in {0, 1} /\ (extra = 1 => ~agg[t][id].flag /\ t = (IF Kind(r) = "levelquiz" THEN "level" ELSE "lesson"))
  BY DEF ExtraStar, DefaultStar, Bonus
<1>6. extra = ExtraStar(r, tab[r], loc[r].seen) BY <1>1
<1>7. agg' = [agg EXCEPT ![t][id].scores = loc[r].seen.scores + (Carried(r) + extra), ![t][id].flag = loc[r].seen.flag \/ extra = 1]
  BY <1>4, <1>6 DEF WriteStars
<1>8. agg' = [agg EXCEPT ![t][id].scores = agg[t][id].scores + (Carried(r) + extra), ![t][id].flag = agg[t][id].flag \/ extra = 1]
  BY <1>1, <1>7
<1>9. loc'[r].add = Carried(r) + extra
  <2>1. PICK add : add = Carried(r) + extra /\ loc' = [loc EXCEPT ![r].add = add] BY <1>6 DEF WriteStars
  <2>2. loc[r] \in Local BY <1>0
  <2>3. loc'[r].add = add BY <1>0, <2>1, <2>2 DEF Local
  <2>4. QED BY <2>1, <2>3
<1>10. \A q \in Req : agg[t][q] # NoRow <=> q = id BY <1>1, <1>4
<1>11. QED BY <1>0, <1>2, <1>5, <1>8, <1>9, <1>10 DEF WritesStars

(* Stars are added to the one row of a table... *)
GainsStars(a, b, s, add, lit) ==
    /\ a \in [Req -> Row] /\ s \in Req /\ \A q \in Req : a[q] # NoRow <=> q = s
    /\ add \in Nat /\ lit \in BOOLEAN
    /\ b = [a EXCEPT ![s] = [a[s] EXCEPT !.scores = a[s].scores + add, !.flag = lit]]

(* ... and the sums are of the row as it is then. *)
IsStarred(a, b, s, add, lit) ==
    /\ \A q \in Req : b[q] # NoRow <=> q = s
    /\ StarsIn(b) = StarsIn(a) + add /\ StarsIn(a) \in Nat
    /\ FlagsIn(a) = (IF a[s].flag THEN 1 ELSE 0) /\ FlagsIn(b) = (IF lit THEN 1 ELSE 0)

(* As the sums say. *)
LEMMA RowStarred ==
    ASSUME NEW a, NEW b, NEW s, NEW add, NEW lit, GainsStars(a, b, s, add, lit)
    PROVE  IsStarred(a, b, s, add, lit)
<1>0. /\ a \in [Req -> Row] /\ s \in Req /\ \A q \in Req : a[q] # NoRow <=> q = s
      /\ add \in Nat /\ lit \in BOOLEAN
      /\ b = [a EXCEPT ![s] = [a[s] EXCEPT !.scores = a[s].scores + add, !.flag = lit]]
  BY DEF GainsStars
<1> DEFINE new == [a[s] EXCEPT !.scores = a[s].scores + add, !.flag = lit]
<1>1. a[s] \in ProgressRow BY <1>0 DEF Row
<1>2. a[s].scores \in Nat BY <1>1 DEF ProgressRow
<1>3. new \in ProgressRow /\ new.scores = a[s].scores + add /\ new.flag = lit
  <2>1. a[s].scores + add \in Nat BY <1>0, <1>2
  <2>2. QED BY <1>0, <1>1, <2>1 DEF ProgressRow
<1> HIDE DEF new
<1>4. new # NoRow /\ new \in Row BY <1>3, RowFacts DEF Row
<1>5. b = [a EXCEPT ![s] = new] BY <1>0 DEF new
<1>6. b \in [Req -> Row] /\ b[s] = new BY <1>0, <1>4, <1>5
<1>7. \A q \in Req : b[q] # NoRow <=> q = s
  <2>1. \A q \in Req : q # s => b[q] = a[q] BY <1>0, <1>5
  <2>2. QED BY <1>0, <1>4, <1>6, <2>1
<1>8. StarsIn(a) = a[s].scores /\ FlagsIn(a) = (IF a[s].flag THEN 1 ELSE 0) /\ a[s].flag \in BOOLEAN BY <1>0, OneRowSums
<1>9. StarsIn(b) = new.scores /\ FlagsIn(b) = IF new.flag THEN 1 ELSE 0
  <2>1. \A q \in Req : b[q] # NoRow => q = s BY <1>7
  <2>2. StarsIn(b) = b[s].scores /\ FlagsIn(b) = IF b[s].flag THEN 1 ELSE 0 BY <1>0, <1>6, <2>1, OneRowSums
  <2>3. QED BY <1>6, <2>2
<1>10. QED BY <1>2, <1>3, <1>7, <1>8, <1>9 DEF IsStarred

(* What the table shows afterwards; the other tables show what they did. *)
LEMMA WriteStarsSums ==
    ASSUME Sound, LedgerInv, StarsInv, NEW r \in Req, WriteStars(r), NEW t \in Tables, t = tab[r],
           NEW id, id = loc[r].id, NEW extra, extra = ExtraStar(r, t, agg[t][id])
    PROVE  /\ ScoreSum(t)' = ScoreSum(t) + (Carried(r) + extra) /\ Flags(t)' = Flags(t) + extra
           /\ \A u \in Tables : u # t => ScoreSum(u)' = ScoreSum(u) /\ Flags(u)' = Flags(u)
           /\ \A u \in Tables : Ids(u)' = Ids(u)
<1> DEFINE add == Carried(r) + extra
           lit == agg[t][id].flag \/ extra = 1
<1>0. agg \in [Tables -> [Req -> Row]] /\ pc[r] = "starred" BY DEF Sound, TypeInv, TypeOK, WriteStars
<1>1. WritesStars(r, t, id, extra) BY WriteStarsRow
<1>2. /\ id \in Req /\ extra \in {0, 1} /\ (extra = 1 => ~agg[t][id].flag)
      /\ \A q \in Req : agg[t][q] # NoRow <=> q = id
      /\ agg' = [agg EXCEPT ![t][id].scores = agg[t][id].scores + add, ![t][id].flag = lit]
  BY <1>1 DEF WritesStars
<1>3. add \in Nat
  <2>1. Carried(r) \in Nat BY <1>0, CarriedTyped DEF AddingStars
  <2>2. QED BY <1>2, <2>1
<1>4. agg[t][id].flag \in BOOLEAN /\ lit \in BOOLEAN /\ (lit <=> agg[t][id].flag \/ extra = 1)
  <2>1. agg[t][id] \in ProgressRow BY <1>0, <1>2 DEF Row
  <2>2. agg[t][id].flag \in BOOLEAN BY <2>1 DEF ProgressRow
  <2>3. QED BY <2>2
<1> HIDE DEF add, lit
<1>5. /\ agg'[t] = [agg[t] EXCEPT ![id] = [agg[t][id] EXCEPT !.scores = agg[t][id].scores + add, !.flag = lit]]
      /\ \A u \in Tables : u # t => agg'[u] = agg[u]
  BY <1>0, <1>2
<1>6. agg[t] \in [Req -> Row] BY <1>0
<1>7. /\ \A q \in Req : agg'[t][q] # NoRow <=> q = id
      /\ StarsIn(agg'[t]) = StarsIn(agg[t]) + add
      /\ FlagsIn(agg[t]) = (IF agg[t][id].flag THEN 1 ELSE 0) /\ FlagsIn(agg'[t]) = (IF lit THEN 1 ELSE 0)
  <2>1. GainsStars(agg[t], agg'[t], id, add, lit) BY <1>2, <1>3, <1>4, <1>5, <1>6 DEF GainsStars
  <2>2. IsStarred(agg[t], agg'[t], id, add, lit) BY <2>1, RowStarred
  <2>3. QED BY <2>2 DEF IsStarred
<1>8. FlagsIn(agg'[t]) = FlagsIn(agg[t]) + extra
  <2>1. CASE extra = 1
    <3>1. ~agg[t][id].flag /\ lit BY <1>2, <1>4, <2>1
    <3>2. FlagsIn(agg[t]) = 0 /\ FlagsIn(agg'[t]) = 1 BY <1>7, <3>1
    <3>3. QED BY <2>1, <3>2
  <2>2. CASE extra = 0
    <3>1. lit <=> agg[t][id].flag BY <1>4, <2>2
    <3>2. QED BY <1>7, <2>2, <3>1
  <2>3. QED BY <1>2, <2>1, <2>2
<1>9. ScoreSum(t)' = ScoreSum(t) + add /\ Flags(t)' = Flags(t) + extra BY <1>7, <1>8, SumsIn
<1>10. \A u \in Tables : u # t => ScoreSum(u)' = ScoreSum(u) /\ Flags(u)' = Flags(u) BY <1>5, SumsIn
<1>11. \A u \in Tables : Ids(u)' = Ids(u)
  <2>1. Ids(t)' = Ids(t) BY <1>2, <1>7 DEF Ids
  <2>2. \A u \in Tables : u # t => Ids(u)' = Ids(u) BY <1>5 DEF Ids
  <2>3. QED BY <2>1, <2>2
<1>12. QED BY <1>9, <1>10, <1>11 DEF add

(* The stars are written: what the table was short of, and what its extra star makes the later ones short of. *)
LEMMA WriteStarsStars ==
    ASSUME Serial, Sound, LedgerInv, StarsInv, [Next]_vars, NEW r \in Req, WriteStars(r)
    PROVE  StarsInv'
<1>0. /\ pc \in [Req -> Steps] /\ tab \in [Req -> Tables] /\ TypeOK /\ RightTotals /\ Wrote(r)
      /\ Starring(r) /\ RowsExist /\ Owing(r) /\ stored \subseteq Req
  BY DEF Sound, TypeInv, TypeOK, LedgerInv, Claim, StarsInv
<1>1. PICK t, id : t = tab[r] /\ id = loc[r].id OBVIOUS
<1>2. PICK extra : extra = ExtraStar(r, t, agg[t][id]) OBVIOUS
<1>3. WritesStars(r, t, id, extra) BY <1>1, <1>2, WriteStarsRow
<1>4. /\ t \in Tables /\ t \in DueTables(r) /\ Kind(r) # "baseline" /\ extra \in {0, 1}
      /\ extra = 1 => t = (IF Kind(r) = "levelquiz" THEN "level" ELSE "lesson")
      /\ loc'[r].add = Carried(r) + extra
  BY <1>3 DEF WritesStars
<1>5. /\ Step(r) /\ pc[r] = "starred" /\ pc'[r] = (IF t = "grade" THEN "dfind" ELSE "stars") /\ tab'[r] = NextTable(t)
      /\ UNCHANGED <<stored, row, writes, passed>>
  BY <1>0, <1>1 DEF WriteStars, Step, Goto, txvars
<1>6. \A q \in Req : q # r => pc[q] \notin AddingStars /\ pc'[q] \notin AddingStars /\ Owing(q)' /\ Starring(q)'
  BY <1>5, StarsOthers
<1>7. NoFault' => NoFault BY FaultStays
<1>8. /\ ScoreSum(t)' = ScoreSum(t) + (Carried(r) + extra) /\ Flags(t)' = Flags(t) + extra
      /\ \A u \in Tables : u # t => ScoreSum(u)' = ScoreSum(u) /\ Flags(u)' = Flags(u)
      /\ \A u \in Tables : Ids(u)' = Ids(u)
  BY <1>1, <1>2, <1>4, WriteStarsSums
<1>9. \A u \in Tables : ScoreSum(u) \in Nat /\ Flags(u) \in Nat /\ \A kinds : ScoresOf(kinds) \in Nat BY <1>0, StarsTyped
<1>10. Carried(r) \in Nat BY <1>5, CarriedTyped DEF AddingStars
<1> DEFINE n == Carried(r)
           x(u) == IF u = "lesson" THEN IF t = "lesson" THEN extra ELSE 0 ELSE extra
<1>11. ASSUME NEW u \in Tables PROVE StarsDue(u) \in Nat /\ StarsDue(u)' = StarsDue(u) + x(u)
  <2> DEFINE fl == IF t = "lesson" THEN extra ELSE 0
             fv == IF t = "level" THEN extra ELSE 0
  <2>1. fl \in Nat /\ fv \in Nat BY <1>4
  <2>2. \A kinds : ScoresOf(kinds)' = ScoresOf(kinds)
    <3> SUFFICES ASSUME NEW kinds PROVE ScoresOf(kinds)' = ScoresOf(kinds) OBVIOUS
    <3>1. QED BY <1>0, <1>5, ScoresKept
  <2>3. /\ ScoresOf({"quiz"})' = ScoresOf({"quiz"}) + 0 /\ ScoresOf({"levelquiz"})' = ScoresOf({"levelquiz"}) + 0
        /\ ScoresOf({"quiz"}) \in Nat /\ ScoresOf({"levelquiz"}) \in Nat
    <3>1. /\ ScoresOf({"quiz"})' = ScoresOf({"quiz"}) /\ ScoresOf({"levelquiz"})' = ScoresOf({"levelquiz"})
          /\ ScoresOf({"quiz"}) \in Nat /\ ScoresOf({"levelquiz"}) \in Nat
      BY <1>4, <1>9, <2>2
    <3>2. QED BY <3>1
  <2>4. "lesson" \in Tables /\ "level" \in Tables BY DEF Tables
  <2>5. /\ Flags("lesson") \in Nat /\ Flags("level") \in Nat BY <1>9, <2>4
  <2>6. Flags("lesson")' = Flags("lesson") + fl
    <3>1. CASE t = "lesson" BY <1>8, <3>1
    <3>2. CASE t # "lesson" BY <1>8, <2>4, <2>5, <3>2
    <3>3. QED BY <3>1, <3>2
  <2>7. Flags("level")' = Flags("level") + fv
    <3>1. CASE t = "level" BY <1>8, <3>1
    <3>2. CASE t # "level" BY <1>8, <2>4, <2>5, <3>2
    <3>3. QED BY <3>1, <3>2
  <2>8. fl + fv = extra
    <3>1. t = "grade" => extra = 0 BY <1>4
    <3>2. t \in {"lesson", "level", "grade"} BY <1>4 DEF Tables
    <3>3. QED BY <1>4, <3>1, <3>2
  <2> HIDE DEF fl, fv
  <2>9. StarsDue(u) \in Nat /\ StarsDue(u)' = StarsDue(u) + (0 + fl + IF u = "lesson" THEN 0 ELSE 0 + fv)
    BY <2>1, <2>3, <2>5, <2>6, <2>7, DueGrows
  <2>10. 0 + fl + (IF u = "lesson" THEN 0 ELSE 0 + fv) = x(u)
    <3>1. CASE u = "lesson" BY <2>1, <3>1 DEF fl
    <3>2. CASE u # "lesson" BY <2>1, <2>8, <3>2
    <3>3. QED BY <3>1, <3>2
  <2>11. QED BY <2>9, <2>10
<1>12. \A u \in Tables : Owes(r, u) BY <1>0, <1>5 DEF Owing, AddingStars
<1> DEFINE m(u) == IF u \in Ahead(t) /\ u # t THEN n + extra ELSE 0
<1>13. ASSUME NEW u \in Tables
       PROVE  ScoreSum(u)' + m(u) <= StarsDue(u)' /\ (NoFault' => ScoreSum(u)' + m(u) = StarsDue(u)')
  <2>1. Short(u, IF u \in Ahead(t) THEN n ELSE 0) BY <1>1, <1>12 DEF Owes
  <2>2. n \in Nat /\ extra \in Nat /\ ScoreSum(u) \in Nat BY <1>4, <1>9, <1>10
  <2>3. StarsDue(u) \in Nat /\ StarsDue(u)' = StarsDue(u) + x(u) BY <1>11
  <2>4. t \in {"lesson", "level", "grade"} /\ u \in {"lesson", "level", "grade"} BY <1>4 DEF Tables
  <2>5. t \in Ahead(t) /\ (u \in Ahead(t) /\ u = "lesson" => t = "lesson") BY <2>4 DEF Ahead, Tables
  <2>6. u \notin Ahead(t) => x(u) = 0
    <3>1. u \notin Ahead(t) => (u = "lesson" /\ t # "lesson") \/ (u = "level" /\ t = "grade")
      <4>1. CASE t = "lesson" BY <2>4, <4>1 DEF Ahead, Tables
      <4>2. CASE t = "level" BY <2>4, <4>2 DEF Ahead
      <4>3. CASE t = "grade" BY <2>4, <4>3 DEF Ahead
      <4>4. QED BY <2>4, <4>1, <4>2, <4>3
    <3>2. t = "grade" => extra = 0 BY <1>4
    <3>3. QED BY <3>1, <3>2
  <2>7. u \in Ahead(t) => x(u) = extra BY <2>5
  <2> HIDE DEF n, x
  <2>8. CASE u = t
    <3>1. ScoreSum(u)' = ScoreSum(u) + (n + extra) BY <1>8, <2>8 DEF n
    <3>2. m(u) = 0 /\ u \in Ahead(t) BY <2>5, <2>8
    <3>3. QED BY <1>7, <2>1, <2>2, <2>3, <2>7, <3>1, <3>2 DEF Short
  <2>9. CASE u # t /\ u \in Ahead(t)
    <3>1. ScoreSum(u)' = ScoreSum(u) /\ m(u) = n + extra BY <1>8, <2>9
    <3>2. QED BY <1>7, <2>1, <2>2, <2>3, <2>7, <2>9, <3>1 DEF Short
  <2>10. CASE u # t /\ u \notin Ahead(t)
    <3>1. ScoreSum(u)' = ScoreSum(u) /\ m(u) = 0 BY <1>8, <2>10
    <3>2. QED BY <1>7, <2>1, <2>2, <2>3, <2>6, <2>10, <3>1 DEF Short
  <2>11. QED BY <2>8, <2>9, <2>10
<1>14. NobodyOwes' /\ Owing(r)' /\ Adding(r)'
  <2>1. CASE t = "grade"
    <3>1. pc'[r] \notin AddingStars BY <1>5, <2>1 DEF AddingStars
    <3>2. \A u \in Tables : m(u) = 0 BY <2>1 DEF Ahead
    <3> HIDE DEF m
    <3>3. \A u \in Tables : Short(u, 0)' BY <1>13, <3>2 DEF Short
    <3>4. QED BY <3>1, <3>3 DEF NobodyOwes, Owing, Adding, AddingStars
  <2>2. CASE t # "grade"
    <3>1. pc'[r] = "stars" BY <1>5, <2>2
    <3>2. NextTable(t) \in DueTables(r) /\ Ahead(NextTable(t)) = Ahead(t) \ {t} BY <1>4, <2>2, DueFacts, TableFacts
    <3>3. Carried(r)' = n + extra
      <4>1. NextTable(t) # FirstTable(r) BY <1>4, <2>2 DEF NextTable, FirstTable, DueTables, Tables
      <4>2. FirstTable(r)' = FirstTable(r) BY DEF FirstTable, Kind
      <4>3. QED BY <1>4, <1>5, <4>1, <4>2 DEF Carried
    <3>4. ASSUME NEW u \in Tables PROVE Owes(r, u)'
      <4>1. m(u) = IF u \in Ahead(NextTable(t)) THEN n + extra ELSE 0 BY <3>2
      <4>2. (IF u \in Ahead(tab[r]) THEN Carried(r) ELSE 0)' = IF u \in Ahead(NextTable(t)) THEN n + extra ELSE 0
        <5>1. Ahead(tab[r])' = Ahead(NextTable(t)) BY <1>5 DEF Ahead
        <5>2. QED BY <3>3, <5>1
      <4> HIDE DEF m, n
      <4>3. QED BY <1>13, <4>1, <4>2 DEF Owes, Short
    <3>5. Owing(r)' BY <3>4 DEF Owing
    <3>6. NobodyOwes' BY <3>1 DEF NobodyOwes, AddingStars
    <3>7. DueTables(r)' = DueTables(r) BY DEF DueTables, Kind
    <3>8. Adding(r)' BY <1>4, <1>5, <3>1, <3>2, <3>7 DEF Adding, Kind
    <3>9. QED BY <3>5, <3>6, <3>8
  <2>3. QED BY <2>1, <2>2
<1>15. NewRowsStarless(r)'
  <2>1. writes[r] = NoWrites BY <1>0, <1>5 DEF Wrote, Rewarded
  <2>2. QED BY <1>5, <2>1 DEF NewRowsStarless, NoWrites
<1>16. PracticeStarless(r)' BY <1>0, <1>5, PracticeStays DEF Starring
<1>17. TriedIfNotDue(r)' BY <1>5 DEF TriedIfNotDue, Settled, Rewarded
<1>18. RowsExist'
  <2>1. \A s \in stored : DueTables(s)' = DueTables(s) /\ DueTables(s) \subseteq Tables BY DEF DueTables, Kind, Tables
  <2>2. QED BY <1>0, <1>5, <1>8, <2>1 DEF RowsExist, Kind
<1>19. QED BY <1>6, <1>14, <1>15, <1>16, <1>17, <1>18 DEF StarsInv, Starring

(* Every step keeps it. *)
LEMMA StarsStep ==
    ASSUME Serial, TotalCoversActivities
    PROVE  Sound /\ Sound' /\ LedgerInv /\ StarsInv /\ [Next]_vars => StarsInv'
<1> SUFFICES ASSUME Sound, Sound', LedgerInv, StarsInv, [Next]_vars PROVE StarsInv' OBVIOUS
<1>1. ASSUME NEW r \in Req, Receive(r) \/ Step(r) \/ Timeout(r) \/ Fail(r) PROVE StarsInv'
  <2>1. LedgerInv' /\ TypeOK' BY LedgerStep DEF Sound, TypeInv
  <2>2. CASE Receive(r) BY <2>2, ReceiveStars
  <2>3. CASE AskPassOld(r) \/ AskTried(r) \/ AskOld(r) \/ AskNewest(r) BY <2>3, AskStars
  <2>4. CASE \/ Begin(r) \/ Find(r) \/ Insert(r) \/ insertquestion(r) \/ ReadTotal(r) \/ setstudentactive(r)
             \/ Recover(r) \/ FindDaily(r) \/ SumHeld(r) \/ WriteDaily(r) \/ Reply(r)
    BY <2>4, PlainStars
  <2>5. CASE WriteTotal(r) BY <2>5, WriteTotalStars
  <2>6. CASE Commit(r) BY <2>1, <2>6, CommitStars
  <2>7. CASE ReadStars(r) BY <2>7, ReadStarsStars
  <2>8. CASE WriteStars(r) BY <2>8, WriteStarsStars
  <2>9. CASE Timeout(r) \/ Fail(r) BY <2>9, AbortStars
  <2>10. QED BY <1>1, <2>2, <2>3, <2>4, <2>5, <2>6, <2>7, <2>8, <2>9 DEF Step
<1>2. CASE Crash
  <2>0. TypeOK /\ RightTotals BY DEF Sound, TypeInv, LedgerInv
  <2>1. /\ UNCHANGED dbvars /\ \A q \in Req : pc'[q] = IF q \in InFlight THEN "lost" ELSE pc[q] BY <1>2 DEF Crash
  <2>2. \A q \in Req : pc'[q] \in Ended \cup {"idle"} BY <2>1 DEF InFlight, Ended
  <2>3. ~NoFault'
    <3>1. PICK q \in InFlight : TRUE BY <1>2 DEF Crash, Quiet
    <3>2. QED BY <2>1, <3>1 DEF NoFault, InFlight
  <2>4. \A t \in Tables : ScoreSum(t)' = ScoreSum(t) /\ StarsDue(t)' = StarsDue(t) /\ Ids(t)' = Ids(t)
    BY <2>0, <2>1, StarsFrame DEF dbvars
  <2>5. ASSUME NEW t \in Tables PROVE Short(t, 0)'
    <3>1. ScoreSum(t) \in Nat /\ \A kinds : ScoresOf(kinds) \in Nat BY <2>0, StarsTyped
    <3>2. Flags("lesson") \in Nat /\ Flags("level") \in Nat BY <2>0, StarsTyped DEF Tables
    <3>3. StarsDue(t) \in Nat BY <3>1, <3>2 DEF StarsDue
    <3>4. \E n \in Nat : ScoreSum(t) + n <= StarsDue(t)
      <4>1. CASE \E q \in Req : pc[q] \in AddingStars
        <5>1. PICK q \in Req : pc[q] \in AddingStars BY <4>1
        <5>2. Owes(q, t) BY <5>1 DEF StarsInv, Owing
        <5>3. Carried(q) \in Nat BY <5>1, CarriedTyped
        <5>4. QED BY <5>2, <5>3 DEF Owes, Short
      <4>2. CASE \A q \in Req : pc[q] \notin AddingStars BY <4>2 DEF StarsInv, NobodyOwes, Short
      <4>3. QED BY <4>1, <4>2
    <3>5. ScoreSum(t)' + 0 <= StarsDue(t)' BY <2>4, <3>1, <3>3, <3>4
    <3>6. QED BY <2>3, <3>5 DEF Short
  <2>6. NobodyOwes' BY <2>5 DEF NobodyOwes
  <2>7. RowsExist'
    <3>1. \A s \in stored : DueTables(s)' = DueTables(s) /\ DueTables(s) \subseteq Tables BY DEF DueTables, Kind, Tables
    <3>2. QED BY <2>1, <2>4, <3>1 DEF StarsInv, RowsExist, Kind, dbvars
  <2>8. ASSUME NEW q \in Req PROVE Owing(q)' /\ Starring(q)'
    <3>1. pc'[q] \notin AddingStars /\ pc'[q] # "starred" /\ pc'[q] \notin Settled
      BY <2>2 DEF AddingStars, Ended, Settled, Rewarded
    <3>2. writes'[q] \in {writes[q], NoWrites} BY <1>2 DEF Crash, EndTransaction
    <3>3. NewRowsStarless(q)' BY <2>1, <3>2, NewRowsStay DEF StarsInv, Starring, dbvars
    <3>4. PracticeStarless(q)' BY <2>1 DEF StarsInv, Starring, PracticeStarless, Kind, dbvars
    <3>5. QED BY <3>1, <3>3, <3>4 DEF Owing, Starring, Adding, TriedIfNotDue
  <2>9. QED BY <2>6, <2>7, <2>8 DEF StarsInv
<1>3. CASE UNCHANGED vars
  <2>0. TypeOK BY DEF Sound, TypeInv
  <2>1. UNCHANGED <<pc, loc, tab, passed, writes, stored, row, agg>> BY <1>3 DEF vars, txvars, dbvars
  <2>2. \A t \in Tables : ScoreSum(t)' = ScoreSum(t) /\ StarsDue(t)' = StarsDue(t) /\ Ids(t)' = Ids(t)
    BY <2>0, <2>1, StarsFrame
  <2>3. NoFault' => NoFault BY <2>1 DEF NoFault
  <2>4. NobodyOwes'
    <3>1. CASE \A q \in Req : pc[q] \notin AddingStars
      <4>1. \A t \in Tables : Short(t, 0)' BY <2>2, <2>3, <3>1, ShortStays DEF StarsInv, NobodyOwes
      <4>2. QED BY <4>1 DEF NobodyOwes
    <3>2. CASE \E q \in Req : pc[q] \in AddingStars BY <2>1, <3>2 DEF NobodyOwes
    <3>3. QED BY <3>1, <3>2
  <2>5. RowsExist'
    <3>1. \A s \in stored : DueTables(s)' = DueTables(s) /\ DueTables(s) \subseteq Tables BY DEF DueTables, Kind, Tables
    <3>2. QED BY <2>1, <2>2, <3>1 DEF StarsInv, RowsExist, Kind
  <2>6. ASSUME NEW q \in Req PROVE Owing(q)' /\ Starring(q)'
    <3>1. Owing(q)'
      <4>1. SUFFICES ASSUME pc[q] \in AddingStars, NEW t \in Tables PROVE Owes(q, t)' BY <2>1 DEF Owing
      <4>2. PICK n : n = IF t \in Ahead(tab[q]) THEN Carried(q) ELSE 0 OBVIOUS
      <4>3. Short(t, n) BY <4>1, <4>2 DEF StarsInv, Owing, Owes
      <4>4. n = (IF t \in Ahead(tab[q]) THEN Carried(q) ELSE 0)' BY <2>1, <4>2 DEF Carried, FirstTable, Kind, Ahead
      <4>5. Short(t, n)' BY <2>2, <2>3, <4>3, ShortStays
      <4>6. QED BY <4>4, <4>5 DEF Owes, Short
    <3>2. Adding(q)' BY <2>1 DEF StarsInv, Starring, Adding, Kind, DueTables
    <3>3. Rows(ActivityOf[q])' = Rows(ActivityOf[q]) BY <2>1 DEF Rows
    <3>4. TriedIfNotDue(q)' BY <2>1, <3>3 DEF StarsInv, Starring, TriedIfNotDue, Fresh, Kind, hasTried
    <3>5. NewRowsStarless(q)' BY <2>1 DEF StarsInv, Starring, NewRowsStarless
    <3>6. PracticeStarless(q)' BY <2>1 DEF StarsInv, Starring, PracticeStarless, Kind
    <3>7. QED BY <3>1, <3>2, <3>4, <3>5, <3>6 DEF Starring
  <2>7. QED BY <2>4, <2>5, <2>6 DEF StarsInv
<1>4. QED BY <1>1, <1>2, <1>3 DEF Next

(* At the start there is nothing to show and nothing due. *)
LEMMA InitStars == Init => StarsInv
<1> SUFFICES ASSUME Init PROVE StarsInv OBVIOUS
<1>0. stored = {} /\ (\A t \in Tables, s \in Req : agg[t][s] = NoRow) /\ \A s \in Req : row[s] = NoAttempt /\ pc[s] = "idle" /\ writes[s] = NoWrites
  BY DEF Init
<1>1. ASSUME NEW t \in Tables PROVE ScoreSum(t) = 0 /\ Flags(t) = 0
  <2>1. Ids(t) = {} /\ {s \in Ids(t) : agg[t][s].flag} = {} BY <1>0 DEF Ids
  <2>2. QED BY <2>1, SumEmpty, FS_EmptySet DEF ScoreSum, Flags
<1>2. ASSUME NEW kinds PROVE ScoresOf(kinds) = 0
  <2>1. {s \in stored : Kind(s) \in kinds} = {} BY <1>0
  <2>2. QED BY <2>1, SumEmpty DEF ScoresOf
<1>3. ASSUME NEW t \in Tables PROVE Short(t, 0)
  <2>1. Flags("lesson") = 0 /\ Flags("level") = 0 BY <1>1 DEF Tables
  <2>2. StarsDue(t) = 0 BY <1>2, <2>1 DEF StarsDue
  <2>3. QED BY <1>1, <2>2 DEF Short
<1>4. NobodyOwes /\ RowsExist BY <1>0, <1>3 DEF NobodyOwes, RowsExist
<1>5. ASSUME NEW r \in Req PROVE Owing(r) /\ Starring(r)
  BY <1>0 DEF Owing, Starring, Adding, TriedIfNotDue, NewRowsStarless, PracticeStarless, AddingStars, Settled, Rewarded,
     NoWrites, NoAttempt
<1>6. QED BY <1>4, <1>5 DEF StarsInv

(***************************************************************************)
(* For a client that sends one result at a time the lesson, the level and  *)
(* the grade show the stars of the stored attempts and the extra stars     *)
(* (addstudentscores, addstudentlevelquizscores): exactly those while      *)
(* nothing has failed or timed out, and never more, whatever fails or      *)
(* crashes between the commit and the last of the three tables.            *)
(***************************************************************************)
THEOREM StarsAreEarned == ASSUME Serial, TotalCoversActivities PROVE Spec => []StarsEarned
<1>1. Sound /\ Sound' /\ LedgerInv /\ StarsInv /\ [Next]_vars => StarsInv' BY StarsStep
<1>2. Sound /\ LedgerInv /\ StarsInv => StarsEarned
  <2> SUFFICES ASSUME Sound, LedgerInv, StarsInv, Quiet PROVE StarsEarned BY DEF StarsEarned
  <2>1. \A r \in Req : pc[r] \notin AddingStars BY DEF Quiet, InFlight, AddingStars, Ended
  <2>2. \A t \in Tables : ScoreSum(t) + 0 <= StarsDue(t) /\ (NoFault => ScoreSum(t) + 0 = StarsDue(t))
    BY <2>1 DEF StarsInv, NobodyOwes, Short
  <2>3. \A t \in Tables : ScoreSum(t) \in Nat BY StarsTyped DEF Sound, TypeInv, LedgerInv
  <2>4. \A t \in Tables : ScoreSum(t) <= StarsDue(t) /\ (NoFault => ScoreSum(t) = StarsDue(t)) BY <2>2, <2>3
  <2>5. QED BY <2>4 DEF StarsEarned, StarsDue, Tables, NoFault
<1>3. QED BY <1>1, <1>2, InitStars, AlwaysSound, AlwaysLedger, PTL DEF Spec
=============================================================================
