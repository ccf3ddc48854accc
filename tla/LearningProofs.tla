--------------------------- MODULE LearningProofs ---------------------------
(***************************************************************************)
(* For any number of reports, any points and any number of failed          *)
(* statements and lost answers: what one item earns is on the lesson, and  *)
(* what is written after the commit is made good by the retry.  For any    *)
(* number of usage reports: no time is invented.                           *)
(***************************************************************************)
EXTENDS MCLearning, NumberProofs

Places == {"idle", "save", "commit", "scores", "star", "daily", "day", "ok", "again", "refused"}

(* What the item's row may hold: the points come with the first completed view. *)
LearntRow ==
    {NotSeen} \cup {row \in [viewed : Nat, points : Nat] : row.points = IF row.viewed > 0 THEN Points ELSE 0}

(* What the lesson's row may hold: it is made with the item's points, and capped at the total. *)
LessonHeld == {NoRow} \cup {row \in [points : Nat, completed : BOOLEAN, scores : Nat, flag : BOOLEAN] :
                            Points <= row.points /\ row.points <= item.total}

Typed ==
    /\ item \in [media : BOOLEAN, total : Totals]
    /\ pc \in [Reports -> Places] /\ ended \in [Reports -> BOOLEAN]
    /\ DOMAIN copy = Reports
    /\ learnt \in LearntRow /\ lesson \in LessonHeld
    /\ overlapped \in BOOLEAN

(* One transaction at a time holds the progress row. *)
Locked == \A r \in Reports : pc[r] = "commit" <=> holder = r

(* A report with nothing to measure is refused at once; the star is only asked for by a finished item. *)
Asked ==
    /\ \A r \in Reports : pc[r] \notin {"idle", "refused"} => ended[r] \/ item.media
    /\ \A r \in Reports : pc[r] \in {"scores", "star"} => ended[r]

(* What a report has read was true once, and is true now if no two reports overlap. *)
CopiesHold ==
    \A r \in Reports :
        /\ pc[r] = "save" =>
              /\ copy[r] \in LearntRow
              /\ copy[r] # NotSeen => learnt # NotSeen
              /\ copy[r].viewed > 0 => PointsOf(lesson) >= Points
              /\ ~item.media /\ copy[r] # NotSeen => copy[r].viewed > 0
              /\ ~overlapped => copy[r] = learnt
        /\ pc[r] = "star" =>
              /\ copy[r] \in LessonHeld /\ (copy[r] # NoRow => lesson # NoRow)
              /\ ~overlapped => copy[r] = lesson
        /\ pc[r] = "day" => copy[r] \in LearntRow /\ (~overlapped => copy[r] = learnt)

(* What is about to be committed. *)
DraftHolds ==
    \A r \in Reports : pc[r] = "commit" =>
        /\ draft.learnt \in LearntRow \ {NotSeen} /\ draft.lesson \in LessonHeld
        /\ draft.lesson.points >= PointsOf(lesson) /\ draft.lesson.points >= draft.learnt.points
        /\ ~item.media => draft.learnt.viewed > 0
        /\ ~item.media \/ ~overlapped => draft.lesson.points = draft.learnt.points
        /\ lesson # NoRow => draft.lesson # NoRow
        /\ lesson = NoRow /\ draft.lesson # NoRow => ~draft.lesson.flag /\ draft.lesson.scores = 0
        /\ ~overlapped /\ ~ended[r] => draft.lesson = lesson

(* The committed rows: the property itself, and that a seen item without media has been opened. *)
RowsHold ==
    /\ LearntIsCredited
    /\ ~item.media /\ learnt # NotSeen => learnt.viewed > 0

(* In turn: one report in progress. *)
InTurn == ~overlapped => \A r, s \in InProgress : r = s

Credited == Typed /\ Locked /\ Asked /\ InTurn /\ CopiesHold /\ DraftHolds /\ RowsHold

(* The star is due when the lesson is full. *)
StarGiven == lesson # NoRow => lesson.flag = (lesson.points >= item.total)

(* In turn, only a finished item that is not yet past the star may be without it. *)
StarInTurn ==
    ~overlapped =>
        /\ lesson # NoRow => lesson.scores = (IF lesson.flag THEN 1 ELSE 0) /\ (lesson.flag => lesson.points >= item.total)
        /\ (\A r \in InProgress : ~ended[r] \/ pc[r] \in {"daily", "day"}) => StarGiven

(* In turn, the daily row is behind only while a report is in progress. *)
DayInTurn ==
    /\ ~overlapped /\ InProgress = {} /\ learnt # NotSeen => daily = learnt.points
    /\ \A r \in Reports : pc[r] \in {"scores", "star", "daily", "day"} => learnt # NotSeen

Settling == Credited /\ StarInTurn /\ DayInTurn

-----------------------------------------------------------------------------
(* What the types say of the item, of the missing rows and of every row. *)
LEMMA ItemFacts ==
    ASSUME Typed
    PROVE  /\ Points \in Nat /\ Points > 0 /\ item.total \in Nat /\ Points <= item.total
           /\ NotSeen.viewed = 0 /\ NotSeen.points = 0 /\ NoRow.points = 0
           /\ \A row \in LearntRow : row.viewed \in Nat /\ row.points = IF row.viewed > 0 THEN Points ELSE 0
           /\ \A row \in LessonHeld : row.points \in Nat /\ row.points <= item.total
           /\ \A row \in LessonHeld \ {NoRow} : Points <= row.points
<1>0. item.total \in Totals BY DEF Typed
<1>a. Points \in Nat /\ Points > 0 BY LearningAssumption
<1>b. item.total \in Nat BY <1>0, LearningAssumption
<1>c. Points <= item.total BY <1>0, LearningAssumption
<1>1. Points \in Nat /\ Points > 0 /\ item.total \in Nat /\ Points <= item.total BY <1>a, <1>b, <1>c
<1>2. NotSeen.viewed = 0 /\ NotSeen.points = 0 BY DEF NotSeen
<1>3. NoRow.points = 0 BY DEF NoRow
<1>4. \A row \in LearntRow : row.viewed \in Nat /\ row.points = IF row.viewed > 0 THEN Points ELSE 0
  BY <1>2 DEF LearntRow
<1>5. \A row \in LessonHeld : row.points \in Nat /\ row.points <= item.total BY <1>1, <1>3 DEF LessonHeld
<1>6. QED BY <1>1, <1>2, <1>3, <1>4, <1>5 DEF LessonHeld

(* A reward never takes points off the lesson, and leaves at least the item's own there. *)
LEMMA WholeReward ==
    ASSUME Typed, NEW row, row = LessonRow(lesson, Points, 0, item.total)
    PROVE  /\ row \in LessonHeld \ {NoRow} /\ row.points >= lesson.points
           /\ lesson = NoRow => row.points = Points /\ ~row.flag /\ row.scores = 0
<1> DEFINE done(p) == LessonCompleted(p, 0, item.total)
<1>1. \A p : done(p) \in BOOLEAN BY DEF LessonCompleted
<1>2. CASE lesson = NoRow
  <2>1. row = [points |-> Points, completed |-> Points >= 0 /\ done(Points), scores |-> 0, flag |-> FALSE]
    BY <1>2, ItemFacts DEF LessonRow, NewLessonRow, Positive
  <2>2. row.points = Points /\ ~row.flag /\ row.scores = 0 BY <2>1
  <2>3. row # NoRow BY <2>2, ItemFacts
  <2>4. row \in [points : Nat, completed : BOOLEAN, scores : Nat, flag : BOOLEAN]
    <3> DEFINE full == Points >= 0 /\ done(Points)
    <3>1. Points \in Nat BY ItemFacts
    <3>2. full \in BOOLEAN OBVIOUS
    <3>3. row = [points |-> Points, completed |-> full, scores |-> 0, flag |-> FALSE] BY <2>1
    <3> HIDE DEF full
    <3>4. QED BY ONLY <3>1, <3>2, <3>3
  <2>5. lesson.points = 0 BY <1>2, ItemFacts
  <2>6. QED BY <1>2, <2>2, <2>3, <2>4, <2>5, ItemFacts DEF LessonHeld
<1>3. CASE lesson # NoRow
  <2> DEFINE p == IF lesson.points + Points > item.total THEN item.total ELSE lesson.points + Points
  <2>1. lesson \in [points : Nat, completed : BOOLEAN, scores : Nat, flag : BOOLEAN] /\ Points <= lesson.points
        /\ lesson.points <= item.total
    BY <1>3 DEF Typed, LessonHeld
  <2>2. AddPoints(lesson.points, Points) - Overflow(lesson, Points, item.total) = p
    BY <1>3, <2>1, ItemFacts DEF AddPoints, Overflow
  <2>3. row = [lesson EXCEPT !.points = p, !.completed = done(p)] BY <1>3, <2>2 DEF LessonRow
  <2>4. p \in Nat /\ p >= lesson.points /\ p >= Points /\ p <= item.total BY <2>1, ItemFacts
  <2>5. row \in [points : Nat, completed : BOOLEAN, scores : Nat, flag : BOOLEAN] /\ row.points = p
    BY <2>1, <2>3, <2>4, <1>1
  <2>6. row # NoRow BY <2>4, <2>5, ItemFacts
  <2>7. QED BY <1>3, <2>4, <2>5, <2>6 DEF LessonHeld
<1>4. QED BY <1>2, <1>3

(* A report is rewarded in full or not at all: there is never anything to take off. *)
LEMMA RewardedInFull ==
    ASSUME Typed, NEW r \in Reports, copy[r] \in LearntRow
    PROVE  Rewarded(r) = IF RewardDue(r) THEN LessonRow(lesson, Points, 0, item.total) ELSE lesson
<1>1. OldOf(r) \in {NoOld, 0} BY ItemFacts DEF OldOf
<1>2. Delta(Points, OldOf(r)) = Points BY <1>1 DEF Delta
<1>3. QED BY <1>2 DEF Rewarded

(* What one report writes, from what it has read. *)
LEMMA WhatIsWritten ==
    ASSUME Typed, NEW r \in Reports, copy[r] \in LearntRow
    PROVE  /\ LearntAfter(r) \in LearntRow \ {NotSeen}
           /\ ended[r] => LearntAfter(r).viewed > 0
           /\ copy[r].viewed > 0 => LearntAfter(r).viewed > 0 /\ ~RewardDue(r)
           /\ ~ended[r] => LearntAfter(r).viewed = copy[r].viewed /\ ~RewardDue(r)
           /\ copy[r].viewed = 0 /\ ended[r] => RewardDue(r)
<1> DEFINE after == [viewed |-> copy[r].viewed + (IF ended[r] THEN 1 ELSE 0),
                     points |-> IF copy[r].viewed > 0 \/ ended[r] THEN Points ELSE 0]
<1>1. LearntAfter(r) = after BY DEF LearntAfter
<1>2. copy[r].viewed \in Nat /\ ended[r] \in BOOLEAN BY ItemFacts DEF Typed
<1>3. after \in [viewed : Nat, points : Nat] /\ after.points = (IF after.viewed > 0 THEN Points ELSE 0)
  BY <1>2, ItemFacts
<1>4. after # NotSeen BY DEF NotSeen
<1>5. copy[r].viewed > 0 => OldOf(r) = NoOld BY <1>2, ItemFacts DEF OldOf
<1>6. ~ended[r] /\ copy[r].viewed = 0 => OldOf(r) = NoOld BY <1>2 DEF OldOf
<1>7. QED BY <1>1, <1>2, <1>3, <1>4, <1>5, <1>6, ItemFacts DEF RewardDue, LearntRow

(* The bonus star touches nothing but the star columns. *)
LEMMA Starring ==
    ASSUME Typed, CopiesHold, NEW r \in Reports, addstudentscores(r)
    PROVE  /\ lesson' \in LessonHeld /\ lesson'.points = lesson.points /\ (lesson' = NoRow <=> lesson = NoRow)
           /\ pc[r] = "scores" => lesson' = lesson
           /\ pc[r] = "star" /\ copy[r] # NoRow =>
                 /\ lesson # NoRow
                 /\ lesson' = [lesson EXCEPT !.scores = copy[r].scores + Bonus(copy[r], item.total),
                                             !.flag = copy[r].flag \/ Bonus(copy[r], item.total) = 1]
           /\ pc[r] = "star" /\ copy[r] = NoRow => lesson' = lesson
<1> DEFINE given == copy[r].scores + Bonus(copy[r], item.total)
           star  == copy[r].flag \/ Bonus(copy[r], item.total) = 1
<1>1. pc[r] = "scores" => lesson' = lesson BY DEF addstudentscores
<1>2. pc[r] = "star" /\ copy[r] = NoRow => lesson' = lesson BY DEF addstudentscores
<1>3. ASSUME pc[r] = "star", copy[r] # NoRow
      PROVE  /\ lesson' \in LessonHeld \ {NoRow} /\ lesson'.points = lesson.points /\ lesson # NoRow
             /\ lesson' = [lesson EXCEPT !.scores = given, !.flag = star]
  <2>1. lesson # NoRow /\ copy[r] \in LessonHeld BY <1>3 DEF CopiesHold
  <2>2. lesson \in [points : Nat, completed : BOOLEAN, scores : Nat, flag : BOOLEAN] /\ Points <= lesson.points
        /\ lesson.points <= item.total
    BY <2>1 DEF Typed, LessonHeld
  <2>3. copy[r] \in [points : Nat, completed : BOOLEAN, scores : Nat, flag : BOOLEAN] BY <1>3, <2>1 DEF LessonHeld
  <2>4. Bonus(copy[r], item.total) \in Nat BY DEF Bonus
  <2>5. StarredLesson(copy[r], 0, item.total).scores = given /\ StarredLesson(copy[r], 0, item.total).flag = star
    BY <1>3, <2>3, <2>4 DEF StarredLesson
  <2>6. lesson' = [lesson EXCEPT !.scores = given, !.flag = star] BY <1>3, <2>5 DEF addstudentscores
  <2>7. given \in Nat /\ star \in BOOLEAN BY <2>3, <2>4
  <2> HIDE DEF given, star
  <2>8. lesson' \in [points : Nat, completed : BOOLEAN, scores : Nat, flag : BOOLEAN] /\ lesson'.points = lesson.points
    BY <2>2, <2>6, <2>7
  <2>9. lesson' # NoRow BY <2>2, <2>8, ItemFacts
  <2>10. QED BY <2>1, <2>2, <2>6, <2>8, <2>9 DEF LessonHeld
<1>4. pc[r] \in {"scores", "star"} BY DEF addstudentscores
<1>5. QED BY <1>1, <1>2, <1>3, <1>4 DEF Typed

-----------------------------------------------------------------------------
(* The item, what each report says, and the rows. *)
StepOf(r) == Step(r) \/ Fail(r) \/ LoseAnswer(r)

(* Only a report's step moves the learning tables. *)
LEMMA LearningSteps ==
    ASSUME [Next]_vars
    PROVE  (\E r \in Reports : StepOf(r)) \/ UNCHANGED lvars
  BY DEF Next, LNext, vars, StepOf

(* Every step keeps the types. *)
LEMMA TypedStep ==
    ASSUME Credited, NEW r \in Reports, StepOf(r)
    PROVE  Typed'
<1> USE DEF Typed, rows, Goto
<1>1. CASE Find(r)
  <2>1. item' = item /\ learnt' = learnt /\ lesson' = lesson BY <1>1 DEF Find
  <2>2. pc' \in [Reports -> Places] /\ ended' \in [Reports -> BOOLEAN] BY <1>1 DEF Find, Credited, Places
  <2>3. DOMAIN copy' = Reports /\ overlapped' \in BOOLEAN BY <1>1 DEF Find, Credited
  <2>4. QED BY <2>1, <2>2, <2>3 DEF Credited, LearntRow, LessonHeld
<1>2. CASE Save(r) BY <1>2 DEF Save, Credited, LessonHeld, Places
<1>3. CASE Commit(r)
  <2>1. item' = item /\ ended' = ended /\ overlapped' = overlapped /\ learnt' = draft.learnt BY <1>3 DEF Commit
  <2>2. pc' \in [Reports -> Places] /\ DOMAIN copy' = Reports BY <1>3 DEF Commit, Credited, Places
  <2>3. draft.learnt \in LearntRow /\ draft.lesson \in LessonHeld /\ (lesson # NoRow => draft.lesson # NoRow)
    BY <1>3 DEF Commit, Credited, DraftHolds
  <2>4. lesson' \in LessonHeld
    <3>1. CASE lesson = NoRow BY <1>3, <2>3, <3>1 DEF Commit
    <3>2. CASE lesson # NoRow
      <4>1. lesson' = [lesson EXCEPT !.points = draft.lesson.points, !.completed = draft.lesson.completed]
        BY <1>3, <3>2 DEF Commit
      <4>2. lesson \in [points : Nat, completed : BOOLEAN, scores : Nat, flag : BOOLEAN]
        BY <3>2 DEF Credited, LessonHeld
      <4>3. draft.lesson \in [points : Nat, completed : BOOLEAN, scores : Nat, flag : BOOLEAN]
            /\ Points <= draft.lesson.points /\ draft.lesson.points <= item.total
        BY <2>3, <3>2 DEF LessonHeld
      <4>4. QED BY <4>1, <4>2, <4>3 DEF LessonHeld
    <3>3. QED BY <3>1, <3>2
  <2>5. QED BY <2>1, <2>2, <2>3, <2>4 DEF Credited, LessonHeld
<1>4. CASE addstudentscores(r)
  <2>1. item' = item /\ ended' = ended /\ overlapped' = overlapped /\ learnt' = learnt BY <1>4 DEF addstudentscores
  <2>2. pc' \in [Reports -> Places] /\ DOMAIN copy' = Reports BY <1>4 DEF addstudentscores, Credited, Places
  <2>3. lesson' \in LessonHeld
    <3> HIDE DEF Typed
    <3>1. QED BY <1>4, Starring DEF Credited
  <2>4. QED BY <2>1, <2>2, <2>3 DEF Credited, LessonHeld
<1>5. CASE updateuserdailypoints(r) BY <1>5 DEF updateuserdailypoints, Credited, LessonHeld, Places
<1>6. CASE Fail(r) BY <1>6 DEF Fail, Credited, LessonHeld, Places
<1>7. CASE LoseAnswer(r) BY <1>7 DEF LoseAnswer, Credited, LessonHeld, Places
<1>8. QED BY <1>1, <1>2, <1>3, <1>4, <1>5, <1>6, <1>7 DEF StepOf, Step

(* What a report is about to commit, when it has taken the row. *)
LEMMA Drafted ==
    ASSUME Credited, NEW r \in Reports, pc[r] = "save", copy[r] = NotSeen => learnt = NotSeen,
           NEW earned, earned = LearntAfter(r), NEW row, row = Rewarded(r)
    PROVE  /\ earned \in LearntRow \ {NotSeen} /\ row \in LessonHeld
           /\ row.points >= lesson.points /\ row.points >= earned.points
           /\ ~item.media => earned.viewed > 0
           /\ ~item.media \/ ~overlapped => row.points = earned.points
           /\ lesson # NoRow => row # NoRow
           /\ lesson = NoRow /\ row # NoRow => ~row.flag /\ row.scores = 0
           /\ ~overlapped /\ ~ended[r] => row = lesson
<1>1. copy[r] \in LearntRow /\ Typed BY DEF Credited, CopiesHold
<1>2. /\ earned \in LearntRow \ {NotSeen}
      /\ earned.points = IF earned.viewed > 0 THEN Points ELSE 0
      /\ lesson.points \in Nat /\ learnt.points = IF learnt.viewed > 0 THEN Points ELSE 0
      /\ lesson = NoRow \/ lesson.points >= Points
  BY <1>1, WhatIsWritten, ItemFacts DEF Typed
<1>3. copy[r].viewed > 0 => lesson.points >= Points BY DEF Credited, CopiesHold, PointsOf
<1>4. CASE RewardDue(r)
  <2>1. row = LessonRow(lesson, Points, 0, item.total) BY <1>1, <1>4, RewardedInFull
  <2>2. /\ row \in LessonHeld \ {NoRow} /\ row.points >= lesson.points
        /\ lesson = NoRow => row.points = Points /\ ~row.flag /\ row.scores = 0
    BY <2>1, <1>1, WholeReward
  <2>3. row.points \in Nat /\ row.points >= Points BY <2>2, <1>1, ItemFacts
  <2>4. ended[r] /\ copy[r].viewed = 0 /\ earned.viewed > 0
    <3>1. ended[r] /\ ~(copy[r].viewed > 0) BY <1>1, <1>4, WhatIsWritten
    <3>2. QED BY <1>1, <3>1, WhatIsWritten, ItemFacts
  <2>5. ~item.media \/ ~overlapped => lesson = NoRow
    <3>1. CASE ~item.media
      <4>1. copy[r] = NotSeen BY <2>4, <3>1 DEF Credited, CopiesHold
      <4>2. QED BY <4>1, <1>2, <3>1, ItemFacts, <1>1 DEF Credited, RowsHold, LearntIsCredited, PointsOf
    <3>2. CASE ~overlapped
      <4>1. copy[r] = learnt BY <3>2 DEF Credited, CopiesHold
      <4>2. QED BY <4>1, <2>4, <1>2, <3>2, ItemFacts, <1>1 DEF Credited, RowsHold, LearntIsCredited, PointsOf
    <3>3. QED BY <3>1, <3>2
  <2>6. QED BY <1>2, <2>2, <2>3, <2>4, <2>5, ItemFacts, <1>1
<1>5. CASE ~RewardDue(r)
  <2>1. row = lesson BY <1>1, <1>5, RewardedInFull
  <2>2. earned.viewed > 0 => copy[r].viewed > 0 BY <1>1, <1>5, WhatIsWritten, ItemFacts
  <2>3. copy[r].viewed > 0 => earned.viewed > 0 BY <1>1, WhatIsWritten
  <2>4. ~item.media => copy[r].viewed > 0
    <3>1. ~item.media => ended[r] BY DEF Credited, Asked
    <3>2. QED BY <3>1, <1>1, <1>5, WhatIsWritten, ItemFacts
  <2>5. ~item.media \/ ~overlapped => lesson.points = earned.points
    <3>1. CASE ~item.media
      <4>1. learnt # NotSeen /\ learnt.viewed > 0
        BY <3>1, <2>4, <1>1, ItemFacts DEF Credited, CopiesHold, RowsHold
      <4>2. QED BY <4>1, <3>1, <2>3, <2>4, <1>2 DEF Credited, RowsHold, LearntIsCredited, PointsOf
    <3>2. CASE ~overlapped
      <4>1. copy[r] = learnt BY <3>2 DEF Credited, CopiesHold
      <4>2. QED BY <4>1, <3>2, <2>2, <2>3, <1>2 DEF Credited, RowsHold, LearntIsCredited, PointsOf
    <3>3. QED BY <3>1, <3>2
  <2>6. lesson \in LessonHeld BY <1>1 DEF Typed
  <2>7. QED BY <1>2, <1>3, <2>1, <2>2, <2>3, <2>4, <2>5, <2>6, ItemFacts, <1>1
<1>6. QED BY <1>4, <1>5

(* What is committed is what was drafted; of a lesson row that was there, the points. *)
LEMMA Committed ==
    ASSUME Credited, NEW r \in Reports, Commit(r)
    PROVE  /\ pc[r] = "commit" /\ pc' = [pc EXCEPT ![r] = IF ended[r] THEN "scores" ELSE "daily"]
           /\ learnt' = draft.learnt /\ lesson'.points = draft.lesson.points
           /\ lesson' = NoRow <=> draft.lesson = NoRow
           /\ lesson = NoRow => lesson' = draft.lesson
           /\ lesson # NoRow => lesson'.flag = lesson.flag /\ lesson'.scores = lesson.scores
<1>1. /\ pc[r] = "commit" /\ pc' = [pc EXCEPT ![r] = IF ended[r] THEN "scores" ELSE "daily"]
      /\ learnt' = draft.learnt /\ (lesson = NoRow => lesson' = draft.lesson)
  BY DEF Commit, Goto
<1>2. CASE lesson # NoRow
  <2>1. lesson' = [lesson EXCEPT !.points = draft.lesson.points, !.completed = draft.lesson.completed]
    BY <1>2 DEF Commit
  <2>2. lesson \in [points : Nat, completed : BOOLEAN, scores : Nat, flag : BOOLEAN]
    BY <1>2 DEF Credited, Typed, LessonHeld
  <2>3. draft.lesson # NoRow /\ draft.lesson.points >= Points /\ draft.lesson.points \in Nat
    BY <1>1, <1>2, ItemFacts DEF Credited, DraftHolds
  <2>4. lesson'.points = draft.lesson.points /\ lesson'.flag = lesson.flag /\ lesson'.scores = lesson.scores
    BY <2>1, <2>2
  <2>5. lesson' # NoRow BY <2>3, <2>4, ItemFacts DEF Credited
  <2>6. QED BY <1>1, <1>2, <2>3, <2>4, <2>5
<1>3. QED BY <1>1, <1>2

-----------------------------------------------------------------------------
(* Where a report goes, and who holds the row. *)
LEMMA LockedStep ==
    ASSUME Credited, NEW r \in Reports, StepOf(r)
    PROVE  Locked' /\ Asked' /\ InTurn'
<1>0. Typed /\ Locked /\ Asked /\ InTurn BY DEF Credited
<1>1. Locked'
  <2>1. CASE Find(r) BY <1>0, <2>1, LearningAssumption DEF Locked, Typed, Find, Goto
  <2>2. CASE Save(r) BY <1>0, <2>2, LearningAssumption DEF Locked, Typed, Save, Goto
  <2>3. CASE Commit(r) BY <1>0, <2>3, LearningAssumption DEF Locked, Typed, Commit, Goto
  <2>4. CASE addstudentscores(r) BY <1>0, <2>4, LearningAssumption DEF Locked, Typed, addstudentscores, Goto
  <2>5. CASE updateuserdailypoints(r) BY <1>0, <2>5, LearningAssumption DEF Locked, Typed, updateuserdailypoints, Goto
  <2>6. CASE Fail(r) BY <1>0, <2>6, LearningAssumption DEF Locked, Typed, Fail, Goto
  <2>7. CASE LoseAnswer(r) BY <1>0, <2>7, LearningAssumption DEF Locked, Typed, LoseAnswer, Goto
  <2>8. QED BY <2>1, <2>2, <2>3, <2>4, <2>5, <2>6, <2>7 DEF StepOf, Step
<1>2. Asked'
  <2>1. CASE Find(r) BY <1>0, <2>1 DEF Asked, Typed, Find, Goto
  <2>2. CASE Save(r) BY <1>0, <2>2 DEF Asked, Typed, Save, Goto
  <2>3. CASE Commit(r) BY <1>0, <2>3 DEF Asked, Typed, Commit, Goto
  <2>4. CASE addstudentscores(r) BY <1>0, <2>4 DEF Asked, Typed, addstudentscores, Goto
  <2>5. CASE updateuserdailypoints(r) BY <1>0, <2>5 DEF Asked, Typed, updateuserdailypoints, Goto
  <2>6. CASE Fail(r) BY <1>0, <2>6 DEF Asked, Typed, Fail, Goto, InProgress, Answered
  <2>7. CASE LoseAnswer(r) BY <1>0, <2>7 DEF Asked, Typed, LoseAnswer, Goto
  <2>8. QED BY <2>1, <2>2, <2>3, <2>4, <2>5, <2>6, <2>7 DEF StepOf, Step
<1>3. InTurn'
  <2>1. CASE Find(r) BY <1>0, <2>1 DEF InTurn, Typed, Find, Goto, InProgress, Answered
  <2>2. CASE LoseAnswer(r) BY <1>0, <2>2 DEF InTurn, Typed, LoseAnswer, Goto, InProgress, Answered
  <2>3. CASE Save(r) BY <1>0, <2>3 DEF InTurn, Typed, Save, Goto, InProgress, Answered
  <2>4. CASE Commit(r) BY <1>0, <2>4 DEF InTurn, Typed, Commit, Goto, InProgress, Answered
  <2>5. CASE addstudentscores(r) BY <1>0, <2>5 DEF InTurn, Typed, addstudentscores, Goto, InProgress, Answered
  <2>6. CASE updateuserdailypoints(r)
    BY <1>0, <2>6 DEF InTurn, Typed, updateuserdailypoints, Goto, InProgress, Answered
  <2>7. CASE Fail(r) BY <1>0, <2>7 DEF InTurn, Typed, Fail, Goto, InProgress, Answered
  <2>8. QED BY <2>1, <2>2, <2>3, <2>4, <2>5, <2>6, <2>7 DEF StepOf, Step
<1>4. QED BY <1>1, <1>2, <1>3

(* The committed rows. *)
LEMMA RowsStep ==
    ASSUME Credited, NEW r \in Reports, StepOf(r)
    PROVE  RowsHold'
<1>1. CASE Commit(r)
  <2>1. /\ draft.lesson.points >= draft.learnt.points /\ (~item.media => draft.learnt.viewed > 0)
        /\ ~item.media \/ ~overlapped => draft.lesson.points = draft.learnt.points
    BY <1>1, Committed DEF Credited, DraftHolds
  <2>2. item' = item /\ overlapped' = overlapped BY <1>1 DEF Commit
  <2>3. QED BY <1>1, <2>1, <2>2, Committed DEF RowsHold, LearntIsCredited, PointsOf
<1>2. ASSUME lesson'.points = lesson.points, learnt' = learnt, item' = item, overlapped => overlapped'
      PROVE  RowsHold'
  BY <1>2 DEF Credited, RowsHold, LearntIsCredited, PointsOf, Typed
<1>3. CASE addstudentscores(r) BY <1>2, <1>3, Starring DEF Credited, addstudentscores
<1>4. CASE Find(r) \/ Save(r) \/ updateuserdailypoints(r) \/ Fail(r) \/ LoseAnswer(r)
  BY <1>2, <1>4 DEF Find, Save, updateuserdailypoints, Fail, LoseAnswer, rows
<1>5. QED BY <1>1, <1>3, <1>4 DEF StepOf, Step

(* What is about to be committed: one report holds the row, and no other writes the lesson's points. *)
LEMMA DraftStep ==
    ASSUME Credited, NEW r \in Reports, StepOf(r)
    PROVE  DraftHolds'
<1> SUFFICES ASSUME NEW s \in Reports, pc'[s] = "commit"
             PROVE  /\ (draft.learnt \in LearntRow \ {NotSeen})' /\ (draft.lesson \in LessonHeld)'
                    /\ draft'.lesson.points >= PointsOf(lesson)' /\ draft'.lesson.points >= draft'.learnt.points
                    /\ ~item'.media => draft'.learnt.viewed > 0
                    /\ ~item'.media \/ ~overlapped' => draft'.lesson.points = draft'.learnt.points
                    /\ lesson' # NoRow => draft'.lesson # NoRow
                    /\ lesson' = NoRow /\ draft'.lesson # NoRow => ~draft'.lesson.flag /\ draft'.lesson.scores = 0
                    /\ ~overlapped' /\ ~ended'[s] => draft'.lesson = lesson'
  BY DEF DraftHolds
<1>0. Typed /\ Locked /\ InTurn BY DEF Credited
<1>1. CASE Save(r) /\ s = r
  <2>1. pc[r] = "save" /\ (copy[r] = NotSeen => learnt = NotSeen)
    BY <1>1, <1>0 DEF Save, Typed, Goto
  <2>2. draft' = [learnt |-> LearntAfter(r), lesson |-> Rewarded(r)] BY <1>1, <1>0 DEF Save, Typed, Goto
  <2>3. item' = item /\ overlapped' = overlapped /\ ended' = ended /\ lesson' = lesson BY <1>1 DEF Save, rows
  <2>4. draft'.learnt = LearntAfter(r) /\ draft'.lesson = Rewarded(r) BY <2>2
  <2>5. LearntRow' = LearntRow /\ LessonHeld' = LessonHeld BY <2>3 DEF LearntRow, LessonHeld
  <2>6. QED BY <1>1, <2>1, <2>3, <2>4, <2>5, Drafted DEF PointsOf
<1>2. CASE ~(Save(r) /\ s = r)
  <2>1. pc[s] = "commit" /\ holder = s
    BY <1>0, <1>2 DEF StepOf, Step, Find, Save, Commit, addstudentscores, updateuserdailypoints, Fail, LoseAnswer,
                      Goto, Typed, Locked
  <2>2. s # r /\ ~Save(r) /\ ~Commit(r)
    <3>1. holder # "none" BY <2>1, LearningAssumption
    <3>2. ~Save(r) BY <3>1 DEF Save
    <3>3. s # r
      BY <1>0, <2>1, <3>2 DEF StepOf, Step, Find, Commit, addstudentscores, updateuserdailypoints, Fail, LoseAnswer,
                      Goto, Typed
    <3>4. ~Commit(r) BY <1>0, <2>1, <3>3 DEF Commit, Locked
    <3>5. QED BY <3>2, <3>3, <3>4
  <2>3. draft' = draft /\ item' = item /\ ended'[s] = ended[s] /\ (overlapped => overlapped')
    BY <1>0, <2>1, <2>2 DEF StepOf, Step, Find, addstudentscores, updateuserdailypoints, Fail, LoseAnswer, Typed
  <2>4. lesson'.points = lesson.points /\ (lesson' = NoRow <=> lesson = NoRow)
    BY <2>2, Starring DEF StepOf, Step, Find, updateuserdailypoints, Fail, LoseAnswer, rows, Credited
  <2>5. ~overlapped' => lesson' = lesson
    <3>1. CASE addstudentscores(r)
      <4>1. pc[r] \in {"scores", "star"} /\ overlapped' = overlapped BY <3>1 DEF addstudentscores
      <4>2. overlapped BY <4>1, <1>0, <2>1, <2>2 DEF InTurn, InProgress, Answered
      <4>3. QED BY <4>1, <4>2
    <3>2. CASE ~addstudentscores(r)
      BY <2>2, <3>2 DEF StepOf, Step, Find, updateuserdailypoints, Fail, LoseAnswer, rows
    <3>3. QED BY <3>1, <3>2
  <2>6. LearntRow' = LearntRow /\ LessonHeld' = LessonHeld BY <2>3 DEF LearntRow, LessonHeld
  <2>7. QED BY <2>1, <2>3, <2>4, <2>5, <2>6, <1>0 DEF Credited, DraftHolds, PointsOf, Typed
<1>3. QED BY <1>1, <1>2

(* The rows only grow: what was seen stays seen, and the lesson loses no points. *)
LEMMA RowsGrow ==
    ASSUME Credited, NEW r \in Reports, StepOf(r)
    PROVE  /\ item' = item /\ (overlapped => overlapped')
           /\ learnt # NotSeen => learnt' # NotSeen
           /\ lesson # NoRow => lesson' # NoRow
           /\ lesson.points >= Points => lesson'.points >= Points
<1>1. CASE Commit(r)
  <2>1. /\ draft.learnt # NotSeen /\ draft.lesson \in LessonHeld /\ lesson \in LessonHeld
        /\ draft.lesson.points >= lesson.points /\ (lesson # NoRow => draft.lesson # NoRow)
    BY <1>1, Committed DEF Credited, DraftHolds, PointsOf, Typed
  <2>2. draft.lesson.points \in Nat /\ lesson.points \in Nat /\ Points \in Nat BY <2>1, ItemFacts DEF Credited
  <2>3. item' = item /\ overlapped' = overlapped BY <1>1 DEF Commit
  <2>4. QED BY <1>1, <2>1, <2>2, <2>3, Committed
<1>2. CASE addstudentscores(r) BY <1>2, Starring DEF Credited, addstudentscores
<1>3. CASE Find(r) \/ LoseAnswer(r)
  <2>1. item' = item /\ learnt' = learnt /\ lesson' = lesson BY <1>3 DEF Find, LoseAnswer, rows
  <2>2. overlapped => overlapped' BY <1>3 DEF Find, LoseAnswer
  <2>3. QED BY <2>1, <2>2
<1>4. CASE Save(r) \/ updateuserdailypoints(r) \/ Fail(r)
  BY <1>4 DEF Save, updateuserdailypoints, Fail, rows
<1>5. QED BY <1>1, <1>2, <1>3, <1>4 DEF StepOf, Step

(* A step of a report while another is in progress: the two overlap. *)
LEMMA StepsOverlap ==
    ASSUME Credited, NEW r \in Reports, StepOf(r), NEW s \in InProgress, s # r
    PROVE  overlapped'
<1>0. Typed /\ InTurn BY DEF Credited
<1>1. CASE r \in InProgress BY <1>0, <1>1, RowsGrow DEF InTurn, Typed
<1>2. CASE r \notin InProgress
  <2>1. pc[r] \in Answered BY <1>2 DEF InProgress
  <2>2. Find(r) \/ LoseAnswer(r)
    BY <2>1, <1>2 DEF StepOf, Step, Save, Commit, addstudentscores, updateuserdailypoints, Fail, Answered
  <2>3. QED BY <2>2 DEF Find, LoseAnswer
<1>3. QED BY <1>1, <1>2

(* What a report has read stays true of a row that only grows; in turn, nothing else is written. *)
LEMMA CopiesStep ==
    ASSUME Credited, NEW r \in Reports, StepOf(r)
    PROVE  CopiesHold'
<1>0. Typed /\ CopiesHold /\ RowsHold BY DEF Credited
<1>1. LearntRow' = LearntRow /\ LessonHeld' = LessonHeld BY RowsGrow DEF LearntRow, LessonHeld
<1> DEFINE Holds(s) ==
        /\ pc[s] = "save" =>
              /\ copy[s] \in LearntRow
              /\ copy[s] # NotSeen => learnt # NotSeen
              /\ copy[s].viewed > 0 => lesson.points >= Points
              /\ ~item.media /\ copy[s] # NotSeen => copy[s].viewed > 0
              /\ ~overlapped => copy[s] = learnt
        /\ pc[s] = "star" =>
              /\ copy[s] \in LessonHeld /\ (copy[s] # NoRow => lesson # NoRow)
              /\ ~overlapped => copy[s] = lesson
        /\ pc[s] = "day" => copy[s] \in LearntRow /\ (~overlapped => copy[s] = learnt)
<1>2. ASSUME NEW s \in Reports, s # r PROVE Holds(s)'
  <2>1. pc'[s] = pc[s]
    BY <1>0, <1>2 DEF StepOf, Step, Find, Save, Commit, addstudentscores, updateuserdailypoints, Fail, LoseAnswer,
                      Goto, Typed
  <2>2. copy'[s] = copy[s]
    BY <1>0, <1>2 DEF StepOf, Step, Find, Save, Commit, addstudentscores, updateuserdailypoints, Fail, LoseAnswer,
                      Goto, Typed
  <2>3. pc[s] \in {"save", "star", "day"} => overlapped'
    BY <1>2, StepsOverlap DEF InProgress, Answered
  <2>4. Holds(s) BY <1>0 DEF CopiesHold, PointsOf
  <2>5. QED BY <2>1, <2>2, <2>3, <2>4, <1>1, RowsGrow
<1>3. Holds(r)'
  <2>1. learnt.viewed > 0 => lesson.points >= Points
    BY <1>0, ItemFacts DEF RowsHold, LearntIsCredited, PointsOf, Typed
  <2>2. CASE Find(r)
    <3>1. copy'[r] = learnt /\ pc'[r] \in {"save", "refused"} BY <1>0, <2>2 DEF Find, Goto, Typed
    <3>2. learnt' = learnt /\ lesson' = lesson /\ item' = item BY <2>2 DEF Find, rows
    <3>3. QED BY <3>1, <3>2, <2>1, <1>0, <1>1 DEF RowsHold, Typed
  <2>3. CASE addstudentscores(r)
    <3>1. pc'[r] = "daily" \/ (pc'[r] = "star" /\ copy'[r] = lesson /\ lesson' = lesson)
      BY <1>0, <2>3 DEF addstudentscores, Goto, Typed
    <3>2. QED BY <3>1, <1>0, <1>1 DEF Typed
  <2>4. CASE updateuserdailypoints(r)
    <3>1. pc'[r] = "ok" \/ (pc'[r] = "day" /\ copy'[r] = learnt /\ learnt' = learnt)
      BY <1>0, <2>4 DEF updateuserdailypoints, Goto, Typed
    <3>2. QED BY <3>1, <1>0, <1>1 DEF Typed
  <2>5. CASE Save(r) \/ Commit(r) \/ Fail(r) \/ LoseAnswer(r)
    <3>1. pc'[r] \in {"again", "commit", "scores", "daily"}
      BY <1>0, <2>5 DEF Save, Commit, Fail, LoseAnswer, Goto, Typed
    <3>2. QED BY <3>1
  <2>6. QED BY <2>2, <2>3, <2>4, <2>5 DEF StepOf, Step
<1>4. QED BY <1>2, <1>3 DEF CopiesHold, PointsOf

(* Every step keeps the invariant. *)
LEMMA CreditedStep ==
    ASSUME Credited, NEW r \in Reports, StepOf(r)
    PROVE  Credited'
  BY TypedStep, LockedStep, CopiesStep, DraftStep, RowsStep DEF Credited

(* Before the first report nothing is stored. *)
LEMMA CreditedInit == Init => Credited
<1> SUFFICES ASSUME Init PROVE Credited OBVIOUS
<1>1. LInit BY DEF Init
<1>2. Typed BY <1>1 DEF LInit, Typed, LearntRow, LessonHeld, Places
<1>3. Locked BY <1>1, LearningAssumption DEF LInit, Locked
<1>4. Asked /\ InTurn /\ CopiesHold /\ DraftHolds
  BY <1>1 DEF LInit, Asked, InTurn, InProgress, Answered, CopiesHold, DraftHolds
<1>5. RowsHold BY <1>1 DEF LInit, RowsHold, LearntIsCredited, PointsOf, NotSeen, NoRow
<1>6. QED BY <1>2, <1>3, <1>4, <1>5 DEF Credited

(* A step that leaves the learning tables alone keeps the invariant. *)
LEMMA CreditedStutters == Credited /\ UNCHANGED lvars => Credited'
  BY DEF lvars, rows, Credited, Typed, LearntRow, LessonHeld, Locked, Asked, InTurn, InProgress, CopiesHold, DraftHolds,
         RowsHold, LearntIsCredited, PointsOf

(* The invariant holds throughout. *)
LEMMA CreditedInvariant == Spec => []Credited
<1>1. Credited /\ [Next]_vars => Credited' BY CreditedStutters, LearningSteps, CreditedStep
<1>2. QED BY <1>1, CreditedInit, PTL DEF Spec

(***************************************************************************)
(* The lesson has what the item earned, and has it once where the code     *)
(* says so: what is committed is worked out while the row is held, from a  *)
(* copy that is only ever behind.                                          *)
(***************************************************************************)
THEOREM LearntCredited == Spec => []LearntIsCredited
<1>1. Credited => LearntIsCredited BY DEF Credited, RowsHold
<1>2. QED BY <1>1, CreditedInvariant, PTL

-----------------------------------------------------------------------------
(* No percentage of a lesson's points is rounded up to 100. *)
SmallTotals == \A total \in Totals : total < 20000

(* Where the report, alone in progress, leaves the others. *)
LEMMA Alone ==
    ASSUME Credited, NEW r \in Reports, StepOf(r), ~overlapped'
    PROVE  /\ ~overlapped /\ InProgress \subseteq {r} /\ InProgress' \subseteq {r}
           /\ \A s \in Reports : pc'[s] # pc[s] => s = r
<1>1. ~overlapped /\ InProgress \subseteq {r} BY RowsGrow, StepsOverlap DEF Credited, Typed
<1>2. \A s \in Reports : pc'[s] # pc[s] => s = r
  BY DEF StepOf, Step, Find, Save, Commit, addstudentscores, updateuserdailypoints, Fail, LoseAnswer, Goto, Credited,
         Typed
<1>3. InProgress' \subseteq {r} BY <1>1, <1>2 DEF InProgress
<1>4. QED BY <1>1, <1>2, <1>3

(* The star a full lesson gets, and a lesson that is not full does not. *)
LEMMA BonusWhenFull ==
    ASSUME SmallTotals, Typed, lesson # NoRow
    PROVE  Bonus(lesson, item.total) = IF lesson.points >= item.total /\ ~lesson.flag THEN 1 ELSE 0
<1>1. item.total \in Totals BY DEF Typed
<1>2. lesson.points \in Nat /\ item.total \in Nat /\ 0 < item.total /\ item.total < 20000
  BY <1>1, ItemFacts DEF SmallTotals, Typed
<1>3. (progressPercent(lesson.points, item.total) >= 10000) <=> (lesson.points >= item.total)
  BY <1>2, FullIsExact DEF progressPercent
<1>4. QED BY <1>3 DEF Bonus

(* One bonus star, when the lesson is full, by the time the daily row is written. *)
LEMMA StarStep ==
    ASSUME SmallTotals, Settling, NEW r \in Reports, StepOf(r)
    PROVE  StarInTurn'
<1> SUFFICES ASSUME ~overlapped' PROVE StarInTurn' BY DEF StarInTurn
<1>0. Credited /\ Typed /\ Asked BY DEF Settling, Credited
<1>1. ~overlapped /\ InProgress \subseteq {r} /\ InProgress' \subseteq {r} /\ item' = item
  BY <1>0, Alone, RowsGrow
<1>2. lesson # NoRow => lesson.scores = (IF lesson.flag THEN 1 ELSE 0) /\ (lesson.flag => lesson.points >= item.total)
  BY <1>1 DEF Settling, StarInTurn
<1> DEFINE past(s) == ~ended[s] \/ pc[s] \in {"daily", "day"}
<1>3. (r \in InProgress => past(r)) => StarGiven BY <1>1 DEF Settling, StarInTurn
<1>4. ASSUME lesson' = lesson, r \in InProgress => ((r \in InProgress' /\ past(r)') => past(r)),
             r \in InProgress => r \in InProgress' \/ past(r)
      PROVE  StarInTurn'
  <2>1. (r \in InProgress' => past(r)') => (r \in InProgress => past(r)) BY <1>4
  <2>2. (r \in InProgress' => past(r)') => StarGiven BY <2>1, <1>3
  <2>3. QED BY <2>2, <1>1, <1>2, <1>4 DEF StarInTurn, StarGiven
<1>5. CASE Commit(r)
  <2>1. /\ draft.lesson \in LessonHeld /\ lesson \in LessonHeld /\ draft.lesson.points >= lesson.points
        /\ lesson = NoRow /\ draft.lesson # NoRow => ~draft.lesson.flag /\ draft.lesson.scores = 0
        /\ lesson # NoRow => draft.lesson # NoRow
        /\ ~ended[r] => draft.lesson = lesson
    BY <1>0, <1>1, <1>5, Committed DEF Credited, DraftHolds, PointsOf, Typed
  <2>2. draft.lesson.points \in Nat /\ lesson.points \in Nat /\ item.total \in Nat BY <1>0, <2>1, ItemFacts
  <2>3. lesson' # NoRow => lesson'.scores = (IF lesson'.flag THEN 1 ELSE 0) /\ (lesson'.flag => lesson'.points >= item.total)
    BY <1>0, <1>2, <1>5, <2>1, <2>2, Committed
  <2>4. (r \in InProgress' => past(r)') => StarGiven'
    <3>1. ended' = ended /\ r \in InProgress' /\ pc'[r] = (IF ended[r] THEN "scores" ELSE "daily")
      BY <1>0, <1>5 DEF Commit, Goto, InProgress, Answered, Typed
    <3>2. CASE ended[r] BY <3>1, <3>2
    <3>3. CASE ~ended[r]
      <4>1. StarGiven BY <1>3, <3>3
      <4>2. QED BY <4>1, <1>0, <1>1, <1>5, <2>1, <3>3, Committed DEF StarGiven
    <3>4. QED BY <3>2, <3>3
  <2>5. QED BY <1>1, <2>3, <2>4 DEF StarInTurn
<1>6. CASE addstudentscores(r)
  <2>1. CASE pc[r] = "scores"
    <3>1. lesson' = lesson /\ pc'[r] = "star" /\ ended' = ended /\ r \in InProgress'
      BY <1>0, <1>6, <2>1 DEF addstudentscores, Goto, Typed, InProgress, Answered
    <3>2. ended[r] BY <1>0, <2>1 DEF Asked
    <3>3. QED BY <1>4, <3>1, <3>2
  <2>2. CASE pc[r] = "star"
    <3>1. copy[r] = lesson BY <1>0, <1>1, <2>2 DEF Credited, CopiesHold
    <3>2. CASE lesson = NoRow
      <4>1. lesson' = NoRow BY <1>0, <1>6, <2>2, <3>1, <3>2, Starring DEF Credited
      <4>2. QED BY <4>1 DEF StarInTurn, StarGiven
    <3>3. CASE lesson # NoRow
      <4>1. lesson' = [lesson EXCEPT !.scores = lesson.scores + Bonus(lesson, item.total),
                                     !.flag = lesson.flag \/ Bonus(lesson, item.total) = 1]
        BY <1>0, <1>6, <2>2, <3>1, <3>3, Starring DEF Credited
      <4>2. lesson \in [points : Nat, completed : BOOLEAN, scores : Nat, flag : BOOLEAN] BY <1>0, <3>3 DEF Typed, LessonHeld
      <4> DEFINE b == Bonus(lesson, item.total)
      <4>3. b = IF lesson.points >= item.total /\ ~lesson.flag THEN 1 ELSE 0 BY <1>0, <3>3, BonusWhenFull
      <4> HIDE DEF b
      <4>4. /\ lesson'.scores = lesson.scores + b /\ lesson'.points = lesson.points
            /\ lesson'.flag \in BOOLEAN /\ (lesson'.flag <=> (lesson.flag \/ b = 1))
        BY <4>1, <4>2 DEF b
      <4>5. lesson'.flag = (lesson.points >= item.total) /\ lesson'.scores = (IF lesson'.flag THEN 1 ELSE 0)
        <5>1. b = 1 <=> (lesson.points >= item.total /\ ~lesson.flag) BY <4>3
        <5>2. lesson.flag => lesson.points >= item.total BY <1>2, <3>3
        <5>3. lesson'.flag = (lesson.points >= item.total) BY <4>2, <4>4, <5>1, <5>2
        <5>4. lesson.scores = (IF lesson.flag THEN 1 ELSE 0) BY <1>2, <3>3
        <5>5. CASE lesson.flag
          <6>1. b = 0 BY <4>3, <5>5
          <6>2. lesson.scores = 1 BY <5>4, <5>5
          <6>3. lesson'.scores = 1 /\ lesson'.flag BY <4>4, <5>5, <6>1, <6>2
          <6>4. QED BY <5>3, <6>3
        <5>6. CASE ~lesson.flag
          <6>1. lesson'.scores = b BY <4>3, <4>4, <5>4, <5>6
          <6>2. lesson'.flag => b = 1 BY <4>4, <5>6
          <6>3. ~lesson'.flag => b = 0 BY <4>3, <4>4, <5>6
          <6>4. QED BY <5>3, <6>1, <6>2, <6>3
        <5>7. QED BY <5>5, <5>6, <4>2
      <4>6. QED BY <1>1, <4>4, <4>5 DEF StarInTurn, StarGiven
    <3>4. QED BY <3>2, <3>3
  <2>3. QED BY <1>6, <2>1, <2>2 DEF addstudentscores
<1>7. CASE Find(r)
  <2>1. lesson' = lesson /\ pc'[r] \in {"save", "refused"} BY <1>0, <1>7 DEF Find, Goto, Typed, rows
  <2>2. r \in InProgress => ended' = ended BY <1>7 DEF Find, InProgress, Answered
  <2>3. r \in InProgress => r \in InProgress' \/ ~ended[r]
    BY <1>0, <1>7, <2>2 DEF Find, Goto, Typed, InProgress, Answered
  <2>4. QED BY <1>4, <2>1, <2>2, <2>3
<1>8. CASE Save(r) \/ Fail(r)
  BY <1>0, <1>4, <1>8 DEF Save, Fail, Goto, Typed, rows, InProgress, Answered
<1>9. CASE updateuserdailypoints(r)
  BY <1>0, <1>4, <1>9 DEF updateuserdailypoints, Goto, Typed, InProgress, Answered
<1>10. CASE LoseAnswer(r)
  BY <1>0, <1>4, <1>10 DEF LoseAnswer, Goto, Typed, rows, InProgress, Answered
<1>11. QED BY <1>5, <1>6, <1>7, <1>8, <1>9, <1>10 DEF StepOf, Step

(* The daily row holds what the item earned, once the report is answered. *)
LEMMA DayStep ==
    ASSUME Settling, NEW r \in Reports, StepOf(r)
    PROVE  DayInTurn'
<1>0. Credited /\ Typed /\ Asked /\ DayInTurn BY DEF Settling, Credited
<1>1. \A s \in Reports : pc'[s] \in {"scores", "star", "daily", "day"} => learnt' # NotSeen
  <2>1. CASE Commit(r)
    <3>1. learnt' # NotSeen BY <1>0, <2>1, Committed DEF Credited, DraftHolds
    <3>2. QED BY <3>1
  <2>2. CASE ~Commit(r)
    <3>1. \A s \in Reports : pc'[s] \in {"scores", "star", "daily", "day"} =>
              pc[s] \in {"scores", "star", "daily", "day"}
      BY <1>0, <2>2 DEF StepOf, Step, Find, Save, addstudentscores, updateuserdailypoints, Fail, LoseAnswer, Goto, Typed
    <3>2. QED BY <3>1, <1>0, RowsGrow DEF DayInTurn
  <2>3. QED BY <2>1, <2>2
<1>2. ASSUME ~overlapped', InProgress' = {}, learnt' # NotSeen PROVE daily' = learnt'.points
  <2>1. ~overlapped /\ InProgress \subseteq {r} BY <1>0, <1>2, Alone
  <2>2. pc'[r] \in Answered BY <1>2 DEF InProgress
  <2>3. CASE Find(r)
    <3>1. rows' = rows /\ pc[r] \in {"idle", "again"} BY <2>3 DEF Find
    <3>2. pc[r] # "again" BY <1>0, <2>2, <2>3 DEF Find, Goto, Typed, Asked, Answered
    <3>3. InProgress = {} BY <2>1, <3>1, <3>2 DEF InProgress, Answered
    <3>4. QED BY <1>0, <1>2, <2>1, <3>1, <3>3 DEF DayInTurn, rows
  <2>4. CASE updateuserdailypoints(r)
    <3>1. pc[r] = "day" /\ learnt' = learnt /\ daily' = (IF copy[r].viewed > 0 THEN copy[r].points ELSE 0)
      BY <1>0, <2>2, <2>4 DEF updateuserdailypoints, Goto, Typed, Answered
    <3>2. copy[r] = learnt BY <1>0, <2>1, <3>1 DEF Credited, CopiesHold
    <3>3. QED BY <1>0, <3>1, <3>2, ItemFacts DEF Typed
  <2>5. pc'[r] \notin Answered \/ Find(r) \/ updateuserdailypoints(r)
    BY <1>0 DEF StepOf, Step, Save, Commit, addstudentscores, Fail, LoseAnswer, Goto, Typed, Answered
  <2>6. QED BY <2>2, <2>3, <2>4, <2>5
<1>3. QED BY <1>1, <1>2 DEF DayInTurn

(***************************************************************************)
(* Reports in turn, however often each is sent again, settle: the one      *)
(* bonus star is there exactly when the lesson is full, and today's row    *)
(* holds what the item earned.  The star is decided by a percentage that   *)
(* is rounded, so a lesson of 20000 points or more would get it early.     *)
(***************************************************************************)
THEOREM RetrySettlesAlways == ASSUME SmallTotals PROVE Spec => []RetrySettles
<1>1. Init => Settling
  BY CreditedInit DEF Init, LInit, Settling, StarInTurn, StarGiven, DayInTurn
<1>2. Settling /\ [Next]_vars => Settling'
  <2>1. Settling /\ UNCHANGED lvars => StarInTurn' /\ DayInTurn'
    BY DEF Settling, lvars, rows, StarInTurn, StarGiven, DayInTurn, InProgress
  <2>2. QED BY <2>1, CreditedStutters, LearningSteps, CreditedStep, StarStep, DayStep DEF Settling
<1>3. Settling => RetrySettles
  BY DEF Settling, StarInTurn, StarGiven, DayInTurn, RetrySettles
<1>4. QED BY <1>1, <1>2, <1>3, PTL DEF Spec

-----------------------------------------------------------------------------
(* Usage reports.  The row a report adds its seconds to: the one it found, or its own. *)
Target(p) == IF found[p] = <<>> THEN p ELSE found[p][1]

(* What each saved report gave, to any row and to the row q. *)
GivenBy == [p \in Posts |-> IF at[p] = "done" THEN seconds(span[p]) ELSE 0]
Part(q) == [p \in Posts |-> IF at[p] = "done" /\ Target(p) = q THEN seconds(span[p]) ELSE 0]
Share   == [q \in Posts |-> SumFunctionOnSet(Part(q), Posts)]

UTyped ==
    /\ at \in [Posts -> {"idle", "found", "done"}] /\ crossed \in BOOLEAN
    /\ DOMAIN span = Posts /\ \A p \in Posts : span[p].start \in Nat /\ span[p].end \in Nat
    /\ usage \in [Posts -> {NoUsage} \cup [spent : Nat, created : Nat]]
    /\ \A p \in Posts : usage[p] # NoUsage => at[p] = "done"
    /\ DOMAIN found = Posts
    /\ \A p \in Posts : found[p] # <<>> =>
          at[p] # "idle" /\ found[p][1] \in UsageRows /\ found[p][2] \in Nat

(* A row holds at most what was given to it; a report in progress read no more than that. *)
SharesHold ==
    /\ SumFunctionOnSet(Share, Posts) = SumFunctionOnSet(GivenBy, Posts)
    /\ \A q \in Posts : usage[q].spent <= Share[q] /\ (~crossed => usage[q].spent = Share[q])
    /\ \A p \in Posts : at[p] = "found" /\ found[p] # <<>> =>
          /\ found[p][2] <= Share[found[p][1]]
          /\ ~crossed => found[p][2] = usage[found[p][1]].spent

(* As long as nothing overlapped, one report at a time is between its read and its write. *)
PostsInTurn == ~crossed => \A p, q \in Posts : at[p] = "found" /\ at[q] = "found" => p = q

UsageInv == UTyped /\ SharesHold /\ PostsInTurn

(* Times and shares are numbers. *)
LEMMA UsageNumbers ==
    ASSUME UTyped
    PROVE  /\ \A p \in Posts : seconds(span[p]) \in Nat /\ usage[p].spent \in Nat /\ GivenBy[p] \in Nat
           /\ \A p, q \in Posts : Part(q)[p] \in Nat
           /\ \A q \in Posts : Share[q] \in Nat
<1>1. \A p \in Posts : seconds(span[p]) \in Nat BY UsageAssumption DEF UTyped, seconds
<1>2. \A p \in Posts : usage[p].spent \in Nat BY DEF UTyped, NoUsage
<1>3. \A p \in Posts : GivenBy[p] \in Nat BY <1>1 DEF GivenBy
<1>4. \A p, q \in Posts : Part(q)[p] \in Nat BY <1>1 DEF Part
<1>5. ASSUME NEW q \in Posts PROVE Share[q] \in Nat
  <2> DEFINE f == Part(q)
  <2>1. \A p \in Posts : f[p] \in Nat BY <1>4
  <2> HIDE DEF f
  <2>2. SumFunctionOnSet(f, Posts) \in Nat BY <2>1, UsageAssumption, SumNat
  <2>3. QED BY <2>2 DEF f, Share
<1>6. QED BY <1>1, <1>2, <1>3, <1>4, <1>5

(* Nothing is given while a report only looks. *)
LEMMA FindGivesNothing ==
    ASSUME UTyped, NEW p \in Posts, FindUsage(p)
    PROVE  Share' = Share /\ GivenBy' = GivenBy
<1>1. PICK s : span' = [span EXCEPT ![p] = s] BY DEF FindUsage
<1>2. at[p] = "idle" /\ at' = [at EXCEPT ![p] = "found"] BY DEF FindUsage
<1>3. \A r \in Posts \ {p} : found'[r] = found[r] BY DEF FindUsage, UTyped
<1>4. \A r \in Posts : (at'[r] = "done" <=> at[r] = "done") /\ (at[r] = "done" => r # p) BY <1>2 DEF UTyped
<1>5. \A r \in Posts : at[r] = "done" => span'[r] = span[r] /\ Target(r)' = Target(r)
  BY <1>1, <1>3, <1>4 DEF UTyped, Target
<1>6. GivenBy' = GivenBy BY <1>4, <1>5 DEF GivenBy
<1>7. ASSUME NEW q \in Posts PROVE Part(q)' = Part(q) BY <1>4, <1>5 DEF Part
<1>8. Share' = Share BY <1>7 DEF Share
<1>9. QED BY <1>6, <1>8

(* A saved report gives its seconds to one row. *)
LEMMA SaveGives ==
    ASSUME UTyped, NEW p \in Posts, SaveUsage(p)
    PROVE  /\ Target(p) \in Posts
           /\ Share' = [Share EXCEPT ![Target(p)] = @ + seconds(span[p])]
           /\ SumFunctionOnSet(GivenBy', Posts) = SumFunctionOnSet(GivenBy, Posts) + seconds(span[p])
<1> DEFINE s == seconds(span[p])
           f == GivenBy
           e == GivenBy'
<1>1. at[p] = "found" /\ at' = [at EXCEPT ![p] = "done"] /\ span' = span /\ found' = found BY DEF SaveUsage
<1>2. s \in Nat /\ Target(p) \in Posts BY UsageNumbers DEF Target, UTyped, UsageRows
<1>3. \A r \in Posts : at'[r] = (IF r = p THEN "done" ELSE at[r]) BY <1>1 DEF UTyped
<1>4. \A r \in Posts : Target(r)' = Target(r) BY <1>1 DEF Target
<1>5. SumFunctionOnSet(e, Posts) = SumFunctionOnSet(f, Posts) + s
  <2>1. \A r \in Posts \ {p} : e[r] = f[r] BY <1>1, <1>3 DEF GivenBy
  <2>2. f[p] = 0 /\ e[p] = s BY <1>1, <1>3 DEF GivenBy
  <2>3. \A r \in Posts : f[r] \in Int /\ e[r] \in Int BY <1>2, <2>1, <2>2, UsageNumbers
  <2> HIDE DEF s, f, e
  <2>4. SumFunctionOnSet(e, Posts) = SumFunctionOnSet(f, Posts) + (e[p] - f[p]) BY <2>1, <2>3, UsageAssumption, SumChange
  <2>5. e[p] - f[p] = s BY <1>2, <2>2
  <2>6. QED BY <2>4, <2>5
<1>6. ASSUME NEW q \in Posts PROVE Share'[q] = Share[q] + (IF q = Target(p) THEN s ELSE 0)
  <2> DEFINE g == Part(q)
             h == Part(q)'
             d == IF q = Target(p) THEN s ELSE 0
  <2>1. \A r \in Posts \ {p} : h[r] = g[r] BY <1>1, <1>3, <1>4 DEF Part
  <2>2. g[p] = 0 /\ h[p] = d BY <1>1, <1>3, <1>4 DEF Part
  <2>3. d \in Nat BY <1>2
  <2>4. \A r \in Posts : g[r] \in Int /\ h[r] \in Int BY <2>1, <2>2, <2>3, UsageNumbers
  <2>5. Share[q] = SumFunctionOnSet(g, Posts) /\ Share'[q] = SumFunctionOnSet(h, Posts) BY DEF Share
  <2> HIDE DEF g, h, d
  <2>6. SumFunctionOnSet(h, Posts) = SumFunctionOnSet(g, Posts) + (h[p] - g[p]) BY <2>1, <2>4, UsageAssumption, SumChange
  <2>7. h[p] - g[p] = d BY <2>2, <2>3
  <2>8. Share'[q] = Share[q] + d BY <2>5, <2>6, <2>7
  <2>9. QED BY <2>8 DEF d
<1>7. Share' = [Share EXCEPT ![Target(p)] = @ + s]
  <2>1. DOMAIN Share = Posts /\ DOMAIN Share' = Posts BY DEF Share
  <2>2. \A q \in Posts : Share[q] \in Nat BY UsageNumbers
  <2>3. Share = [q \in Posts |-> Share[q]] /\ Share' = [q \in Posts |-> Share'[q]] BY DEF Share
  <2> HIDE DEF s
  <2>4. \A q \in Posts \ {Target(p)} : Share'[q] = Share[q] BY <1>6, <2>2
  <2>5. Share'[Target(p)] = Share[Target(p)] + s BY <1>2, <1>6
  <2>6. QED BY <1>2, <2>1, <2>3, <2>4, <2>5
<1>8. QED BY <1>2, <1>5, <1>7

(* No report, no row. *)
LEMMA UsageInit == ASSUME UInit PROVE UsageInv
<1>1. UTyped BY DEF UInit, UTyped
<1>2. \A q \in Posts : usage[q].spent = 0 BY DEF UInit, NoUsage
<1>3. \A q \in Posts : Share[q] = 0
  <2>1. TAKE q \in Posts
  <2> DEFINE f == Part(q)
  <2>2. \A p \in Posts : f[p] = 0 BY DEF UInit, Part
  <2> HIDE DEF f
  <2>3. SumFunctionOnSet(f, Posts) = 0 BY <2>2, UsageAssumption, SumZero
  <2>4. QED BY <2>3 DEF f, Share
<1>4. \A p \in Posts : GivenBy[p] = 0 BY DEF UInit, GivenBy
<1>5. SumFunctionOnSet(Share, Posts) = 0 /\ SumFunctionOnSet(GivenBy, Posts) = 0
  BY <1>3, <1>4, UsageAssumption, SumZero
<1>6. QED BY <1>1, <1>2, <1>3, <1>5 DEF UsageInv, SharesHold, PostsInTurn, UInit

(* A report looks for its row. *)
LEMMA FindKeeps == ASSUME UsageInv, NEW p \in Posts, FindUsage(p) PROVE UsageInv'
<1> USE DEF UsageInv
<1>1. PICK s \in Span : span' = [span EXCEPT ![p] = s]
  BY DEF FindUsage
<1>2. at[p] = "idle" /\ at' = [at EXCEPT ![p] = "found"] /\ usage' = usage
      /\ (crossed' <=> crossed \/ \E q \in Posts : at[q] = "found")
  BY DEF FindUsage, UTyped
<1>3. found' = found \/ \E q \in UsageRows : found' = [found EXCEPT ![p] = <<q, usage[q].spent>>]
  BY DEF FindUsage
<1>4. UsageRows' = UsageRows /\ Share' = Share /\ GivenBy' = GivenBy BY <1>2, FindGivesNothing DEF UsageRows
<1>5. \A r \in Posts \ {p} : found'[r] = found[r] /\ at'[r] = at[r] BY <1>2, <1>3 DEF UTyped
<1>6. at'[p] = "found" BY <1>2 DEF UTyped
<1>7. UTyped'
  <2>1. s.start \in Nat /\ s.end \in Nat BY UsageAssumption
  <2>2. DOMAIN span' = Posts /\ \A r \in Posts : span'[r].start \in Nat /\ span'[r].end \in Nat
    BY <1>1, <2>1 DEF UTyped
  <2>3. DOMAIN found' = Posts BY <1>3 DEF UTyped
  <2>4. \A r \in Posts : found'[r] # <<>> =>
          at'[r] # "idle" /\ found'[r][1] \in UsageRows /\ found'[r][2] \in Nat
    BY <1>3, <1>5, <1>6, UsageNumbers DEF UTyped, UsageRows
  <2>5. at' \in [Posts -> {"idle", "found", "done"}] /\ crossed' \in BOOLEAN BY <1>2 DEF UTyped
  <2>6. \A r \in Posts : usage'[r] # NoUsage => at'[r] = "done" BY <1>2, <1>5 DEF UTyped
  <2>7. QED BY <1>2, <1>4, <2>2, <2>3, <2>4, <2>5, <2>6 DEF UTyped
<1>8. SharesHold'
  <2>1. \A q \in Posts : usage'[q].spent <= Share'[q] /\ (~crossed' => usage'[q].spent = Share'[q])
    BY <1>2, <1>4 DEF SharesHold
  <2>2. ASSUME NEW r \in Posts, at'[r] = "found", found'[r] # <<>>
        PROVE  found'[r][2] <= Share[found'[r][1]] /\ (~crossed' => found'[r][2] = usage[found'[r][1]].spent)
    <3>1. CASE r # p BY <1>2, <1>5, <2>2, <3>1 DEF SharesHold
    <3>2. CASE r = p
      <4>1. CASE found' = found
        <5>1. found[p] # <<>> BY <2>2, <3>2, <4>1
        <5>2. QED BY <1>2, <5>1 DEF UTyped
      <4>2. ASSUME NEW q \in UsageRows, found' = [found EXCEPT ![p] = <<q, usage[q].spent>>]
            PROVE  found'[r][2] <= Share[found'[r][1]] /\ (~crossed' => found'[r][2] = usage[found'[r][1]].spent)
        <5>1. found'[r][1] = q /\ found'[r][2] = usage[q].spent /\ q \in Posts BY <3>2, <4>2 DEF UTyped, UsageRows
        <5>2. QED BY <5>1 DEF SharesHold
      <4>3. QED BY <1>3, <4>1, <4>2
    <3>3. QED BY <3>1, <3>2
  <2>3. QED BY <1>2, <1>4, <2>1, <2>2 DEF SharesHold
<1>9. PostsInTurn' BY <1>2, <1>5 DEF PostsInTurn, UTyped
<1>10. QED BY <1>7, <1>8, <1>9

(* A report adds its seconds. *)
LEMMA SaveKeeps == ASSUME UsageInv, NEW p \in Posts, SaveUsage(p) PROVE UsageInv'
<1> USE DEF UsageInv
<1> DEFINE q == Target(p)
           s == seconds(span[p])
           v == IF found[p] = <<>> THEN s ELSE found[p][2] + s
<1>1. at[p] = "found" /\ at' = [at EXCEPT ![p] = "done"] /\ span' = span /\ found' = found /\ crossed' = crossed
  BY DEF SaveUsage
<1>2. q \in Posts /\ s \in Nat /\ v \in Nat /\ Share[q] \in Nat BY UsageNumbers, SaveGives DEF UTyped
<1>3. /\ \A r \in Posts \ {q} : usage'[r] = usage[r]
      /\ usage'[q] \in [spent : Nat, created : Nat] /\ usage'[q].spent = v
      /\ DOMAIN usage' = Posts
  <2>1. CASE found[p] = <<>>
    <3>1. usage' = [usage EXCEPT ![p] = [spent |-> s, created |-> span[p].end]] /\ q = p /\ v = s
      BY <2>1 DEF SaveUsage, Target
    <3>2. QED BY <1>2, <3>1 DEF UTyped
  <2>2. CASE found[p] # <<>>
    <3>1. usage' = [usage EXCEPT ![q].spent = v] BY <2>2 DEF SaveUsage, Target
    <3>2. q \in UsageRows BY <2>2 DEF UTyped, Target
    <3>3. usage[q] \in [spent : Nat, created : Nat] BY <3>2 DEF UTyped, UsageRows
    <3> HIDE DEF q, v
    <3>4. QED BY <1>2, <3>1, <3>3 DEF UTyped
  <2>3. QED BY <2>1, <2>2
<1>4. Share' = [Share EXCEPT ![q] = @ + s] /\ SumFunctionOnSet(GivenBy', Posts) = SumFunctionOnSet(GivenBy, Posts) + s
  BY SaveGives
<1>5. /\ \A r \in Posts \ {q} : Share'[r] = Share[r]
      /\ Share'[q] = Share[q] + s
      /\ \A r \in Posts : Share[r] \in Nat /\ Share[r] <= Share'[r] /\ Share'[r] \in Nat
  <2>1. DOMAIN Share = Posts /\ \A r \in Posts : Share[r] \in Nat BY UsageNumbers DEF Share
  <2> HIDE DEF q, s
  <2>2. QED BY <1>2, <1>4, <2>1
<1>6. v <= Share'[q] /\ (~crossed => v = Share'[q])
  <2>1. CASE found[p] = <<>>
    <3>1. q = p /\ v = s /\ usage[p].spent = 0 BY <1>1, <2>1 DEF Target, UTyped, NoUsage
    <3>2. ~crossed => Share[q] = 0 BY <3>1, <1>2 DEF SharesHold
    <3>3. QED BY <1>2, <1>5, <3>1, <3>2
  <2>2. CASE found[p] # <<>>
    <3>1. q = found[p][1] /\ v = found[p][2] + s /\ found[p][2] \in Nat BY <2>2 DEF Target, UTyped
    <3>2. found[p][2] <= Share[q] /\ (~crossed => found[p][2] = Share[q]) BY <1>1, <1>2, <2>2, <3>1 DEF SharesHold
    <3>3. QED BY <1>2, <1>5, <3>1, <3>2
  <2>3. QED BY <2>1, <2>2
<1> HIDE DEF q, s, v
<1>7. \A r \in Posts \ {p} : at'[r] = at[r] BY <1>1 DEF UTyped
<1>8. UTyped'
  <2>1. usage' = [r \in Posts |-> usage'[r]]
    BY DEF SaveUsage, UTyped
  <2>2. \A r \in Posts : usage'[r] \in {NoUsage} \cup [spent : Nat, created : Nat] BY <1>3 DEF UTyped
  <2>3. usage' \in [Posts -> {NoUsage} \cup [spent : Nat, created : Nat]] BY <2>1, <2>2
  <2>4. \A row \in [spent : Nat, created : Nat] : row # NoUsage
    <3>1. "absent" \in DOMAIN NoUsage BY DEF NoUsage
    <3>2. \A row \in [spent : Nat, created : Nat] : "absent" \notin DOMAIN row OBVIOUS
    <3>3. QED BY <3>1, <3>2
  <2>5. UsageRows \subseteq UsageRows' BY <1>2, <1>3, <2>4 DEF UsageRows
  <2>6. q # p => at[q] = "done"
    <3>1. q # p => q \in UsageRows BY DEF q, Target, UTyped
    <3>2. QED BY <3>1 DEF UTyped, UsageRows
  <2>7. \A r \in Posts : usage'[r] # NoUsage => at'[r] = "done" BY <1>1, <1>3, <1>7, <2>6 DEF UTyped
  <2>8. at' \in [Posts -> {"idle", "found", "done"}] BY <1>1 DEF UTyped
  <2>9. QED BY <1>1, <2>3, <2>5, <2>7, <2>8 DEF UTyped
<1>9. SumFunctionOnSet(Share', Posts) = SumFunctionOnSet(GivenBy', Posts)
  <2> DEFINE f == Share
             e == Share'
             d == SumFunctionOnSet(GivenBy, Posts)
  <2>1. \A r \in Posts : f[r] \in Int /\ e[r] \in Int BY <1>5
  <2>2. \A r \in Posts \ {q} : e[r] = f[r] BY <1>5
  <2>3. e[q] = f[q] + s /\ f[q] \in Nat BY <1>2, <1>5
  <2>4. SumFunctionOnSet(f, Posts) = d BY DEF SharesHold
  <2>5. d \in Int
    <3> DEFINE g == GivenBy
    <3>1. \A r \in Posts : g[r] \in Int BY UsageNumbers
    <3> HIDE DEF g
    <3>2. SumFunctionOnSet(g, Posts) \in Int BY <3>1, UsageAssumption, SumTyped
    <3>3. QED BY <3>2 DEF g
  <2> HIDE DEF f, e, d
  <2>6. SumFunctionOnSet(e, Posts) = SumFunctionOnSet(f, Posts) + (e[q] - f[q])
    BY <1>2, <2>1, <2>2, UsageAssumption, SumChange
  <2>7. SumFunctionOnSet(e, Posts) = d + s BY <1>2, <2>3, <2>4, <2>5, <2>6
  <2>8. QED BY <1>4, <2>7 DEF d, e
<1>10. SharesHold'
  <2>1. ASSUME NEW r \in Posts
        PROVE  usage'[r].spent <= Share'[r] /\ (~crossed' => usage'[r].spent = Share'[r])
    BY <1>1, <1>3, <1>5, <1>6 DEF SharesHold
  <2>2. ASSUME NEW r \in Posts, at'[r] = "found", found'[r] # <<>>
        PROVE  found'[r][2] <= Share'[found'[r][1]] /\ (~crossed' => found'[r][2] = usage'[found'[r][1]].spent)
    <3>1. r # p /\ at[r] = "found" BY <1>1, <1>7, <2>2 DEF UTyped
    <3>2. crossed BY <1>1, <3>1 DEF PostsInTurn
    <3>3. found[r][1] \in Posts /\ found[r][2] \in Nat BY <1>1, <2>2 DEF UTyped, UsageRows
    <3>4. found[r][2] <= Share[found[r][1]] BY <1>1, <2>2, <3>1 DEF SharesHold
    <3>5. QED BY <1>1, <1>5, <3>2, <3>3, <3>4
  <2>3. QED BY <1>9, <2>1, <2>2 DEF SharesHold
<1>11. PostsInTurn' BY <1>1, <1>7 DEF PostsInTurn, UTyped
<1>12. QED BY <1>8, <1>10, <1>11

(* What the rows hold and what was given, over all of Posts. *)
LEMMA UsageHolds == ASSUME UsageInv PROVE UsageNeverInvented
<1> USE DEF UsageInv
<1> DEFINE f == [p \in Posts |-> usage[p].spent]
           g == [p \in Posts |-> seconds(span[p])]
           e == GivenBy
           D == {p \in Posts : at[p] = "done"}
           share == Share
<1>1. IsFiniteSet(Posts) /\ IsFiniteSet(D) /\ UsageRows \subseteq Posts /\ D \subseteq Posts
  BY UsageAssumption, FS_Subset DEF UsageRows
<1>2. \A p \in Posts : f[p] \in Int /\ e[p] \in Int /\ share[p] \in Int BY UsageNumbers
<1>3. \A p \in Posts \ UsageRows : f[p] = 0 BY DEF UsageRows, NoUsage
<1>4. \A p \in Posts \ D : e[p] = 0 BY DEF GivenBy
<1>5. \A p \in D : e[p] = g[p] BY DEF GivenBy
<1>6. \A p \in Posts : f[p] <= share[p] /\ (~crossed => f[p] = share[p]) BY DEF SharesHold
<1>7. SumFunctionOnSet(share, Posts) = SumFunctionOnSet(e, Posts) BY DEF SharesHold
<1>8. UsageNeverInvented <=> LET held  == SumFunctionOnSet(f, UsageRows)
                                 given == SumFunctionOnSet(g, D)
                             IN  held <= given /\ (~crossed => held = given)
  BY DEF UsageNeverInvented
<1> HIDE DEF f, g, e, D, share
<1>9. SumFunctionOnSet(f, UsageRows) = SumFunctionOnSet(f, Posts) BY <1>1, <1>2, <1>3, SumOfTheRest
<1>10. SumFunctionOnSet(e, D) = SumFunctionOnSet(e, Posts) BY <1>1, <1>2, <1>4, SumOfTheRest
<1>11. SumFunctionOnSet(e, D) = SumFunctionOnSet(g, D) BY <1>1, <1>5, SumSame
<1>12. SumFunctionOnSet(f, Posts) <= SumFunctionOnSet(share, Posts) BY <1>1, <1>2, <1>6, SumMono
<1>13. ~crossed => SumFunctionOnSet(f, Posts) = SumFunctionOnSet(share, Posts) BY <1>1, <1>6, SumSame
<1>14. QED BY <1>7, <1>8, <1>9, <1>10, <1>11, <1>12, <1>13

(***************************************************************************)
(* For any number of usage reports in any interleaving, late ones and ones *)
(* with impossible times among them: the rows hold no time that was not    *)
(* reported, and all of it when no two reports overlap.  A row may hold    *)
(* less than its reports gave and a stale read may write less than is      *)
(* there, so it is not enough to look at the row that is written: each row *)
(* is compared with the share of the reports that went to it.              *)
(***************************************************************************)
THEOREM UsageNotInvented == Spec => []UsageNeverInvented
<1>1. Init => UsageInv BY UsageInit DEF Init
<1>2. UsageInv /\ [Next]_vars => UsageInv'
  <2>1. UsageInv /\ UNCHANGED uvars => UsageInv'
    BY DEF uvars, UsageInv, UTyped, SharesHold, PostsInTurn, Share, Part, Target, GivenBy, UsageRows
  <2>2. [Next]_vars => (\E p \in Posts : FindUsage(p) \/ SaveUsage(p)) \/ UNCHANGED uvars BY DEF Next, UNext, vars
  <2>3. QED BY <2>1, <2>2, FindKeeps, SaveKeeps
<1>3. QED BY <1>1, <1>2, UsageHolds, PTL DEF Spec

=============================================================================
