--------------------------- MODULE ProgressProofs ---------------------------
(***************************************************************************)
(* One learner's points and stars, for any curriculum, any number of       *)
(* attempts and any number of changes to content, rule and settings.       *)
(* Stars always add up, in whatever order attempts arrive.  The two ledgers*)
(* of points agree, and a recalculation leaves what the rule says, for     *)
(* attempts in the order they were started in.  A level accrues what lands *)
(* on its lessons.  Under a steady pass rule a quiz is credited its one    *)
(* counted pass, in whatever order its attempts arrive.  Last, the scoring *)
(* arithmetic all of it rests on.                                          *)
(***************************************************************************)
EXTENDS Recalculation, ScoringWalk, NumberProofs

-----------------------------------------------------------------------------
(* The rows. *)

(* A missing row counts nothing; every row holds a number of points and of stars. *)
LEMMA RowFacts ==
    /\ NoRow.points = 0 /\ NoRow.scores = 0 /\ ~NoRow.flag
    /\ NoRow \notin ProgressRow
    /\ \A row \in Row : row.points \in Int /\ row.scores \in Nat /\ row.flag \in BOOLEAN
<1>1. NoRow.points = 0 /\ NoRow.scores = 0 /\ ~NoRow.flag BY DEF NoRow
<1>2. NoRow \notin ProgressRow
  <2>1. \A row \in ProgressRow : DOMAIN row = {"points", "completed", "scores", "flag"} BY DEF ProgressRow
  <2>2. "absent" \in DOMAIN NoRow BY DEF NoRow
  <2>3. QED BY <2>1, <2>2
<1>3. \A row \in Row : row.points \in Int /\ row.scores \in Nat /\ row.flag \in BOOLEAN
  <2>1. ASSUME NEW row \in ProgressRow PROVE row.points \in Int /\ row.scores \in Nat /\ row.flag \in BOOLEAN
    BY DEF ProgressRow
  <2>2. NoRow.points \in Int /\ NoRow.scores \in Nat BY <1>1
  <2>a. NoRow.flag \in BOOLEAN BY DEF NoRow
  <2>3. QED BY <2>1, <2>2, <2>a DEF Row
<1>4. QED BY <1>1, <1>2, <1>3

(* The arithmetic of a reward stays in the integers. *)
LEMMA RewardTyped ==
    ASSUME NEW n \in Int, NEW d \in Int, NEW total \in Int, NEW row
    PROVE  /\ AddPoints(n, d) \in Int /\ Positive(d) \in Nat
           /\ row.points \in Int => Overflow(row, d, total) \in Nat /\ LandedPoints(row, d, total) \in Int
           /\ Delta(n, d) \in Int
<1>1. AddPoints(n, d) \in Int /\ Positive(d) \in Nat /\ Delta(n, d) \in Int BY DEF AddPoints, Positive, Delta, NoOld
<1>2. ASSUME row.points \in Int PROVE Overflow(row, d, total) \in Nat
  BY <1>2 DEF AddPoints, Overflow
<1>3. ASSUME row.points \in Int PROVE LandedPoints(row, d, total) \in Int
  <2> DEFINE over == Overflow(row, d, total)
  <2>1. over \in Nat BY <1>2, <1>3
  <2>2. LandedPoints(row, d, total) = IF over > 0 THEN Positive(d - over) ELSE d BY DEF LandedPoints
  <2> HIDE DEF over
  <2>3. QED BY <2>1, <2>2 DEF Positive
<1>4. QED BY <1>1, <1>2, <1>3

(* A record with these columns is a row that exists. *)
LEMMA IsRow ==
    ASSUME NEW p \in Int, NEW c \in BOOLEAN, NEW n \in Nat, NEW f \in BOOLEAN
    PROVE  [points |-> p, completed |-> c, scores |-> n, flag |-> f] \in ProgressRow
BY DEF ProgressRow

(* A reward of d points makes the lesson's row or moves its points, and leaves its stars alone. *)
LEMMA LessonRowIs ==
    ASSUME NEW row \in Row, NEW d \in Int, NEW passing, NEW total \in Int, NEW u, u = LessonRow(row, d, passing, total)
    PROVE  /\ u \in ProgressRow /\ u # NoRow /\ u.scores = row.scores /\ u.flag = row.flag
           /\ u.points = IF row = NoRow THEN Positive(d) ELSE AddPoints(row.points, d) - Overflow(row, d, total)
<1>1. \A p : LessonCompleted(p, passing, total) \in BOOLEAN BY DEF LessonCompleted
<1>2. CASE row = NoRow
  <2> DEFINE c == d >= 0 /\ LessonCompleted(d, passing, total)
             p == Positive(d)
  <2>1. u = [points |-> p, completed |-> c, scores |-> 0, flag |-> FALSE] BY <1>2 DEF LessonRow, NewLessonRow
  <2>2. p \in Int /\ c \in BOOLEAN BY RewardTyped
  <2>3. p = Positive(d) OBVIOUS
  <2> HIDE DEF c, p
  <2>4. u \in ProgressRow BY <2>1, <2>2, IsRow
  <2>6. u.scores = 0 /\ u.flag = NoRow.flag /\ u.points = p BY <2>1 DEF NoRow
  <2>5. QED BY <1>2, <2>3, <2>4, <2>6, RowFacts
<1>3. CASE row # NoRow
  <2> DEFINE p == AddPoints(row.points, d) - Overflow(row, d, total)
             c == LessonCompleted(p, passing, total)
  <2>1. row \in ProgressRow /\ row.points \in Int BY <1>3, RowFacts DEF Row
  <2>2. u = [row EXCEPT !.points = p, !.completed = c] BY <1>3 DEF LessonRow
  <2>3. p \in Int /\ c \in BOOLEAN BY <1>1, <2>1, RewardTyped
  <2>4. p = AddPoints(row.points, d) - Overflow(row, d, total) OBVIOUS
  <2> HIDE DEF c, p
  <2>5. u \in ProgressRow /\ u.scores = row.scores /\ u.flag = row.flag /\ u.points = p BY <2>1, <2>2, <2>3 DEF ProgressRow
  <2>6. QED BY <1>3, <2>4, <2>5, RowFacts
<1>4. QED BY <1>2, <1>3

(* The same for the row of a level or of the grade, which has no cap. *)
LEMMA TotalRowIs ==
    ASSUME NEW row \in Row, NEW d \in Int, NEW total, NEW u, u = TotalRow(row, d, total)
    PROVE  /\ u \in ProgressRow /\ u # NoRow /\ u.scores = row.scores /\ u.flag = row.flag
           /\ u.points = IF row = NoRow THEN Positive(d) ELSE AddPoints(row.points, d)
<1>1. \A p : percentCompleted(p) \in BOOLEAN BY DEF percentCompleted
<1>2. CASE row = NoRow
  <2> DEFINE c == d >= 0 /\ percentCompleted(progressPercent(d, total))
             p == Positive(d)
  <2>1. u = [points |-> p, completed |-> c, scores |-> 0, flag |-> FALSE] BY <1>2 DEF TotalRow
  <2>2. p \in Int /\ c \in BOOLEAN BY RewardTyped
  <2>3. p = Positive(d) OBVIOUS
  <2> HIDE DEF c, p
  <2>4. u \in ProgressRow BY <2>1, <2>2, IsRow
  <2>6. u.scores = 0 /\ u.flag = NoRow.flag /\ u.points = p BY <2>1 DEF NoRow
  <2>5. QED BY <1>2, <2>3, <2>4, <2>6, RowFacts
<1>3. CASE row # NoRow
  <2> DEFINE p == AddPoints(row.points, d)
             c == percentCompleted(progressPercent(p, total))
  <2>1. row \in ProgressRow /\ row.points \in Int BY <1>3, RowFacts DEF Row
  <2>2. u = [row EXCEPT !.points = p, !.completed = c] BY <1>3 DEF TotalRow
  <2>3. p \in Int /\ c \in BOOLEAN BY <1>1, <2>1, RewardTyped
  <2>4. p = AddPoints(row.points, d) OBVIOUS
  <2> HIDE DEF c, p
  <2>5. u \in ProgressRow /\ u.scores = row.scores /\ u.flag = row.flag /\ u.points = p BY <2>1, <2>2, <2>3 DEF ProgressRow
  <2>6. QED BY <1>3, <2>4, <2>5, RowFacts
<1>4. QED BY <1>2, <1>3

(* The stars that come with a lesson's points and with a level's quiz are one or none. *)
LEMMA BonusIs ==
    ASSUME NEW row, NEW total
    PROVE  /\ Bonus(row, total) \in {0, 1} /\ (Bonus(row, total) = 1 => row # NoRow /\ ~row.flag)
           /\ DefaultStar(row) \in {0, 1} /\ (DefaultStar(row) = 1 <=> row # NoRow /\ ~row.flag)
BY DEF Bonus, DefaultStar

(* Stars are added to a row that exists, and leave its points alone. *)
LEMMA StarredIs ==
    ASSUME NEW row \in Row, NEW n \in Nat, NEW u, u = Starred(row, n)
    PROVE  /\ u \in Row /\ (u = NoRow <=> row = NoRow) /\ u.points = row.points /\ u.flag = row.flag
           /\ u.scores = IF row = NoRow THEN row.scores ELSE row.scores + n
<1>1. CASE row = NoRow BY <1>1 DEF Starred
<1>2. CASE row # NoRow
  <2>1. row \in ProgressRow BY <1>2 DEF Row
  <2>2. u = [row EXCEPT !.scores = row.scores + n] BY <1>2 DEF Starred
  <2>3. u \in ProgressRow /\ u.points = row.points /\ u.flag = row.flag /\ u.scores = row.scores + n
    BY <2>1, <2>2 DEF ProgressRow
  <2>4. QED BY <1>2, <2>3, RowFacts DEF Row
<1>3. QED BY <1>1, <1>2

(* A lesson's row also notes that it has given its bonus. *)
LEMMA StarredLessonIs ==
    ASSUME NEW row \in Row, NEW n \in Nat, NEW total, NEW u, u = StarredLesson(row, n, total)
    PROVE  /\ u \in Row /\ (u = NoRow <=> row = NoRow) /\ u.points = row.points
           /\ u.scores = IF row = NoRow THEN row.scores ELSE row.scores + n + Bonus(row, total)
           /\ Once(u) = Once(row) + Bonus(row, total)
<1>1. CASE row = NoRow
  <2>1. u = NoRow /\ Bonus(row, total) = 0 BY <1>1 DEF StarredLesson, Bonus
  <2>2. QED BY <1>1, <2>1, RowFacts DEF Once, Row
<1>2. CASE row # NoRow
  <2> DEFINE b == Bonus(row, total)
  <2>1. row \in ProgressRow BY <1>2 DEF Row
  <2> DEFINE x == row.scores + n + b
  <2>2. PICK f \in BOOLEAN : f <=> (row.flag \/ b = 1) OBVIOUS
  <2>3. u = [row EXCEPT !.scores = x, !.flag = f] BY <1>2, <2>2 DEF StarredLesson
  <2>4. b \in {0, 1} /\ (b = 1 => ~row.flag) BY BonusIs
  <2> HIDE DEF b
  <2>5. row.scores \in Nat /\ x \in Nat
    <3>1. row.scores \in Nat BY RowFacts
    <3>2. b \in Nat BY <2>4
    <3>3. QED BY <3>1, <3>2
  <2> HIDE DEF x
  <2>6. u \in ProgressRow /\ u.points = row.points /\ u.scores = x /\ u.flag = f BY <2>1, <2>2, <2>3, <2>5 DEF ProgressRow
  <2>7. Once(u) = Once(row) + b BY <2>2, <2>4, <2>6 DEF Once
  <2>8. QED BY <1>2, <2>6, <2>7, RowFacts DEF Row, b, x
<1>3. QED BY <1>1, <1>2

(* A level's row notes that it has given its default star. *)
LEMMA StarredLevelIs ==
    ASSUME NEW row \in Row, NEW n \in Nat, NEW u, u = StarredLevel(row, n)
    PROVE  /\ u \in Row /\ (u = NoRow <=> row = NoRow) /\ u.points = row.points
           /\ u.scores = IF row = NoRow THEN row.scores ELSE row.scores + n + DefaultStar(row)
           /\ Once(u) = Once(row) + DefaultStar(row)
<1>1. CASE row = NoRow
  <2>1. u = NoRow /\ DefaultStar(row) = 0 BY <1>1 DEF StarredLevel, DefaultStar
  <2>2. QED BY <1>1, <2>1, RowFacts DEF Once, Row
<1>2. CASE row # NoRow
  <2> DEFINE b == DefaultStar(row)
  <2>1. row \in ProgressRow BY <1>2 DEF Row
  <2> DEFINE x == row.scores + n + b
  <2>2. PICK f \in BOOLEAN : f <=> (TRUE) OBVIOUS
  <2>3. u = [row EXCEPT !.scores = x, !.flag = f] BY <1>2, <2>2 DEF StarredLevel
  <2>4. b \in {0, 1} /\ (b = 1 <=> ~row.flag) BY <1>2, BonusIs
  <2> HIDE DEF b
  <2>5. row.scores \in Nat /\ x \in Nat
    <3>1. row.scores \in Nat BY RowFacts
    <3>2. b \in Nat BY <2>4
    <3>3. QED BY <3>1, <3>2
  <2> HIDE DEF x
  <2>6. u \in ProgressRow /\ u.points = row.points /\ u.scores = x /\ u.flag = f BY <2>1, <2>2, <2>3, <2>5 DEF ProgressRow
  <2>7. Once(u) = Once(row) + b BY <2>2, <2>4, <2>6 DEF Once
  <2>8. QED BY <1>2, <2>6, <2>7, RowFacts DEF Row, b, x
<1>3. QED BY <1>1, <1>2

-----------------------------------------------------------------------------
(* The rows of lesson, level and grade together. *)

Totals == [lesson : [Lessons -> Row], level : [Levels -> Row], grade : Row]

(* What the constants' types give for one activity. *)
LEMMA Places ==
    /\ \A a \in Activities \ Levels : LessonOf[a] \in Lessons /\ LevelOf[LessonOf[a]] \in Levels
    /\ \A l \in Lessons : LevelOf[l] \in Levels /\ TotalPoints[l] \in Nat /\ TotalPoints[l] > 0
    /\ Learnings \cap Levels = {} /\ Learnings \cap (Practices \cup Quizzes) = {}
<1>1. ASSUME NEW a \in Activities \ Levels PROVE LessonOf[a] \in Lessons /\ LevelOf[LessonOf[a]] \in Levels
  <2>1. a \in Learnings \cup Practices \cup Quizzes BY DEF Activities, Attempted
  <2>2. QED BY <2>1, ProgressAssumption
<1>2. ASSUME NEW l \in Lessons PROVE LevelOf[l] \in Levels /\ TotalPoints[l] \in Nat /\ TotalPoints[l] > 0
  BY ProgressAssumption
<1>3. Learnings \cap Levels = {} /\ Learnings \cap (Practices \cup Quizzes) = {}
  BY ProgressAssumption DEF Attempted
<1>4. QED BY <1>1, <1>2, <1>3

(* The rows that a reward leaves: they exist, and their stars are what they were. *)
Kept(row, new) == new.scores = row.scores /\ Once(new) = Once(row) /\ (row # NoRow => new # NoRow)

(* A reward keeps the stars of every row, and makes the rows above its activity. *)
LEMMA RewardedIs ==
    ASSUME NEW t \in Totals, NEW a \in Activities, NEW new \in Nat, NEW old \in Nat \cup {NoOld},
           NEW u, u = Rewarded(t, a, new, old)
    PROVE  /\ u \in Totals
           /\ \A l \in Lessons : Kept(t.lesson[l], u.lesson[l])
           /\ \A v \in Levels : Kept(t.level[v], u.level[v])
           /\ Kept(t.grade, u.grade)
           /\ a \notin Levels => /\ u.lesson[LessonOf[a]] # NoRow /\ u.level[LevelOf[LessonOf[a]]] # NoRow
                               /\ \A l \in Lessons : l # LessonOf[a] => u.lesson[l] = t.lesson[l]
                               /\ \A v \in Levels : v # LevelOf[LessonOf[a]] => u.level[v] = t.level[v]
           /\ a \in Levels => /\ u.level[a] # NoRow /\ u.lesson = t.lesson
                              /\ \A v \in Levels : v # a => u.level[v] = t.level[v]
           /\ u.grade # NoRow
<1> DEFINE d == Delta(new, old)
<1>1. d \in Int
  <2>1. new \in Int /\ old \in Int BY DEF NoOld
  <2>2. QED BY <2>1, RewardTyped
<1>2. t.lesson \in [Lessons -> Row] /\ t.level \in [Levels -> Row] /\ t.grade \in Row BY DEF Totals
<1>3. \A row : Kept(row, row) BY DEF Kept
<1>4. ASSUME a \notin Levels PROVE
           /\ u \in Totals
           /\ \A l \in Lessons : Kept(t.lesson[l], u.lesson[l])
           /\ \A v \in Levels : Kept(t.level[v], u.level[v])
           /\ Kept(t.grade, u.grade)
           /\ u.lesson[LessonOf[a]] # NoRow /\ u.level[LevelOf[LessonOf[a]]] # NoRow /\ u.grade # NoRow
           /\ \A l \in Lessons : l # LessonOf[a] => u.lesson[l] = t.lesson[l]
           /\ \A v \in Levels : v # LevelOf[LessonOf[a]] => u.level[v] = t.level[v]
  <2> DEFINE l0 == LessonOf[a]
             v0 == LevelOf[l0]
             landed == LandedPoints(t.lesson[l0], d, TotalPoints[l0])
             x == LessonRow(t.lesson[l0], d, PassingPoints[l0], TotalPoints[l0])
             y == TotalRow(t.level[v0], landed, LevelPoints[v0])
             z == TotalRow(t.grade, landed, GradePoints)
  <2>1. l0 \in Lessons /\ v0 \in Levels /\ TotalPoints[l0] \in Int BY <1>4, Places
  <2>2. t.lesson[l0] \in Row /\ t.level[v0] \in Row /\ t.lesson[l0].points \in Int BY <1>2, <2>1, RowFacts
  <2>3. landed \in Int BY <1>1, <2>1, <2>2, RewardTyped
  <2>4. u = [lesson |-> [t.lesson EXCEPT ![l0] = x], level |-> [t.level EXCEPT ![v0] = y], grade |-> z]
    BY <1>4 DEF Rewarded, updateUserReward
  <2> HIDE DEF l0, v0, d
  <2>5. x \in ProgressRow /\ x # NoRow /\ x.scores = t.lesson[l0].scores /\ x.flag = t.lesson[l0].flag
    BY <1>1, <2>1, <2>2, LessonRowIs
  <2> HIDE DEF landed
  <2>6. y \in ProgressRow /\ y # NoRow /\ y.scores = t.level[v0].scores /\ y.flag = t.level[v0].flag
    BY <2>2, <2>3, TotalRowIs
  <2>7. z \in ProgressRow /\ z # NoRow /\ z.scores = t.grade.scores /\ z.flag = t.grade.flag
    BY <1>2, <2>3, TotalRowIs
  <2> HIDE DEF x, y, z
  <2>8. Kept(t.lesson[l0], x) /\ Kept(t.level[v0], y) /\ Kept(t.grade, z) BY <2>5, <2>6, <2>7 DEF Kept, Once
  <2>9. u.lesson = [t.lesson EXCEPT ![l0] = x] /\ u.level = [t.level EXCEPT ![v0] = y] /\ u.grade = z BY <2>4
  <2>10. u.lesson \in [Lessons -> Row] /\ u.level \in [Levels -> Row] /\ u.grade \in Row
    BY <1>2, <2>5, <2>6, <2>7, <2>9 DEF Row
  <2>11. u \in Totals BY <2>4, <2>9, <2>10 DEF Totals
  <2>12. /\ \A l \in Lessons : u.lesson[l] = IF l = l0 THEN x ELSE t.lesson[l]
         /\ \A v \in Levels : u.level[v] = IF v = v0 THEN y ELSE t.level[v]
    BY <1>2, <2>9
  <2>13. QED BY <1>3, <2>1, <2>5, <2>6, <2>7, <2>8, <2>9, <2>11, <2>12 DEF l0, v0
<1>5. ASSUME a \in Levels PROVE
           /\ u \in Totals
           /\ \A l \in Lessons : Kept(t.lesson[l], u.lesson[l])
           /\ \A v \in Levels : Kept(t.level[v], u.level[v])
           /\ Kept(t.grade, u.grade)
           /\ u.level[a] # NoRow /\ u.grade # NoRow /\ u.lesson = t.lesson
           /\ \A v \in Levels : v # a => u.level[v] = t.level[v]
  <2> DEFINE y == TotalRow(t.level[a], d, LevelPoints[a])
             z == TotalRow(t.grade, d, GradePoints)
  <2>1. u = [t EXCEPT !.level = [t.level EXCEPT ![a] = y], !.grade = z]
    BY <1>5 DEF Rewarded, updateLevelQuizReward
  <2>2. t.level[a] \in Row BY <1>2, <1>5
  <2> HIDE DEF d
  <2>6. y \in ProgressRow /\ y # NoRow /\ y.scores = t.level[a].scores /\ y.flag = t.level[a].flag
    BY <1>1, <2>2, TotalRowIs
  <2>7. z \in ProgressRow /\ z # NoRow /\ z.scores = t.grade.scores /\ z.flag = t.grade.flag
    BY <1>1, <1>2, TotalRowIs
  <2> HIDE DEF y, z
  <2>8. Kept(t.level[a], y) /\ Kept(t.grade, z) BY <2>6, <2>7 DEF Kept, Once
  <2>9. u.lesson = t.lesson /\ u.level = [t.level EXCEPT ![a] = y] /\ u.grade = z /\ DOMAIN u = DOMAIN t
    BY <2>1 DEF Totals
  <2>10. u.level \in [Levels -> Row] /\ u.grade \in Row BY <1>2, <2>6, <2>7, <2>9 DEF Row
  <2>11. u \in Totals BY <2>1, <2>9, <2>10 DEF Totals
  <2>12. \A v \in Levels : u.level[v] = IF v = a THEN y ELSE t.level[v] BY <1>2, <2>9
  <2>13. QED BY <1>3, <1>5, <2>6, <2>7, <2>8, <2>9, <2>11, <2>12
<1>6. QED BY <1>4, <1>5

(* Rows that hold the same points, and are there as before. *)
Scorelike(row, new) == new.points = row.points /\ (new = NoRow <=> row = NoRow)

(* addstudentscores: the lesson, its level and the grade get the stars and the bonus, where they have rows. *)
LessonStarred(t, l0, n, u) ==
           LET b  == Bonus(t.lesson[l0], TotalPoints[l0])
               v0 == LevelOf[l0]
           IN  /\ u \in Totals /\ b \in Nat
               /\ \A l \in Lessons : Scorelike(t.lesson[l], u.lesson[l])
               /\ \A l \in Lessons : l # l0 => u.lesson[l] = t.lesson[l]
               /\ \A v \in Levels : Scorelike(t.level[v], u.level[v])
               /\ \A v \in Levels : v # v0 => u.level[v] = t.level[v]
               /\ Scorelike(t.grade, u.grade)
               /\ Once(u.lesson[l0]) = Once(t.lesson[l0]) + b /\ Once(u.level[v0]) = Once(t.level[v0])
               /\ t.lesson[l0] # NoRow => u.lesson[l0].scores = t.lesson[l0].scores + n + b
               /\ t.level[v0] # NoRow => u.level[v0].scores = t.level[v0].scores + n + b
               /\ t.grade # NoRow => u.grade.scores = t.grade.scores + n + b
               /\ t.lesson[l0] = NoRow => b = 0 /\ u.lesson[l0] = t.lesson[l0]
               /\ n + b = 0 => u.level[v0].scores = t.level[v0].scores /\ u.grade.scores = t.grade.scores

(* addstudentscores moves the stars of the lesson, its level and the grade alike. *)
LEMMA LessonStarsAre ==
    ASSUME NEW t \in Totals, NEW l0 \in Lessons, NEW n \in Nat, NEW u, u = addstudentscores(t, l0, n)
    PROVE  LessonStarred(t, l0, n, u)
<1> DEFINE b == Bonus(t.lesson[l0], TotalPoints[l0])
           v0 == LevelOf[l0]
           x == StarredLesson(t.lesson[l0], n, TotalPoints[l0])
           y == Starred(t.level[v0], n + b)
           z == Starred(t.grade, n + b)
<1>1. v0 \in Levels BY Places
<1>2. t.lesson \in [Lessons -> Row] /\ t.level \in [Levels -> Row] /\ t.grade \in Row BY DEF Totals
<1>3. t.lesson[l0] \in Row /\ t.level[v0] \in Row BY <1>1, <1>2
<1>4. b \in {0, 1} /\ (b = 1 => t.lesson[l0] # NoRow) BY BonusIs
<1>5. b \in Nat /\ n + b \in Nat
  <2> HIDE DEF b
  <2>1. QED BY <1>4
<1>6. u = [t EXCEPT !.lesson = [t.lesson EXCEPT ![l0] = x], !.level = [t.level EXCEPT ![v0] = y], !.grade = z]
  BY DEF addstudentscores
<1>7. /\ x \in Row /\ Scorelike(t.lesson[l0], x) /\ Once(x) = Once(t.lesson[l0]) + b
      /\ x.scores = IF t.lesson[l0] = NoRow THEN t.lesson[l0].scores ELSE t.lesson[l0].scores + n + b
      /\ t.lesson[l0] = NoRow => x = t.lesson[l0]
  BY <1>3, StarredLessonIs DEF Scorelike
<1> HIDE DEF b, v0, x
<1>8. /\ y \in Row /\ Scorelike(t.level[v0], y) /\ Once(y) = Once(t.level[v0])
      /\ y.scores = IF t.level[v0] = NoRow THEN t.level[v0].scores ELSE t.level[v0].scores + (n + b)
  <2> DEFINE row == t.level[v0]
             m == n + b
  <2>1. row \in Row /\ m \in Nat /\ y = Starred(row, m) BY <1>3, <1>5
  <2> HIDE DEF row, m, y
  <2>2. /\ y \in Row /\ (y = NoRow <=> row = NoRow) /\ y.points = row.points /\ y.flag = row.flag
        /\ y.scores = IF row = NoRow THEN row.scores ELSE row.scores + m
    BY <2>1, StarredIs
  <2>3. y \in Row /\ Scorelike(row, y) /\ Once(y) = Once(row) BY <2>2 DEF Scorelike, Once
  <2>4. QED BY <2>2, <2>3 DEF row, m
<1>9. /\ z \in Row /\ Scorelike(t.grade, z)
      /\ z.scores = IF t.grade = NoRow THEN t.grade.scores ELSE t.grade.scores + (n + b)
  <2> DEFINE row == t.grade
             m == n + b
  <2>1. row \in Row /\ m \in Nat /\ z = Starred(row, m) BY <1>2, <1>5
  <2> HIDE DEF row, m, z
  <2>2. /\ z \in Row /\ (z = NoRow <=> row = NoRow) /\ z.points = row.points /\ z.flag = row.flag
        /\ z.scores = IF row = NoRow THEN row.scores ELSE row.scores + m
    BY <2>1, StarredIs
  <2>3. z \in Row /\ Scorelike(row, z) BY <2>2 DEF Scorelike
  <2>4. QED BY <2>2, <2>3 DEF row, m
<1> HIDE DEF y, z
<1>10. u.lesson = [t.lesson EXCEPT ![l0] = x] /\ u.level = [t.level EXCEPT ![v0] = y] /\ u.grade = z /\ DOMAIN u = DOMAIN t
  BY <1>6 DEF Totals
<1>11. u.lesson \in [Lessons -> Row] /\ u.level \in [Levels -> Row] /\ u.grade \in Row
  BY <1>2, <1>7, <1>8, <1>9, <1>10
<1>12. u \in Totals BY <1>6, <1>10, <1>11 DEF Totals
<1>13. /\ \A l \in Lessons : u.lesson[l] = IF l = l0 THEN x ELSE t.lesson[l]
       /\ \A v \in Levels : u.level[v] = IF v = v0 THEN y ELSE t.level[v]
  BY <1>2, <1>10
<1>14. \A row : Scorelike(row, row) BY DEF Scorelike
<1>15. /\ \A l \in Lessons : Scorelike(t.lesson[l], u.lesson[l])
       /\ \A l \in Lessons : l # l0 => u.lesson[l] = t.lesson[l]
       /\ \A v \in Levels : Scorelike(t.level[v], u.level[v])
       /\ \A v \in Levels : v # v0 => u.level[v] = t.level[v]
       /\ Scorelike(t.grade, u.grade)
  BY <1>7, <1>8, <1>9, <1>10, <1>13, <1>14
<1>16. u.lesson[l0] = x /\ u.level[v0] = y /\ u.grade = z BY <1>1, <1>10, <1>13
<1>17. t.level[v0].scores \in Nat /\ t.grade.scores \in Nat /\ t.lesson[l0].scores \in Nat BY <1>2, <1>3, RowFacts
<1>18. /\ t.level[v0] # NoRow => y.scores = t.level[v0].scores + n + b
       /\ t.grade # NoRow => z.scores = t.grade.scores + n + b
       /\ n + b = 0 => y.scores = t.level[v0].scores /\ z.scores = t.grade.scores
  BY <1>5, <1>8, <1>9, <1>17
<1>19. t.lesson[l0] = NoRow => b = 0 BY <1>4
<1>20. /\ u \in Totals /\ b \in Nat
       /\ Once(u.lesson[l0]) = Once(t.lesson[l0]) + b /\ Once(u.level[v0]) = Once(t.level[v0])
       /\ t.lesson[l0] # NoRow => u.lesson[l0].scores = t.lesson[l0].scores + n + b
       /\ t.level[v0] # NoRow => u.level[v0].scores = t.level[v0].scores + n + b
       /\ t.grade # NoRow => u.grade.scores = t.grade.scores + n + b
       /\ t.lesson[l0] = NoRow => b = 0 /\ u.lesson[l0] = t.lesson[l0]
       /\ n + b = 0 => u.level[v0].scores = t.level[v0].scores /\ u.grade.scores = t.grade.scores
  BY <1>5, <1>7, <1>8, <1>12, <1>16, <1>18, <1>19
<1>21. QED BY <1>15, <1>20 DEF b, v0, LessonStarred

(* addstudentlevelquizscores: the level and the grade get the stars and the default star. *)
LevelStarred(t, v0, n, u) ==
           LET b == DefaultStar(t.level[v0])
           IN  /\ u \in Totals /\ b \in Nat
               /\ \A l \in Lessons : Scorelike(t.lesson[l], u.lesson[l]) /\ u.lesson[l] = t.lesson[l]
               /\ \A v \in Levels : Scorelike(t.level[v], u.level[v])
               /\ \A v \in Levels : v # v0 => u.level[v] = t.level[v]
               /\ Scorelike(t.grade, u.grade)
               /\ Once(u.level[v0]) = Once(t.level[v0]) + b
               /\ t.level[v0] # NoRow => u.level[v0].scores = t.level[v0].scores + n + b
               /\ t.grade # NoRow => u.grade.scores = t.grade.scores + n + b

(* addstudentlevelquizscores moves the stars of the level and the grade alike. *)
LEMMA LevelStarsAre ==
    ASSUME NEW t \in Totals, NEW v0 \in Levels, NEW n \in Nat, NEW u, u = addstudentlevelquizscores(t, v0, n)
    PROVE  LevelStarred(t, v0, n, u)
<1> DEFINE b == DefaultStar(t.level[v0])
           y == StarredLevel(t.level[v0], n)
           z == Starred(t.grade, n + b)
<1>1. t.lesson \in [Lessons -> Row] /\ t.level \in [Levels -> Row] /\ t.grade \in Row BY DEF Totals
<1>2. t.level[v0] \in Row BY <1>1
<1>3. b \in {0, 1} BY BonusIs
<1>4. b \in Nat /\ n + b \in Nat
  <2> HIDE DEF b
  <2>1. QED BY <1>3
<1>5. u = [t EXCEPT !.level = [t.level EXCEPT ![v0] = y], !.grade = z] BY DEF addstudentlevelquizscores
<1>6. /\ y \in Row /\ Scorelike(t.level[v0], y) /\ Once(y) = Once(t.level[v0]) + b
      /\ y.scores = IF t.level[v0] = NoRow THEN t.level[v0].scores ELSE t.level[v0].scores + n + b
  BY <1>2, StarredLevelIs DEF Scorelike
<1> HIDE DEF b, y
<1>7. /\ z \in Row /\ Scorelike(t.grade, z)
      /\ z.scores = IF t.grade = NoRow THEN t.grade.scores ELSE t.grade.scores + (n + b)
  BY <1>1, <1>4, StarredIs DEF Scorelike
<1> HIDE DEF z
<1>8. u.lesson = t.lesson /\ u.level = [t.level EXCEPT ![v0] = y] /\ u.grade = z /\ DOMAIN u = DOMAIN t
  BY <1>5 DEF Totals
<1>9. u.level \in [Levels -> Row] /\ u.grade \in Row BY <1>1, <1>6, <1>7, <1>8
<1>10. u \in Totals BY <1>5, <1>8, <1>9 DEF Totals
<1>11. \A v \in Levels : u.level[v] = IF v = v0 THEN y ELSE t.level[v] BY <1>1, <1>8
<1>12. \A row : Scorelike(row, row) BY DEF Scorelike
<1>13. /\ \A l \in Lessons : Scorelike(t.lesson[l], u.lesson[l]) /\ u.lesson[l] = t.lesson[l]
       /\ \A v \in Levels : Scorelike(t.level[v], u.level[v])
       /\ \A v \in Levels : v # v0 => u.level[v] = t.level[v]
       /\ Scorelike(t.grade, u.grade)
  BY <1>6, <1>7, <1>8, <1>11, <1>12
<1>14. t.grade.scores \in Nat BY <1>1, RowFacts
<1>15. t.grade # NoRow => z.scores = t.grade.scores + n + b BY <1>4, <1>7, <1>14
<1>16. u.level[v0] = y /\ u.grade = z BY <1>8, <1>11
<1>17. QED BY <1>4, <1>6, <1>10, <1>13, <1>15, <1>16 DEF b, LevelStarred

-----------------------------------------------------------------------------
(* Points. *)

(* A reward that stays between nothing and the lesson's total is what the lesson, the level and the grade get. *)
LEMMA RewardFits ==
    ASSUME NEW row \in Row, NEW d \in Int, NEW passing, NEW total \in Int, 0 <= row.points + d
    PROVE  /\ TotalRow(row, d, total).points = row.points + d
           /\ row.points + d <= total => /\ LessonRow(row, d, passing, total).points = row.points + d
                                         /\ LandedPoints(row, d, total) = d
<1>1. row.points \in Int /\ (row = NoRow => row.points = 0) BY RowFacts
<1>2. TotalRow(row, d, total).points = IF row = NoRow THEN Positive(d) ELSE AddPoints(row.points, d) BY TotalRowIs
<1>3. LessonRow(row, d, passing, total).points
        = IF row = NoRow THEN Positive(d) ELSE AddPoints(row.points, d) - Overflow(row, d, total)
  BY LessonRowIs
<1>4. row.points + d <= total => Overflow(row, d, total) = 0 BY <1>1 DEF Overflow, AddPoints
<1>5. row.points + d <= total => LandedPoints(row, d, total) = d BY <1>4 DEF LandedPoints
<1>6. row = NoRow => Positive(d) = row.points + d BY <1>1 DEF Positive
<1>7. row # NoRow => AddPoints(row.points, d) = row.points + d BY <1>1 DEF AddPoints
<1>8. QED BY <1>1, <1>2, <1>3, <1>4, <1>5, <1>6, <1>7

(* What lessons, levels and grade hold (p...) is hl in the lessons, hv in the level quizzes, and their sums above. *)
Even(pl, pv, pg, hl, hv) ==
    /\ \A l \in Lessons : pl[l] = hl[l]
    /\ \A v \in Levels : pv[v] = SumFunctionOnSet(pl, LessonsOf(v)) + hv[v]
    /\ pg = SumFunctionOnSet(pv, Levels)

(* The levels are finitely many, like the lessons of each. *)
LEMMA FewOfEach ==
    /\ IsFiniteSet(Levels) /\ IsFiniteSet(Lessons)
    /\ \A v \in Levels : IsFiniteSet(LessonsOf(v)) /\ LessonsOf(v) \subseteq Lessons
    /\ \A l \in Lessons : l \in LessonsOf(LevelOf[l])
<1>1. Levels \subseteq Activities BY DEF Activities, Attempted
<1>2. \A v \in Levels : LessonsOf(v) \subseteq Lessons BY DEF LessonsOf
<1>3. QED BY <1>1, <1>2, FS_Subset, ProgressAssumption DEF LessonsOf

(* The books stay even when every lesson, level and the grade hold what they held. *)
LEMMA NothingMoves ==
    ASSUME NEW pl, NEW pv, NEW pg, NEW hl, NEW hv, Even(pl, pv, pg, hl, hv),
           NEW ql, NEW qv, NEW qg, NEW kl, NEW kv,
           \A l \in Lessons : ql[l] = pl[l] /\ kl[l] = hl[l],
           \A v \in Levels : qv[v] = pv[v] /\ kv[v] = hv[v],
           qg = pg
    PROVE  Even(ql, qv, qg, kl, kv)
<1>1. \A v \in Levels : SumFunctionOnSet(ql, LessonsOf(v)) = SumFunctionOnSet(pl, LessonsOf(v))
  <2>1. ASSUME NEW v \in Levels PROVE SumFunctionOnSet(ql, LessonsOf(v)) = SumFunctionOnSet(pl, LessonsOf(v))
    <3>1. IsFiniteSet(LessonsOf(v)) /\ \A l \in LessonsOf(v) : ql[l] = pl[l] BY FewOfEach
    <3>2. QED BY <3>1, SumSame
  <2>2. QED BY <2>1
<1>2. SumFunctionOnSet(qv, Levels) = SumFunctionOnSet(pv, Levels) BY FewOfEach, SumSame
<1>3. QED BY <1>1, <1>2 DEF Even

(* They stay even when one lesson moves by d, and its level and the grade with it. *)
LEMMA LessonMoves ==
    ASSUME NEW pl, NEW pv, NEW pg, NEW hl, NEW hv, Even(pl, pv, pg, hl, hv),
           NEW ql, NEW qv, NEW qg, NEW kl, NEW kv, NEW l0 \in Lessons, NEW d \in Int,
           \A l \in Lessons : pl[l] \in Int /\ ql[l] = (IF l = l0 THEN pl[l] + d ELSE pl[l]),
           \A l \in Lessons : kl[l] = IF l = l0 THEN hl[l] + d ELSE hl[l],
           \A v \in Levels : pv[v] \in Int /\ qv[v] = (IF v = LevelOf[l0] THEN pv[v] + d ELSE pv[v]),
           \A v \in Levels : hv[v] \in Int /\ kv[v] = hv[v],
           qg = pg + d
    PROVE  Even(ql, qv, qg, kl, kv)
<1> DEFINE v0 == LevelOf[l0]
<1>1. v0 \in Levels BY Places
<1>2. \A l \in Lessons : ql[l] = kl[l]
  <2>1. \A l \in Lessons : pl[l] = hl[l] BY DEF Even
  <2>2. QED BY <2>1
<1>3. ASSUME NEW v \in Levels PROVE qv[v] = SumFunctionOnSet(ql, LessonsOf(v)) + kv[v]
  <2>1. pv[v] = SumFunctionOnSet(pl, LessonsOf(v)) + hv[v] BY DEF Even
  <2>2. IsFiniteSet(LessonsOf(v)) /\ \A l \in LessonsOf(v) : pl[l] \in Int /\ ql[l] \in Int BY FewOfEach
  <2>3. SumFunctionOnSet(pl, LessonsOf(v)) \in Int BY <2>2, SumTyped
  <2>4. CASE v = v0
    <3>1. l0 \in LessonsOf(v) BY <2>4, FewOfEach
    <3>2. \A l \in LessonsOf(v) \ {l0} : ql[l] = pl[l] BY FewOfEach
    <3>3. ql[l0] - pl[l0] = d OBVIOUS
    <3>4. SumFunctionOnSet(ql, LessonsOf(v)) = SumFunctionOnSet(pl, LessonsOf(v)) + d
      BY <2>2, <3>1, <3>2, <3>3, SumChange
    <3>5. QED BY <2>1, <2>3, <2>4, <3>4
  <2>5. CASE v # v0
    <3>1. \A l \in LessonsOf(v) : l # l0 BY <2>5 DEF LessonsOf
    <3>2. \A l \in LessonsOf(v) : pl[l] = ql[l] BY <3>1, FewOfEach
    <3>3. SumFunctionOnSet(ql, LessonsOf(v)) = SumFunctionOnSet(pl, LessonsOf(v)) BY <2>2, <3>2, SumSame
    <3>4. QED BY <2>1, <2>5, <3>3
  <2>6. QED BY <2>4, <2>5
<1>4. qg = SumFunctionOnSet(qv, Levels)
  <2>1. pg = SumFunctionOnSet(pv, Levels) BY DEF Even
  <2>2. \A v \in Levels \ {v0} : qv[v] = pv[v] OBVIOUS
  <2>3. qv[v0] - pv[v0] = d BY <1>1
  <2>4. \A v \in Levels : pv[v] \in Int /\ qv[v] \in Int OBVIOUS
  <2> HIDE DEF v0
  <2>5. SumFunctionOnSet(qv, Levels) = SumFunctionOnSet(pv, Levels) + d
    BY <1>1, <2>2, <2>3, <2>4, FewOfEach, SumChange
  <2>6. QED BY <2>1, <2>5
<1>5. QED BY <1>2, <1>3, <1>4 DEF Even

(* They stay even when a level's quiz moves by d, which moves no lesson. *)
LEMMA LevelMoves ==
    ASSUME NEW pl, NEW pv, NEW pg, NEW hl, NEW hv, Even(pl, pv, pg, hl, hv),
           NEW ql, NEW qv, NEW qg, NEW kl, NEW kv, NEW v0 \in Levels, NEW d \in Int,
           \A l \in Lessons : pl[l] \in Int /\ ql[l] = pl[l] /\ kl[l] = hl[l],
           \A v \in Levels : pv[v] \in Int /\ qv[v] = (IF v = v0 THEN pv[v] + d ELSE pv[v]),
           \A v \in Levels : hv[v] \in Int /\ kv[v] = (IF v = v0 THEN hv[v] + d ELSE hv[v]),
           qg = pg + d
    PROVE  Even(ql, qv, qg, kl, kv)
<1>1. \A l \in Lessons : ql[l] = kl[l] BY DEF Even
<1>2. ASSUME NEW v \in Levels PROVE qv[v] = SumFunctionOnSet(ql, LessonsOf(v)) + kv[v]
  <2>1. pv[v] = SumFunctionOnSet(pl, LessonsOf(v)) + hv[v] BY DEF Even
  <2>2. IsFiniteSet(LessonsOf(v)) /\ \A l \in LessonsOf(v) : pl[l] \in Int /\ ql[l] = pl[l] BY FewOfEach
  <2>3. SumFunctionOnSet(pl, LessonsOf(v)) \in Int /\ SumFunctionOnSet(ql, LessonsOf(v)) = SumFunctionOnSet(pl, LessonsOf(v))
    BY <2>2, SumTyped, SumSame
  <2>4. QED BY <2>1, <2>3
<1>3. qg = SumFunctionOnSet(qv, Levels)
  <2>1. pg = SumFunctionOnSet(pv, Levels) BY DEF Even
  <2>2. \A v \in Levels \ {v0} : qv[v] = pv[v] OBVIOUS
  <2>3. qv[v0] - pv[v0] = d OBVIOUS
  <2>4. \A v \in Levels : pv[v] \in Int /\ qv[v] \in Int OBVIOUS
  <2>5. SumFunctionOnSet(qv, Levels) = SumFunctionOnSet(pv, Levels) + d
    BY <2>2, <2>3, <2>4, FewOfEach, SumChange
  <2>6. QED BY <2>1, <2>5
<1>4. QED BY <1>1, <1>2, <1>3 DEF Even

-----------------------------------------------------------------------------
(* Attempts. *)

(* Finitely many rows, no two of one start time: the unique key of the table. *)
Distinct(rs) == IsFiniteSet(rs) /\ \A r, s \in rs : r.start = s.start => r = s

(* The newest row is the one that no other follows, the oldest the one that no other precedes. *)
LEMMA NewestIs ==
    ASSUME NEW rs, rs \subseteq Attempt, Distinct(rs), rs # {}
    PROVE  /\ Newest(rs) \in rs
           /\ \A s \in rs : s.start <= Newest(rs).start
           /\ \A x \in rs : (\A s \in rs : s.start <= x.start) => Newest(rs) = x
<1> DEFINE f == [r \in rs |-> r.start]
<1>1. \A r \in rs : r.start \in Nat BY DEF Attempt
<1>2. \E x \in rs : \A s \in rs : s.start <= x.start
  <2>1. \A r \in rs : f[r] \in Int BY <1>1
  <2> HIDE DEF f
  <2>2. \E x \in rs : \A s \in rs : f[s] <= f[x] BY <2>1, LargestIsThere DEF Distinct
  <2>3. QED BY <2>2 DEF f
<1>3. Newest(rs) \in rs /\ \A s \in rs : s.start <= Newest(rs).start BY <1>2 DEF Newest
<1>4. ASSUME NEW x \in rs, \A s \in rs : s.start <= x.start PROVE Newest(rs) = x
  <2> DEFINE n == Newest(rs)
  <2>1. n.start <= x.start /\ x.start <= n.start BY <1>3, <1>4
  <2>2. n.start \in Nat /\ x.start \in Nat BY <1>1, <1>3
  <2>3. n.start = x.start
    <3> HIDE DEF n
    <3>1. QED BY <2>1, <2>2
  <2>4. QED BY <1>3, <2>3 DEF Distinct
<1>5. QED BY <1>3, <1>4

(* Rows of distinct start times have an oldest. *)
LEMMA OldestIs ==
    ASSUME NEW rs, rs \subseteq Attempt, Distinct(rs), rs # {}
    PROVE  Oldest(rs) \in rs /\ \A s \in rs : Oldest(rs).start <= s.start
<1> DEFINE f == [r \in rs |-> 0 - r.start]
<1>1. \A r \in rs : r.start \in Nat BY DEF Attempt
<1>2. \E x \in rs : \A s \in rs : s.start >= x.start
  <2>1. \A r \in rs : f[r] \in Int BY <1>1
  <2>2. \E x \in rs : \A s \in rs : f[s] <= f[x]
    <3> HIDE DEF f
    <3>1. QED BY <2>1, LargestIsThere DEF Distinct
  <2>3. PICK x \in rs : \A s \in rs : f[s] <= f[x] BY <2>2
  <2>4. ASSUME NEW s \in rs PROVE s.start >= x.start
    <3>1. 0 - s.start <= 0 - x.start BY <2>3
    <3>2. s.start \in Nat /\ x.start \in Nat BY <1>1
    <3>3. QED BY <3>1, <3>2
  <2>5. QED BY <2>4
<1>3. Oldest(rs) \in rs /\ \A s \in rs : s.start >= Oldest(rs).start BY <1>2 DEF Oldest
<1>4. \A s \in rs : Oldest(rs).start <= s.start BY <1>1, <1>3
<1>5. QED BY <1>3, <1>4

(* What an activity's rows are worth to its lesson. *)
Worth(rs) == IF rs = {} THEN 0 ELSE Newest(rs).points

(* Attempts are worth the points of one of them. *)
LEMMA WorthTyped ==
    ASSUME NEW rs, rs \subseteq Attempt, Distinct(rs)
    PROVE  Worth(rs) \in Nat /\ (rs # {} => \E r \in rs : Worth(rs) = r.points)
<1>1. \A r \in rs : r.points \in Nat BY DEF Attempt
<1>2. QED BY <1>1, NewestIs DEF Worth

(***************************************************************************)
(* getoldpoints and the deduction agree: a first attempt moves by its      *)
(* points, one with old points by the difference, and one without would    *)
(* not have moved anything.                                                *)
(***************************************************************************)
LEMMA OldPointsAre ==
    ASSUME NEW rs, NEW row, NEW new \in Nat, rs # {} => row.points \in Nat
    PROVE  LET old == OldPoints(rs, row, new)
           IN  /\ old \in Nat \cup {NoOld}
               /\ Delta(new, old) \in Int
               /\ rs = {} => Delta(new, old) = new
               /\ rs # {} /\ old # NoOld => Delta(new, old) = new - row.points
               /\ rs # {} /\ old = NoOld => new = row.points
BY DEF OldPoints, Delta, NoOld

-----------------------------------------------------------------------------
(* What holds of every row, however attempts arrive. *)

(* No row is worth more than its activity can be, and an item that was not finished is worth nothing. *)
Bounded ==
    /\ \A a \in Activities : points[a] <= MaxPoints[a]
    /\ \A a \in Attempted : \A r \in rows[a] : r.points <= MaxPoints[a]
    /\ \A a \in Learnings : learnt[a].points <= MaxPoints[a] /\ (learnt[a].viewed = 0 => learnt[a].points = 0)

(* Whoever has rows of an activity has the rows above it. *)
RowAbove(t, a) == IF a \in Levels THEN t.level[a] # NoRow ELSE t.lesson[LessonOf[a]] # NoRow

Chain(t) ==
    /\ \A l \in Lessons : t.lesson[l] # NoRow => t.level[LevelOf[l]] # NoRow
    /\ \A v \in Levels : t.level[v] # NoRow => t.grade # NoRow

Above ==
    /\ \A a \in Attempted : rows[a] # {} => RowAbove(totals, a)
    /\ \A a \in Learnings : learnt[a].viewed > 0 => RowAbove(totals, a)
    /\ Chain(totals)

Base ==
    /\ TypeOK
    /\ \A a \in Attempted : Distinct(rows[a])
    /\ Bounded
    /\ Above

-----------------------------------------------------------------------------
(* What a handler leaves in the rows of its activity. *)

(* A row that is credited again keeps all but its points. *)
Repointed(p, n) == [p EXCEPT !.points = n]

(* A row whose points are brought up to date keeps everything else. *)
LEMMA RepointedIs ==
    ASSUME NEW p \in Attempt, NEW n \in Nat
    PROVE  /\ Repointed(p, n) \in Attempt /\ Repointed(p, n).points = n /\ Repointed(p, n).start = p.start
           /\ Repointed(p, n).scores = p.scores /\ (Repointed(p, n).ispass <=> p.ispass)
           /\ (Repointed(p, n).verified <=> p.verified)
BY DEF Repointed, Attempt

(* A row of a new start time joins the others. *)
LEMMA RowAdded ==
    ASSUME NEW rs, rs \subseteq Attempt, Distinct(rs), NEW row \in Attempt, \A r \in rs : r.start # row.start
    PROVE  rs \cup {row} \subseteq Attempt /\ Distinct(rs \cup {row}) /\ row \notin rs
<1>1. IsFiniteSet(rs \cup {row}) BY FS_AddElement DEF Distinct
<1>2. \A r, s \in rs \cup {row} : r.start = s.start => r = s BY DEF Distinct
<1>3. QED BY <1>1, <1>2 DEF Distinct

(* A row brought up to date takes its own place among the others. *)
LEMMA RowRepointed ==
    ASSUME NEW rs, rs \subseteq Attempt, Distinct(rs), NEW p \in rs, NEW n \in Nat,
           NEW us, us = (rs \ {p}) \cup {Repointed(p, n)}
    PROVE  us \subseteq Attempt /\ Distinct(us) /\ us # {} /\ Repointed(p, n) \notin rs \ {p}
<1> DEFINE q == Repointed(p, n)
<1>1. q \in Attempt /\ q.start = p.start BY RepointedIs
<1>2. \A r \in rs \ {p} : r.start # q.start BY <1>1 DEF Distinct
<1>3. IsFiniteSet(rs \ {p}) BY FS_RemoveElement DEF Distinct
<1>4. Distinct(rs \ {p}) BY <1>3 DEF Distinct
<1> HIDE DEF q
<1>5. us \subseteq Attempt /\ Distinct(us) /\ q \notin rs \ {p}
  <2>1. rs \ {p} \subseteq Attempt OBVIOUS
  <2>2. us = (rs \ {p}) \cup {q} BY DEF q
  <2>3. QED BY <1>1, <1>2, <1>4, <2>1, <2>2, RowAdded
<1>6. QED BY <1>5 DEF q

(* zeroRows, row by row. *)
ZeroedRow(r) == IF r.ispass THEN r ELSE Repointed(r, 0)

(* zeroRows keeps everything of a row but the points of one that is no pass. *)
LEMMA ZeroedRowIs ==
    ASSUME NEW r \in Attempt
    PROVE  /\ ZeroedRow(r) \in Attempt /\ ZeroedRow(r).start = r.start /\ ZeroedRow(r).scores = r.scores
           /\ (ZeroedRow(r).ispass <=> r.ispass) /\ (ZeroedRow(r).verified <=> r.verified)
           /\ ZeroedRow(r).points = IF r.ispass THEN r.points ELSE 0
BY RepointedIs DEF ZeroedRow

(* The image of a finite set is finite. *)
LEMMA FiniteImage ==
    ASSUME NEW S, IsFiniteSet(S), NEW m
    PROVE  IsFiniteSet({m[x] : x \in S})
<1> DEFINE T == {m[x] : x \in S}
           g == [x \in S |-> m[x]]
<1>1. g \in Surjection(S, T) BY DEF Surjection
<1> HIDE DEF g
<1>2. IsFiniteSet(T) BY <1>1, FS_Surjection
<1>3. QED BY <1>2

(* zeroRows leaves as many rows, of the same start times. *)
LEMMA RowsZeroed ==
    ASSUME NEW rs, rs \subseteq Attempt, Distinct(rs), NEW us, us = {ZeroedRow(r) : r \in rs}
    PROVE  us \subseteq Attempt /\ Distinct(us) /\ (us = {} <=> rs = {})
<1> DEFINE m == [r \in rs |-> ZeroedRow(r)]
<1>1. us = {m[r] : r \in rs} OBVIOUS
<1>2. IsFiniteSet(us)
  <2>1. IsFiniteSet(rs) BY DEF Distinct
  <2> HIDE DEF m
  <2>2. IsFiniteSet({m[r] : r \in rs}) BY <2>1, FiniteImage
  <2>3. QED BY <1>1, <2>2
<1>3. us \subseteq Attempt BY ZeroedRowIs
<1>4. ASSUME NEW x \in us, NEW y \in us, x.start = y.start PROVE x = y
  <2>1. PICK r \in rs : x = ZeroedRow(r) OBVIOUS
  <2>2. PICK q \in rs : y = ZeroedRow(q) OBVIOUS
  <2>3. r.start = q.start BY <1>4, <2>1, <2>2, ZeroedRowIs
  <2>4. r = q BY <2>3 DEF Distinct
  <2>5. QED BY <2>1, <2>2, <2>4
<1>5. QED BY <1>2, <1>3, <1>4 DEF Distinct

(* The stored row of an attempt. *)
LEMMA NewAttemptIs ==
    ASSUME NEW a \in Attempted, NEW start \in Nat \ {0}, NEW pct \in Percentages, NEW ver \in BOOLEAN,
           points[a] \in Nat, rule \in BOOLEAN, NEW row, row = NewAttempt(a, start, pct, ver)
    PROVE  /\ row \in Attempt /\ row.start = start /\ row.points \in {0, points[a]}
           /\ (row.verified <=> ver)
           /\ (row.ispass <=> pct >= COMPLETED_PERCENTAGE /\ (a \in Practices \/ ~require \/ ver))
           /\ row.points = IF a \in Quizzes /\ rule /\ ~row.ispass THEN 0 ELSE points[a]
           /\ a \in Practices => row.scores = 0
<1>1. PICK pass \in BOOLEAN : pass <=> (pct >= COMPLETED_PERCENTAGE /\ (a \in Practices \/ ~require \/ ver)) OBVIOUS
<1> DEFINE n == IF a \in Quizzes THEN lessonQuizAttemptPoints(rule, pass, points[a]) ELSE points[a]
           k == IF a \in Practices THEN 0 ELSE calculatescore(pct)
<1>2. row = [start |-> start, ispass |-> pass, verified |-> ver, scores |-> k, points |-> n]
  <2>1. pass = (pct >= COMPLETED_PERCENTAGE /\ (a \in Practices \/ ~require \/ ver)) BY <1>1
  <2>2. QED BY <2>1 DEF NewAttempt
<1>3. n \in {0, points[a]} /\ n \in Nat /\ n = (IF a \in Quizzes /\ rule /\ ~pass THEN 0 ELSE points[a])
  BY DEF lessonQuizAttemptPoints
<1>4. k \in 0..3
  <2>1. pct \in 0..10000 BY ProgressAssumption
  <2>2. calculatescore(pct) \in 0..3 BY <2>1 DEF calculatescore
  <2>3. QED BY <2>2
<1>5. a \in Practices => k = 0 OBVIOUS
<1> HIDE DEF n, k
<1>6. row \in Attempt BY <1>2, <1>3, <1>4 DEF Attempt
<1>7. row.start = start /\ row.points = n /\ row.verified = ver /\ row.ispass = pass /\ row.scores = k BY <1>2
<1>8. QED BY <1>1, <1>3, <1>5, <1>6, <1>7

-----------------------------------------------------------------------------
(* What a lesson's activities hold. *)

LearntRow == [viewed : Nat, points : Nat] \cup {NotSeen}

RowsTyped(rs) == rs \in [Attempted -> SUBSET Attempt] /\ \A a \in Attempted : Distinct(rs[a])

LearntTyped(ln) == ln \in [Learnings -> LearntRow]

(* A learning row holds natural numbers. *)
LEMMA LearntRowIs == \A row \in LearntRow : row.viewed \in Nat /\ row.points \in Nat
<1>1. NotSeen.viewed = 0 /\ NotSeen.points = 0 BY DEF NotSeen
<1>2. QED BY <1>1 DEF LearntRow

(* The sets of activities a sum runs over. *)
LEMMA FewActivities ==
    /\ Attempted \subseteq Activities /\ Learnings \subseteq Activities
    /\ \A as : as \subseteq Activities => IsFiniteSet(as)
    /\ \A l : /\ In(l, Learnings) \subseteq Learnings /\ In(l, Quizzes) \subseteq Quizzes
              /\ In(l, Practices) \subseteq Practices /\ In(l, Practices \cup Quizzes) \subseteq Practices \cup Quizzes
    /\ Quizzes \subseteq Attempted /\ Practices \subseteq Attempted /\ Levels \subseteq Attempted
<1>1. ASSUME NEW as, as \subseteq Activities PROVE IsFiniteSet(as)
  <2>1. IsFiniteSet(Activities) BY ProgressAssumption
  <2>2. QED BY <1>1, <2>1, FS_Subset
<1>2. QED BY <1>1 DEF In, Activities, Attempted

(* HeldByAttempts adds up what the rows are worth. *)
LEMMA AttemptsHold ==
    ASSUME NEW rs, RowsTyped(rs), NEW as, as \subseteq Attempted
    PROVE  /\ HeldByAttempts(rs, as) = SumFunctionOnSet([a \in Attempted |-> Worth(rs[a])], as)
           /\ HeldByAttempts(rs, as) \in Nat
           /\ \A a \in Attempted : Worth(rs[a]) \in Nat
<1> DEFINE f == [a \in Attempted |-> Worth(rs[a])]
<1>1. HeldByAttempts(rs, as) = SumFunctionOnSet(f, as) BY DEF HeldByAttempts, Worth
<1>2. \A a \in Attempted : Worth(rs[a]) \in Nat BY WorthTyped DEF RowsTyped
<1>3. IsFiniteSet(as) BY FewActivities
<1>4. \A a \in as : f[a] \in Nat BY <1>2
<1> HIDE DEF f
<1>5. SumFunctionOnSet(f, as) \in Nat BY <1>3, <1>4, SumNat
<1>6. QED BY <1>1, <1>2, <1>5 DEF f

(* So does HeldByLearning for the items that were finished. *)
LEMMA LearningHolds ==
    ASSUME NEW ln, LearntTyped(ln), NEW as, as \subseteq Learnings
    PROVE  HeldByLearning(ln, as) \in Nat
<1> DEFINE f == [a \in Learnings |-> IF ln[a].viewed > 0 THEN ln[a].points ELSE 0]
<1>1. HeldByLearning(ln, as) = SumFunctionOnSet(f, as) BY DEF HeldByLearning
<1>2. \A a \in as : f[a] \in Nat BY LearntRowIs DEF LearntTyped
<1>3. IsFiniteSet(as) BY FewActivities
<1> HIDE DEF f
<1>4. QED BY <1>1, <1>2, <1>3, SumNat

(* A lesson holds a natural number of points. *)
LEMMA HeldTyped ==
    ASSUME NEW rs, RowsTyped(rs), NEW ln, LearntTyped(ln), NEW l
    PROVE  Held(rs, ln, l) \in Nat
<1>1. HeldByLearning(ln, In(l, Learnings)) \in Nat BY LearningHolds, FewActivities
<1>2. In(l, Practices \cup Quizzes) \subseteq Attempted BY FewActivities
<1>3. HeldByAttempts(rs, In(l, Practices \cup Quizzes)) \in Nat BY <1>2, AttemptsHold
<1>4. QED BY <1>1, <1>3 DEF Held

(* The daily rows hold numbers of points. *)
LEMMA DailyTyped ==
    ASSUME NEW dy \in [Lessons -> Nat \cup {NoDaily}], NEW rs, RowsTyped(rs), NEW ln, LearntTyped(ln), NEW a
    PROVE  DailyPoints(dy, rs, ln, a) \in [Lessons -> Nat \cup {NoDaily}]
BY HeldTyped DEF DailyPoints

(* The types, in the words of the lemmas. *)
LEMMA BaseTypes ==
    ASSUME Base
    PROVE  /\ points \in [Activities -> Nat] /\ rule \in BOOLEAN /\ require \in BOOLEAN
           /\ RowsTyped(rows) /\ LearntTyped(learnt) /\ totals \in Totals
           /\ daily \in [Lessons -> Nat \cup {NoDaily}]
           /\ actives \subseteq Activities /\ edits \in 0..MaxEdits
BY DEF Base, TypeOK, RowsTyped, LearntTyped, LearntRow, Totals

(* What holds of every row is put together from its parts. *)
LEMMA BaseFromParts ==
    ASSUME points \in [Activities -> Nat], rule \in BOOLEAN, require \in BOOLEAN,
           RowsTyped(rows), LearntTyped(learnt), totals \in Totals,
           daily \in [Lessons -> Nat \cup {NoDaily}],
           actives \subseteq Activities, edits \in 0..MaxEdits, Bounded, Above
    PROVE  Base
BY DEF Base, TypeOK, RowsTyped, LearntTyped, LearntRow, Totals

(* It holds of no rows at all. *)
LEMMA InitBase == Init => Base
<1> SUFFICES ASSUME Init PROVE Base
  OBVIOUS
<1>1. points \in [Activities -> Nat] /\ rule \in BOOLEAN /\ require \in BOOLEAN /\ actives \subseteq Activities /\ edits \in 0..MaxEdits
  BY ProgressAssumption DEF Init
<1>2. \A a \in Attempted : rows[a] = {} BY DEF Init
<1>3. RowsTyped(rows)
  <2>1. Distinct({}) BY FS_EmptySet DEF Distinct
  <2>2. rows \in [Attempted -> SUBSET Attempt] BY DEF Init
  <2>3. QED BY <1>2, <2>1, <2>2 DEF RowsTyped
<1>4. NotSeen.viewed = 0 /\ NotSeen.points = 0 BY DEF NotSeen
<1>5. LearntTyped(learnt) /\ \A a \in Learnings : learnt[a] = NotSeen BY DEF Init, LearntTyped, LearntRow
<1>6. /\ totals \in Totals
      /\ \A l \in Lessons : totals.lesson[l] = NoRow
      /\ \A v \in Levels : totals.level[v] = NoRow
  BY DEF Init, Totals, Row
<1>7. daily \in [Lessons -> Nat \cup {NoDaily}] BY DEF Init
<1>8. Bounded
  <2>1. \A a \in Activities : points[a] = MaxPoints[a] /\ MaxPoints[a] \in Nat BY ProgressAssumption DEF Init
  <2>2. \A a \in Learnings : a \in Activities BY DEF Activities
  <2>3. \A a \in Activities : points[a] <= MaxPoints[a] BY <2>1
  <2>4. ASSUME NEW a \in Learnings
        PROVE  learnt[a].points <= MaxPoints[a] /\ (learnt[a].viewed = 0 => learnt[a].points = 0)
    <3>1. learnt[a].points = 0 /\ MaxPoints[a] \in Nat BY <1>4, <1>5, <2>1, <2>2
    <3>2. QED BY <3>1
  <2>5. QED BY <1>2, <2>3, <2>4 DEF Bounded
<1>9. Above
  <2>1. \A a \in Learnings : ~(learnt[a].viewed > 0)
    <3>1. ~(0 > 0) OBVIOUS
    <3>2. QED BY <1>4, <1>5, <3>1
  <2>2. QED BY <1>2, <1>6, <2>1 DEF Above, Chain
<1>10. QED BY <1>1, <1>3, <1>5, <1>6, <1>7, <1>8, <1>9, BaseFromParts

-----------------------------------------------------------------------------
(* A handler's steps. *)

(* No row of t is gone in u. *)
Grows(t, u) == \A a \in Activities : RowAbove(t, a) => RowAbove(u, a)

(* A reward makes the rows above its activity, and takes none away. *)
LEMMA RewardedAbove ==
    ASSUME NEW t \in Totals, Chain(t), NEW a \in Activities, NEW new \in Nat, NEW old \in Nat \cup {NoOld},
           NEW u, u = Rewarded(t, a, new, old)
    PROVE  u \in Totals /\ Chain(u) /\ Grows(t, u) /\ RowAbove(u, a)
<1>1. /\ u \in Totals /\ u.grade # NoRow
      /\ \A l \in Lessons : t.lesson[l] # NoRow => u.lesson[l] # NoRow
      /\ \A v \in Levels : t.level[v] # NoRow => u.level[v] # NoRow
      /\ a \notin Levels => /\ u.lesson[LessonOf[a]] # NoRow /\ u.level[LevelOf[LessonOf[a]]] # NoRow
                            /\ \A l \in Lessons : l # LessonOf[a] => u.lesson[l] = t.lesson[l]
      /\ a \in Levels => u.level[a] # NoRow /\ u.lesson = t.lesson
  BY RewardedIs DEF Kept
<1>2. Chain(u)
  <2>1. ASSUME NEW l \in Lessons, u.lesson[l] # NoRow PROVE u.level[LevelOf[l]] # NoRow
    <3>1. CASE t.lesson[l] # NoRow BY <1>1, <3>1, Places DEF Chain
    <3>2. CASE t.lesson[l] = NoRow BY <1>1, <2>1, <3>2
    <3>3. QED BY <3>1, <3>2
  <2>2. QED BY <1>1, <2>1 DEF Chain
<1>3. \A b \in Activities : b \notin Levels => LessonOf[b] \in Lessons BY Places
<1>4. Grows(t, u) BY <1>1, <1>3 DEF Grows, RowAbove
<1>5. QED BY <1>1, <1>2, <1>4 DEF RowAbove

(* Neither does adding stars make or take away a row. *)
LEMMA SameRowsAbove ==
    ASSUME NEW t, NEW u, Chain(t),
           \A l \in Lessons : Scorelike(t.lesson[l], u.lesson[l]),
           \A v \in Levels : Scorelike(t.level[v], u.level[v]),
           Scorelike(t.grade, u.grade)
    PROVE  Chain(u) /\ Grows(t, u)
<1>1. \A b \in Activities : b \notin Levels => LessonOf[b] \in Lessons BY Places
<1>2. Chain(u) BY Places DEF Chain, Scorelike
<1>3. Grows(t, u) BY <1>1 DEF Grows, RowAbove, Scorelike
<1>4. QED BY <1>2, <1>3

(* The stars of an attempt. *)
LEMMA ScoredIs ==
    ASSUME NEW t \in Totals, NEW a \in Attempted, NEW n \in Nat, NEW u, u = Scored(t, a, n)
    PROVE  /\ u \in Totals
           /\ \A l \in Lessons : Scorelike(t.lesson[l], u.lesson[l])
           /\ \A v \in Levels : Scorelike(t.level[v], u.level[v])
           /\ Scorelike(t.grade, u.grade)
<1>1. CASE a \in Levels BY <1>1, LevelStarsAre DEF Scored, LevelStarred
<1>2. CASE a \notin Levels
  <2> DEFINE l0 == LessonOf[a]
  <2>1. l0 \in Lessons BY <1>2, Places, FewActivities
  <2>2. u = addstudentscores(t, l0, n) BY <1>2 DEF Scored
  <2> HIDE DEF l0
  <2>3. LessonStarred(t, l0, n, u) BY <2>1, <2>2, LessonStarsAre
  <2>4. QED BY <2>3 DEF LessonStarred
<1>3. QED BY <1>1, <1>2

(* What PassedAgain does. *)
LEMMA PassedAgainIs ==
    ASSUME Base, NEW a \in Attempted, PassedAgain(a),
           NEW old, old = IF rule /\ a \in Quizzes THEN getpassoldpoints(a, points[a]) ELSE getoldpoints(a, points[a])
    PROVE  /\ old \in Nat \cup {NoOld}
           /\ totals' = IF old # NoOld THEN Rewarded(totals, a, points[a], old) ELSE totals
           /\ totals' \in Totals /\ Chain(totals') /\ Grows(totals, totals')
           /\ RowsTyped(rows') /\ \A b \in Attempted : b # a => rows'[b] = rows[b]
           /\ \E p \in Passes(a) : /\ rows'[a] = (rows[a] \ {p}) \cup {Repointed(p, points[a])}
                                   /\ p \in rows[a] /\ p \in Attempt
<1>1. rows[a] \subseteq Attempt /\ Distinct(rows[a]) /\ points[a] \in Nat /\ totals \in Totals /\ Chain(totals)
  BY BaseTypes, FewActivities DEF RowsTyped, Base, Above
<1>2. Passes(a) \subseteq rows[a] /\ Passes(a) # {} BY DEF Passes, PassedAgain, ispass
<1>3. PICK p \in Passes(a) : rows' = [rows EXCEPT ![a] = (rows[a] \ {p}) \cup {Repointed(p, points[a])}]
  BY DEF PassedAgain, Repointed
<1>4. old \in Nat \cup {NoOld}
  <2>1. Distinct(Passes(a))
    <3>1. IsFiniteSet(Passes(a)) BY <1>1, <1>2, FS_Subset DEF Distinct
    <3>2. QED BY <1>1, <1>2, <3>1 DEF Distinct
  <2>2. Newest(rows[a]) \in rows[a] BY <1>1, <1>2, NewestIs
  <2>3. Oldest(Passes(a)) \in rows[a] BY <1>1, <1>2, <2>1, OldestIs
  <2>4. \A r \in rows[a] : r.points \in Nat BY <1>1 DEF Attempt
  <2>5. getoldpoints(a, points[a]) \in Nat \cup {NoOld} BY <1>1, <2>2, <2>4, OldPointsAre DEF getoldpoints
  <2>6. getpassoldpoints(a, points[a]) \in Nat \cup {NoOld} BY <1>1, <2>3, <2>4, OldPointsAre DEF getpassoldpoints
  <2>7. QED BY <2>5, <2>6
<1>5. totals' = IF old # NoOld THEN Rewarded(totals, a, points[a], old) ELSE totals BY DEF PassedAgain
<1>6. totals' \in Totals /\ Chain(totals') /\ Grows(totals, totals')
  BY <1>1, <1>4, <1>5, RewardedAbove, FewActivities DEF Grows
<1>7. /\ rows'[a] = (rows[a] \ {p}) \cup {Repointed(p, points[a])}
      /\ \A b \in Attempted : b # a => rows'[b] = rows[b]
      /\ DOMAIN rows' = Attempted /\ rows' = [b \in Attempted |-> rows'[b]]
  BY <1>3, BaseTypes DEF RowsTyped
<1>8. rows'[a] \subseteq Attempt /\ Distinct(rows'[a])
  <2> DEFINE rs == rows[a]
             us == rows'[a]
             n == points[a]
  <2>1. rs \subseteq Attempt /\ Distinct(rs) /\ p \in rs /\ n \in Nat /\ us = (rs \ {p}) \cup {Repointed(p, n)}
    BY <1>1, <1>2, <1>7
  <2> HIDE DEF rs, us, n
  <2>2. us \subseteq Attempt /\ Distinct(us) BY <2>1, RowRepointed
  <2>3. QED BY <2>2 DEF us
<1>9. RowsTyped(rows') BY <1>7, <1>8, BaseTypes DEF RowsTyped
<1>10. QED BY <1>1, <1>2, <1>4, <1>5, <1>6, <1>7, <1>9

(* What a fresh attempt does. *)
LEMMA CreatedIs ==
    ASSUME Base, NEW a \in Attempted, NEW row \in Attempt, \A r \in rows[a] : r.start # row.start, Created(a, row),
           NEW old, old = getoldpoints(a, row.points),
           NEW t, t = IF RewardDue(a, row) THEN Rewarded(totals, a, row.points, old) ELSE totals
    PROVE  /\ old \in Nat \cup {NoOld}
           /\ t \in Totals /\ Chain(t) /\ Grows(totals, t) /\ RowAbove(t, a)
           /\ totals' = Scored(t, a, row.scores)
           /\ totals' \in Totals /\ Chain(totals') /\ Grows(totals, totals') /\ RowAbove(totals', a)
           /\ RowsTyped(rows') /\ \A b \in Attempted : b # a => rows'[b] = rows[b]
           /\ rows'[a] = rows[a] \cup {row}
<1>1. rows[a] \subseteq Attempt /\ Distinct(rows[a]) /\ totals \in Totals /\ Chain(totals) /\ a \in Activities
  BY BaseTypes, FewActivities DEF RowsTyped, Base, Above
<1>2. row.points \in Nat /\ row.scores \in Nat BY DEF Attempt
<1>3. old \in Nat \cup {NoOld}
  <2>1. rows[a] # {} => Newest(rows[a]).points \in Nat
    <3>1. \A r \in rows[a] : r.points \in Nat BY <1>1 DEF Attempt
    <3>2. QED BY <1>1, <3>1, NewestIs
  <2>2. QED BY <1>2, <2>1, OldPointsAre DEF getoldpoints
<1>4. t \in Totals /\ Chain(t) /\ Grows(totals, t) /\ RowAbove(t, a)
  <2>1. CASE RewardDue(a, row) BY <1>1, <1>2, <1>3, <2>1, RewardedAbove
  <2>2. CASE ~RewardDue(a, row)
    <3>1. rows[a] # {} BY <2>2 DEF RewardDue, StaleAttempt, hasTried
    <3>2. QED BY <1>1, <2>2, <3>1 DEF Base, Above, Grows
  <2>3. QED BY <2>1, <2>2
<1>5. totals' = Scored(t, a, row.scores) BY DEF Created
<1>6. totals' \in Totals /\ Chain(totals') /\ Grows(t, totals')
  <2> DEFINE u == totals'
  <2>1. u = Scored(t, a, row.scores) BY <1>5
  <2> HIDE DEF u
  <2>2. /\ u \in Totals
        /\ \A l \in Lessons : Scorelike(t.lesson[l], u.lesson[l])
        /\ \A v \in Levels : Scorelike(t.level[v], u.level[v])
        /\ Scorelike(t.grade, u.grade)
    BY <1>2, <1>4, <2>1, ScoredIs
  <2>3. Chain(u) /\ Grows(t, u) BY <1>4, <2>2, SameRowsAbove
  <2>4. QED BY <2>2, <2>3 DEF u
<1>7. Grows(totals, totals') /\ RowAbove(totals', a) BY <1>1, <1>4, <1>6 DEF Grows
<1>8. /\ rows'[a] = rows[a] \cup {row}
      /\ \A b \in Attempted : b # a => rows'[b] = rows[b]
      /\ rows' = [b \in Attempted |-> rows'[b]]
  BY BaseTypes DEF Created, RowsTyped
<1>9. rows'[a] \subseteq Attempt /\ Distinct(rows'[a]) BY <1>1, <1>8, RowAdded
<1>10. RowsTyped(rows') BY <1>8, <1>9, BaseTypes DEF RowsTyped
<1>11. QED BY <1>3, <1>4, <1>5, <1>6, <1>7, <1>8, <1>10

(* What a report on a learning item does. *)
LEMMA LearningIs ==
    ASSUME Base, NEW a \in Learnings, NEW ended \in BOOLEAN, updatelearningprogress(a, ended),
           NEW old, old = LearningOld(a, ended), NEW t,
           t = IF old # NoOld \/ (ended /\ learnt'[a].viewed = 1) THEN Rewarded(totals, a, points[a], old) ELSE totals
    PROVE  /\ old \in Nat \cup {NoOld}
           /\ t \in Totals /\ Chain(t) /\ Grows(totals, t)
           /\ totals' = IF ended THEN addstudentscores(t, LessonOf[a], 0) ELSE t
           /\ totals' \in Totals /\ Chain(totals') /\ Grows(totals, totals')
           /\ LearntTyped(learnt') /\ learnt'[a] = LearntAfter(a, ended)
           /\ \A b \in Learnings : b # a => learnt'[b] = learnt[b]
           /\ learnt'[a].viewed = learnt[a].viewed + (IF ended THEN 1 ELSE 0)
           /\ learnt'[a].points = IF learnt[a].viewed > 0 \/ ended THEN points[a] ELSE 0
           /\ learnt'[a].viewed > 0 => RowAbove(totals', a)
<1>1. /\ a \in Activities /\ a \notin Levels /\ LessonOf[a] \in Lessons /\ points[a] \in Nat
      /\ totals \in Totals /\ Chain(totals) /\ learnt[a] \in LearntRow /\ LearntTyped(learnt)
  BY BaseTypes, FewActivities, Places DEF Base, Above, LearntTyped
<1>2. learnt[a].viewed \in Nat /\ learnt[a].points \in Nat BY <1>1, LearntRowIs
<1>3. old \in Nat \cup {NoOld} BY <1>2 DEF LearningOld
<1>4. Rewarded(totals, a, points[a], old) = updateUserReward(totals, LessonOf[a], points[a], old) BY <1>1 DEF Rewarded
<1>5. t \in Totals /\ Chain(t) /\ Grows(totals, t)
  <2>1. Grows(totals, totals) BY DEF Grows
  <2>2. QED BY <1>1, <1>3, <2>1, RewardedAbove
<1>6. totals' = IF ended THEN addstudentscores(t, LessonOf[a], 0) ELSE t BY <1>4 DEF updatelearningprogress
<1>7. totals' \in Totals /\ Chain(totals') /\ Grows(t, totals')
  <2>1. CASE ~ended BY <1>5, <1>6, <2>1 DEF Grows
  <2>2. CASE ended
    <3> DEFINE u == totals'
               l0 == LessonOf[a]
    <3>1. u = addstudentscores(t, l0, 0) /\ l0 \in Lessons /\ 0 \in Nat BY <1>1, <1>6, <2>2
    <3> HIDE DEF u, l0
    <3>2. LessonStarred(t, l0, 0, u) BY <1>5, <3>1, LessonStarsAre
    <3>3. /\ u \in Totals
          /\ \A l \in Lessons : Scorelike(t.lesson[l], u.lesson[l])
          /\ \A v \in Levels : Scorelike(t.level[v], u.level[v])
          /\ Scorelike(t.grade, u.grade)
      BY <3>2 DEF LessonStarred
    <3>4. Chain(u) /\ Grows(t, u) BY <1>5, <3>3, SameRowsAbove
    <3>5. QED BY <3>3, <3>4 DEF u
  <2>3. QED BY <2>1, <2>2
<1>8. Grows(totals, totals') BY <1>5, <1>7 DEF Grows
<1>9. /\ learnt'[a] = LearntAfter(a, ended)
      /\ \A b \in Learnings : b # a => learnt'[b] = learnt[b]
      /\ learnt' = [b \in Learnings |-> learnt'[b]]
  BY <1>1 DEF updatelearningprogress, LearntTyped
<1> DEFINE k == IF ended THEN 1 ELSE 0
           n == IF learnt[a].viewed > 0 \/ ended THEN points[a] ELSE 0
<1>10. k \in Nat /\ n \in Nat BY <1>1
<1>11. learnt'[a] = [viewed |-> learnt[a].viewed + k, points |-> n] BY <1>9 DEF LearntAfter
<1>12. learnt'[a] \in LearntRow /\ learnt'[a].viewed = learnt[a].viewed + k /\ learnt'[a].points = n
  <2> HIDE DEF k, n
  <2>1. learnt[a].viewed + k \in Nat BY <1>2, <1>10
  <2>2. QED BY <1>10, <1>11, <2>1 DEF LearntRow
<1>13. LearntTyped(learnt') BY <1>1, <1>9, <1>12 DEF LearntTyped
<1>14. ASSUME learnt'[a].viewed > 0 PROVE RowAbove(totals', a)
  <2>1. CASE learnt[a].viewed > 0 BY <1>1, <1>8, <2>1 DEF Base, Above, Grows
  <2>2. CASE learnt[a].viewed = 0
    <3>1. ended /\ learnt'[a].viewed = 1 BY <1>12, <1>14, <2>2
    <3>2. t = Rewarded(totals, a, points[a], old) BY <3>1
    <3>3. RowAbove(t, a) BY <1>1, <1>3, <3>2, RewardedAbove
    <3>4. QED BY <1>1, <1>7, <3>3 DEF Grows
  <2>3. QED BY <1>2, <2>1, <2>2
<1>15. QED BY <1>3, <1>5, <1>6, <1>7, <1>8, <1>9, <1>12, <1>13, <1>14

(* The smaller of two numbers. *)
LEMMA MinIs ==
    ASSUME NEW x \in Int, NEW y \in Int
    PROVE  Min({x, y}) = IF x <= y THEN x ELSE y
BY DEF Min

(* What counted passes hold, what the recalculation takes back and what it leaves. *)
LEMMA AmountsTyped ==
    ASSUME Base, NEW l \in Lessons
    PROVE  /\ PassesHold(l) \in Nat /\ Amount(l) \in Nat /\ Rest(l) \in Nat /\ Reduction(l) \in Int
           /\ \A q \in Quizzes : ispass(q) => Oldest(Passes(q)) \in Passes(q) /\ Oldest(Passes(q)) \in Attempt
<1>1. RowsTyped(rows) /\ LearntTyped(learnt) /\ totals \in Totals BY BaseTypes
<1>2. ASSUME NEW q \in Quizzes, ispass(q)
      PROVE  Oldest(Passes(q)) \in Passes(q) /\ Oldest(Passes(q)) \in Attempt
  <2>1. rows[q] \subseteq Attempt /\ Distinct(rows[q]) BY <1>1, FewActivities DEF RowsTyped
  <2>2. Passes(q) \subseteq rows[q] BY DEF Passes
  <2>3. IsFiniteSet(Passes(q)) BY <2>1, <2>2, FS_Subset DEF Distinct
  <2>4. Distinct(Passes(q)) /\ Passes(q) \subseteq Attempt BY <2>1, <2>2, <2>3 DEF Distinct
  <2>5. QED BY <1>2, <2>4, OldestIs DEF ispass
<1>3. PassesHold(l) \in Nat
  <2> DEFINE f == [q \in Quizzes |-> IF ispass(q) THEN Oldest(Passes(q)).points ELSE 0]
             as == In(l, Quizzes)
  <2>1. \A q \in Quizzes : f[q] \in Nat BY <1>2 DEF Attempt
  <2>2. as \subseteq Quizzes /\ IsFiniteSet(as) BY FewActivities
  <2> HIDE DEF f, as
  <2>3. SumFunctionOnSet(f, as) \in Nat BY <2>1, <2>2, SumNat
  <2>4. QED BY <2>3 DEF f, as, PassesHold
<1>4. Amount(l) \in Nat
  <2>1. {q \in In(l, Quizzes) : NoPass(q)} \subseteq Attempted BY FewActivities
  <2>2. QED BY <1>1, <2>1, AttemptsHold DEF Amount
<1>5. Rest(l) \in Nat
  <2>1. HeldByLearning(learnt, In(l, Learnings)) \in Nat BY <1>1, FewActivities, LearningHolds
  <2> DEFINE as == In(l, Practices) \cup {q \in In(l, Quizzes) : OnlyUncounted(q)}
  <2>2. as \subseteq Attempted BY FewActivities
  <2>3. Rest(l) = HeldByLearning(learnt, In(l, Learnings)) + HeldByAttempts(rows, as) + PassesHold(l) BY DEF Rest
  <2> HIDE DEF as
  <2>4. HeldByAttempts(rows, as) \in Nat BY <1>1, <2>2, AttemptsHold
  <2> DEFINE x == HeldByLearning(learnt, In(l, Learnings))
             y == HeldByAttempts(rows, as)
             z == PassesHold(l)
  <2>5. x \in Nat /\ y \in Nat /\ z \in Nat /\ Rest(l) = x + y + z BY <1>3, <2>1, <2>3, <2>4
  <2> HIDE DEF x, y, z
  <2>6. QED BY <2>5
<1>6. Reduction(l) \in Int
  <2> DEFINE old == totals.lesson[l].points
             m == Min({old, Rest(l)})
             r == Amount(l)
  <2>1. old \in Int BY <1>1, RowFacts DEF Totals
  <2>2. m \in Int BY <1>5, <2>1, MinIs
  <2>3. Reduction(l) = IF totals.lesson[l] = NoRow THEN r ELSE Min({r, old - m}) BY DEF Reduction
  <2>4. r \in Int BY <1>4
  <2> HIDE DEF m, old, r
  <2>5. old - m \in Int BY <2>1, <2>2
  <2>6. Min({r, old - m}) \in Int BY <2>4, <2>5, MinIs
  <2>7. QED BY <2>3, <2>4, <2>6
<1>7. QED BY <1>2, <1>3, <1>4, <1>5, <1>6

(* A row with other points is the same row. *)
LEMMA RowWithPoints ==
    ASSUME NEW row \in Row, row # NoRow, NEW p \in Int, NEW c \in BOOLEAN, NEW u, u = [row EXCEPT !.points = p, !.completed = c]
    PROVE  u \in Row /\ u # NoRow /\ Kept(row, u) /\ u.points = p
<1>1. row \in ProgressRow BY DEF Row
<1>2. u \in ProgressRow /\ u.points = p /\ u.scores = row.scores /\ u.flag = row.flag BY <1>1 DEF ProgressRow
<1>3. QED BY <1>2, RowFacts DEF Row, Kept, Once

(* What a row loses to the recalculation. *)
LEMMA ReducedIs ==
    ASSUME NEW row \in Row, NEW n \in Int, NEW total, NEW u, u = Reduced(row, n, total)
    PROVE  /\ u \in Row /\ Kept(row, u) /\ (u = NoRow <=> row = NoRow)
           /\ u.points = IF row = NoRow \/ n = 0 THEN row.points ELSE Positive(row.points - n)
<1> DEFINE p == Positive(row.points - n)
           c == percentCompleted(progressPercent(p, total))
<1>1. CASE row = NoRow \/ n = 0
  <2>1. u = row BY <1>1 DEF Reduced
  <2>2. QED BY <1>1, <2>1 DEF Kept
<1>2. CASE row # NoRow /\ n # 0
  <2>1. u = [row EXCEPT !.points = p, !.completed = c] BY <1>2 DEF Reduced
  <2>2. row.points \in Int BY RowFacts
  <2>3. p \in Int BY <2>2 DEF Positive
  <2>4. c \in BOOLEAN BY DEF percentCompleted
  <2> HIDE DEF p, c
  <2>5. u \in Row /\ u # NoRow /\ Kept(row, u) /\ u.points = p BY <1>2, <2>1, <2>3, <2>4, RowWithPoints
  <2>6. QED BY <1>2, <2>5 DEF p
<1>3. QED BY <1>1, <1>2

(* The recalculated lesson row loses its reduction. *)
LEMMA ReducedLessonIs ==
    ASSUME Base, NEW l \in Lessons, NEW u, u = ReducedLesson(l)
    PROVE  /\ u \in Row /\ Kept(totals.lesson[l], u) /\ (u = NoRow <=> totals.lesson[l] = NoRow)
           /\ u.points = IF totals.lesson[l] = NoRow \/ Amount(l) = 0 THEN totals.lesson[l].points
                         ELSE totals.lesson[l].points - Reduction(l)
<1> DEFINE row == totals.lesson[l]
           p == row.points - Reduction(l)
           c == LessonCompleted(p, PassingPoints[l], TotalPoints[l])
<1>1. row \in Row BY BaseTypes DEF Totals
<1>2. CASE row = NoRow \/ Amount(l) = 0
  <2>1. u = row BY <1>2 DEF ReducedLesson
  <2>2. QED BY <1>1, <1>2, <2>1 DEF Kept
<1>3. CASE row # NoRow /\ Amount(l) # 0
  <2>1. u = [row EXCEPT !.points = p, !.completed = c] BY <1>3 DEF ReducedLesson
  <2>2. row.points \in Int /\ Reduction(l) \in Int BY <1>1, RowFacts, AmountsTyped
  <2>3. p \in Int BY <2>2
  <2>4. c \in BOOLEAN BY DEF LessonCompleted
  <2>5. ~(row = NoRow \/ Amount(l) = 0) BY <1>3
  <2> HIDE DEF p, c, row
  <2>6. u \in Row /\ u # NoRow /\ Kept(row, u) /\ u.points = p BY <1>1, <1>3, <2>1, <2>3, <2>4, RowWithPoints
  <2>7. QED BY <2>5, <2>6 DEF p, row
<1>4. QED BY <1>2, <1>3

(* What lessons lose together is an integer. *)
LEMMA LostTyped ==
    ASSUME Base, NEW ls, ls \subseteq Lessons
    PROVE  Lost(ls) \in Int
<1> DEFINE f == [l \in Lessons |-> Reduction(l)]
<1>1. \A l \in ls : f[l] \in Int BY AmountsTyped
<1>2. IsFiniteSet(ls) BY FewOfEach, FS_Subset
<1> HIDE DEF f
<1>3. SumFunctionOnSet(f, ls) \in Int BY <1>1, <1>2, SumTyped
<1>4. QED BY <1>3 DEF f, Lost

(* What the recalculation does. *)
LEMMA RecalculateIs ==
    ASSUME Base, Recalculate
    PROVE  /\ totals' \in Totals /\ Chain(totals') /\ Grows(totals, totals')
           /\ \A l \in Lessons : /\ Kept(totals.lesson[l], totals'.lesson[l]) /\ totals'.lesson[l] = ReducedLesson(l)
                                 /\ (totals'.lesson[l] = NoRow <=> totals.lesson[l] = NoRow)
           /\ \A v \in Levels : /\ Kept(totals.level[v], totals'.level[v])
                                /\ totals'.level[v] = Reduced(totals.level[v], Lost(LessonsOf(v)), LevelPoints[v])
           /\ Kept(totals.grade, totals'.grade)
           /\ totals'.grade = Reduced(totals.grade, Lost(Lessons), GradePoints)
           /\ RowsTyped(rows') /\ \A a \in Attempted : rows'[a] = {} <=> rows[a] = {}
           /\ \A a \in Attempted \ Quizzes : rows'[a] = rows[a]
           /\ \A q \in Quizzes : rows'[q] = IF OnlyUncounted(q) THEN rows[q] ELSE {ZeroedRow(r) : r \in rows[q]}
<1>1. totals \in Totals /\ Chain(totals) /\ RowsTyped(rows) BY BaseTypes DEF Base, Above
<1>2. /\ \A l \in Lessons : totals'.lesson[l] = ReducedLesson(l)
      /\ \A v \in Levels : totals'.level[v] = Reduced(totals.level[v], Lost(LessonsOf(v)), LevelPoints[v])
      /\ totals'.grade = Reduced(totals.grade, Lost(Lessons), GradePoints)
  BY DEF Recalculate
<1>3. ASSUME NEW l \in Lessons
      PROVE  /\ totals'.lesson[l] \in Row /\ Kept(totals.lesson[l], totals'.lesson[l])
             /\ (totals'.lesson[l] = NoRow <=> totals.lesson[l] = NoRow)
  BY <1>2, ReducedLessonIs
<1>4. ASSUME NEW v \in Levels
      PROVE  /\ totals'.level[v] \in Row /\ Kept(totals.level[v], totals'.level[v])
             /\ (totals'.level[v] = NoRow <=> totals.level[v] = NoRow)
  <2>1. totals.level[v] \in Row BY <1>1 DEF Totals
  <2>2. Lost(LessonsOf(v)) \in Int BY FewOfEach, LostTyped
  <2>3. QED BY <1>2, <2>1, <2>2, ReducedIs
<1>5. /\ totals'.grade \in Row /\ Kept(totals.grade, totals'.grade)
      /\ (totals'.grade = NoRow <=> totals.grade = NoRow)
  <2>1. totals.grade \in Row BY <1>1 DEF Totals
  <2>2. Lost(Lessons) \in Int BY LostTyped
  <2>3. QED BY <1>2, <2>1, <2>2, ReducedIs
<1>6. totals' \in Totals
  <2>1. totals' = [lesson |-> [l \in Lessons |-> totals'.lesson[l]], level |-> [v \in Levels |-> totals'.level[v]],
                   grade |-> totals'.grade]
    BY DEF Recalculate
  <2>2. QED BY <1>3, <1>4, <1>5, <2>1 DEF Totals
<1>7. Chain(totals') BY <1>1, <1>3, <1>4, <1>5, Places DEF Chain
<1>8. Grows(totals, totals')
  <2>1. \A b \in Activities : b \notin Levels => LessonOf[b] \in Lessons BY Places
  <2>2. QED BY <1>3, <1>4, <2>1 DEF Grows, RowAbove
<1>9. \A a \in Attempted \ Quizzes : rows'[a] = rows[a] BY DEF Recalculate
<1>10. ASSUME NEW q \in Quizzes PROVE rows'[q] = IF OnlyUncounted(q) THEN rows[q] ELSE {ZeroedRow(r) : r \in rows[q]}
  <2>1. q \in Attempted BY FewActivities
  <2>2. rows'[q] = Zeroed(q) BY <2>1 DEF Recalculate
  <2>3. QED BY <2>2 DEF Zeroed, ZeroedRow, Repointed
<1>11. ASSUME NEW a \in Attempted
       PROVE  rows'[a] \subseteq Attempt /\ Distinct(rows'[a]) /\ (rows'[a] = {} <=> rows[a] = {})
  <2>1. rows[a] \subseteq Attempt /\ Distinct(rows[a]) BY <1>1 DEF RowsTyped
  <2>2. CASE a \notin Quizzes \/ OnlyUncounted(a) BY <1>9, <1>10, <2>1, <2>2
  <2>3. CASE a \in Quizzes /\ ~OnlyUncounted(a)
    <3> DEFINE us == rows'[a]
               rs == rows[a]
    <3>1. us = {ZeroedRow(r) : r \in rs} BY <1>10, <2>3
    <3>2. rs \subseteq Attempt /\ Distinct(rs) BY <2>1
    <3> HIDE DEF us, rs
    <3>3. us \subseteq Attempt /\ Distinct(us) /\ (us = {} <=> rs = {}) BY <3>1, <3>2, RowsZeroed
    <3>4. QED BY <3>3 DEF us, rs
  <2>4. QED BY <2>2, <2>3
<1>12. RowsTyped(rows')
  <2>1. rows' = [a \in Attempted |-> rows'[a]] BY DEF Recalculate
  <2>2. QED BY <1>11, <2>1 DEF RowsTyped
<1>13. QED BY <1>2, <1>3, <1>4, <1>5, <1>6, <1>7, <1>8, <1>9, <1>10, <1>11, <1>12

(* A handler's step: the content stands still, attempts or the learning row may change. *)
LEMMA BaseStep ==
    ASSUME Base, points' = points, rule' = rule, require' = require, edits' = edits,
           RowsTyped(rows'), LearntTyped(learnt'), totals' \in Totals, Chain(totals'), Grows(totals, totals'),
           daily' \in [Lessons -> Nat \cup {NoDaily}], actives' \subseteq Activities,
           \A a \in Attempted : rows'[a] # rows[a] =>
               (\A r \in rows'[a] : r.points <= MaxPoints[a]) /\ (rows[a] # {} \/ rows'[a] = {} \/ RowAbove(totals', a)),
           \A a \in Learnings : learnt'[a] # learnt[a] =>
               /\ learnt'[a].points <= MaxPoints[a] /\ (learnt'[a].viewed = 0 => learnt'[a].points = 0)
               /\ learnt'[a].viewed > 0 => RowAbove(totals', a)
    PROVE  Base'
<1>1. Bounded'
  <2>1. Bounded BY DEF Base
  <2>2. \A a \in Activities : points'[a] <= MaxPoints[a] BY <2>1 DEF Bounded
  <2>3. \A a \in Attempted : \A r \in rows'[a] : r.points <= MaxPoints[a] BY <2>1 DEF Bounded
  <2>4. \A a \in Learnings : learnt'[a].points <= MaxPoints[a] /\ (learnt'[a].viewed = 0 => learnt'[a].points = 0)
    BY <2>1 DEF Bounded
  <2>5. QED BY <2>2, <2>3, <2>4 DEF Bounded
<1>2. Above'
  <2>1. Above BY DEF Base
  <2>2. \A a \in Attempted : rows'[a] # {} => RowAbove(totals', a) BY <2>1, FewActivities DEF Above, Grows
  <2>3. \A a \in Learnings : learnt'[a].viewed > 0 => RowAbove(totals', a) BY <2>1, FewActivities DEF Above, Grows
  <2>4. QED BY <2>2, <2>3 DEF Above
<1>3. points' \in [Activities -> Nat] /\ rule' \in BOOLEAN /\ require' \in BOOLEAN /\ edits' \in 0..MaxEdits BY BaseTypes
<1>4. TypeOK'
  <2>1. rows' \in [Attempted -> SUBSET Attempt] BY DEF RowsTyped
  <2>2. learnt' \in [Learnings -> [viewed : Nat, points : Nat] \cup {NotSeen}] BY DEF LearntTyped, LearntRow
  <2>3. totals' \in [lesson : [Lessons -> Row], level : [Levels -> Row], grade : Row] BY DEF Totals
  <2>4. QED BY <1>3, <2>1, <2>2, <2>3 DEF TypeOK
<1>5. \A a \in Attempted : Distinct(rows'[a]) BY DEF RowsTyped
<1>6. QED BY <1>1, <1>2, <1>4, <1>5 DEF Base

(* An attempt at something passed keeps it, ... *)
LEMMA PassedAgainBase ==
    ASSUME Base, NEW a \in Attempted, PassedAgain(a)
    PROVE  Base'
<1> DEFINE old == IF rule /\ a \in Quizzes THEN getpassoldpoints(a, points[a]) ELSE getoldpoints(a, points[a])
<1>1. /\ totals' \in Totals /\ Chain(totals') /\ Grows(totals, totals')
      /\ RowsTyped(rows') /\ \A b \in Attempted : b # a => rows'[b] = rows[b]
      /\ \E p \in Passes(a) : /\ rows'[a] = (rows[a] \ {p}) \cup {Repointed(p, points[a])}
                              /\ p \in rows[a] /\ p \in Attempt
  <2>1. \E o : o = old OBVIOUS
  <2> HIDE DEF old
  <2>2. QED BY <2>1, PassedAgainIs DEF old
<1>2. points' = points /\ rule' = rule /\ require' = require /\ edits' = edits /\ learnt' = learnt BY DEF PassedAgain
<1>3. LearntTyped(learnt') BY <1>2, BaseTypes
<1>4. daily' \in [Lessons -> Nat \cup {NoDaily}]
  <2>1. daily' = DailyPoints(daily, rows', learnt, a) BY DEF PassedAgain
  <2>2. QED BY <1>1, <1>2, <1>3, <2>1, BaseTypes, DailyTyped
<1>5. actives' \subseteq Activities BY BaseTypes, FewActivities DEF PassedAgain
<1>6. \A r \in rows'[a] : r.points <= MaxPoints[a]
  <2>1. PICK p \in rows[a] : rows'[a] = (rows[a] \ {p}) \cup {Repointed(p, points[a])} /\ p \in Attempt BY <1>1
  <2>2. points[a] \in Nat /\ points[a] <= MaxPoints[a] BY BaseTypes, FewActivities DEF Base, Bounded
  <2>3. Repointed(p, points[a]).points <= MaxPoints[a] BY <2>1, <2>2, RepointedIs
  <2>4. \A r \in rows[a] : r.points <= MaxPoints[a] BY DEF Base, Bounded
  <2>5. QED BY <2>1, <2>3, <2>4
<1>7. rows[a] # {} BY <1>1
<1>8. \A b \in Attempted : rows'[b] # rows[b] =>
           (\A r \in rows'[b] : r.points <= MaxPoints[b]) /\ (rows[b] # {} \/ rows'[b] = {} \/ RowAbove(totals', b))
  BY <1>1, <1>6, <1>7
<1>9. QED BY <1>1, <1>2, <1>3, <1>4, <1>5, <1>8, BaseStep

(* ... a fresh or replayed attempt does, ... *)
LEMMA SubmitBase ==
    ASSUME Base, NEW a \in Attempted, NEW start \in Nat \ {0}, NEW pct \in Percentages, NEW ver \in BOOLEAN,
           Submit(a, start, pct, ver)
    PROVE  Base'
<1> DEFINE row == NewAttempt(a, start, pct, ver)
<1>1. points[a] \in Nat /\ points[a] <= MaxPoints[a] /\ rule \in BOOLEAN /\ MaxPoints[a] \in Nat
  BY BaseTypes, FewActivities, ProgressAssumption DEF Base, Bounded
<1>2. row \in Attempt /\ row.start = start /\ row.points \in {0, points[a]}
  <2>1. \E r : r = row OBVIOUS
  <2> HIDE DEF row
  <2>2. QED BY <1>1, <2>1, NewAttemptIs DEF row
<1>3. points' = points /\ rule' = rule /\ require' = require /\ edits' = edits /\ learnt' = learnt BY DEF Submit
<1>4. LearntTyped(learnt') BY <1>3, BaseTypes
<1>5. /\ totals' \in Totals /\ Chain(totals') /\ Grows(totals, totals') /\ RowsTyped(rows')
      /\ \A b \in Attempted : rows'[b] # rows[b] =>
           (\A r \in rows'[b] : r.points <= MaxPoints[b]) /\ (rows[b] # {} \/ rows'[b] = {} \/ RowAbove(totals', b))
  <2>1. CASE \E r \in rows[a] : r.start = start
    <3>1. rows' = rows /\ totals' = totals BY <2>1 DEF Submit, Replayed
    <3>2. QED BY <3>1, BaseTypes DEF Base, Above, Grows
  <2>2. CASE ~\E r \in rows[a] : r.start = start
    <3>1. Created(a, row) BY <2>2 DEF Submit
    <3> HIDE DEF row
    <3>2. \A r \in rows[a] : r.start # row.start BY <1>2, <2>2
    <3> DEFINE old == getoldpoints(a, row.points)
               t == IF RewardDue(a, row) THEN Rewarded(totals, a, row.points, old) ELSE totals
    <3>3. \E o, u : o = old /\ u = t OBVIOUS
    <3>4. /\ totals' \in Totals /\ Chain(totals') /\ Grows(totals, totals') /\ RowAbove(totals', a)
          /\ RowsTyped(rows') /\ \A b \in Attempted : b # a => rows'[b] = rows[b]
          /\ rows'[a] = rows[a] \cup {row}
      BY <1>2, <3>1, <3>2, CreatedIs
    <3>5. row.points <= MaxPoints[a] BY <1>1, <1>2
    <3>6. \A r \in rows[a] : r.points <= MaxPoints[a] BY DEF Base, Bounded
    <3>7. \A r \in rows'[a] : r.points <= MaxPoints[a] BY <3>4, <3>5, <3>6
    <3>8. QED BY <3>4, <3>7
  <2>3. QED BY <2>1, <2>2
<1>6. daily' \in [Lessons -> Nat \cup {NoDaily}]
  <2>1. daily' = DailyPoints(daily, rows', learnt, a) BY DEF Submit
  <2>2. QED BY <1>3, <1>4, <1>5, <2>1, BaseTypes, DailyTyped
<1>7. actives' \subseteq Activities BY BaseTypes, FewActivities DEF Submit
<1>8. QED BY <1>3, <1>4, <1>5, <1>6, <1>7, BaseStep

(* ... a learning report does, ... *)
LEMMA LearningBase ==
    ASSUME Base, NEW a \in Learnings, NEW ended \in BOOLEAN, updatelearningprogress(a, ended)
    PROVE  Base'
<1>1. /\ totals' \in Totals /\ Chain(totals') /\ Grows(totals, totals')
      /\ LearntTyped(learnt')
      /\ \A b \in Learnings : b # a => learnt'[b] = learnt[b]
      /\ learnt'[a].viewed = learnt[a].viewed + (IF ended THEN 1 ELSE 0)
      /\ learnt'[a].points = IF learnt[a].viewed > 0 \/ ended THEN points[a] ELSE 0
      /\ learnt'[a].viewed > 0 => RowAbove(totals', a)
  BY LearningIs
<1>2. points' = points /\ rule' = rule /\ require' = require /\ edits' = edits /\ rows' = rows BY DEF updatelearningprogress
<1>3. RowsTyped(rows') BY <1>2, BaseTypes
<1>4. daily' \in [Lessons -> Nat \cup {NoDaily}]
  <2>1. daily' = DailyPoints(daily, rows, learnt', a) BY DEF updatelearningprogress
  <2>2. QED BY <1>1, <2>1, BaseTypes, DailyTyped
<1>5. actives' \subseteq Activities BY BaseTypes, FewActivities DEF updatelearningprogress
<1>6. learnt'[a].points <= MaxPoints[a] /\ (learnt'[a].viewed = 0 => learnt'[a].points = 0)
  <2>1. points[a] \in Nat /\ points[a] <= MaxPoints[a] /\ MaxPoints[a] \in Nat
    BY BaseTypes, FewActivities, ProgressAssumption DEF Base, Bounded
  <2>2. learnt[a].viewed \in Nat BY BaseTypes, LearntRowIs DEF LearntTyped
  <2>3. QED BY <1>1, <2>1, <2>2
<1>7. QED BY <1>1, <1>2, <1>3, <1>4, <1>5, <1>6, BaseStep

(* ... the recalculation does, ... *)
LEMMA RecalculateBase == Base /\ Recalculate => Base'
<1> SUFFICES ASSUME Base, Recalculate PROVE Base'
  OBVIOUS
<1>1. /\ totals' \in Totals /\ Chain(totals') /\ Grows(totals, totals') /\ RowsTyped(rows')
      /\ \A a \in Attempted : rows'[a] = {} <=> rows[a] = {}
      /\ \A a \in Attempted \ Quizzes : rows'[a] = rows[a]
      /\ \A q \in Quizzes : rows'[q] = IF OnlyUncounted(q) THEN rows[q] ELSE {ZeroedRow(r) : r \in rows[q]}
  BY RecalculateIs
<1>2. /\ points' = points /\ rule' = rule /\ require' = require /\ edits' = edits /\ learnt' = learnt
      /\ daily' = daily /\ actives' = actives
  BY DEF Recalculate
<1>3. ASSUME NEW a \in Attempted PROVE \A r \in rows'[a] : r.points <= MaxPoints[a]
  <2>1. \A r \in rows[a] : r.points <= MaxPoints[a] BY DEF Base, Bounded
  <2>2. MaxPoints[a] \in Nat /\ rows[a] \subseteq Attempt BY BaseTypes, FewActivities, ProgressAssumption DEF RowsTyped
  <2>3. ASSUME NEW r \in rows[a] PROVE ZeroedRow(r).points <= MaxPoints[a] BY <2>1, <2>2, ZeroedRowIs
  <2>4. CASE rows'[a] = rows[a] BY <2>1, <2>4
  <2>5. CASE rows'[a] = {ZeroedRow(r) : r \in rows[a]} BY <2>3, <2>5
  <2>6. QED BY <1>1, <2>4, <2>5
<1>4. QED BY <1>1, <1>2, <1>3, BaseTypes, BaseStep

(* Content, rule and settings change under the learner. *)
LEMMA EditBase ==
    ASSUME Base, (\E a \in Activities : ImportContent(a)) \/ SwitchRule \/ SwitchRequire
    PROVE  Base' /\ rows' = rows /\ learnt' = learnt /\ totals' = totals
<1>1. rows' = rows /\ learnt' = learnt /\ totals' = totals /\ daily' = daily /\ actives' = actives
  BY DEF ImportContent, SwitchRule, SwitchRequire
<1>2. rule' \in BOOLEAN /\ require' \in BOOLEAN BY BaseTypes DEF ImportContent, SwitchRule, SwitchRequire
<1>3. edits' \in 0..MaxEdits
  <2>1. edits < MaxEdits /\ edits' = edits + 1 BY DEF ImportContent, SwitchRule, SwitchRequire
  <2>2. edits \in 0..MaxEdits /\ MaxEdits \in Nat BY BaseTypes, ProgressAssumption
  <2>3. QED BY <2>1, <2>2
<1>4. points' \in [Activities -> Nat] /\ \A a \in Activities : points'[a] <= MaxPoints[a]
  <2>1. points \in [Activities -> Nat] /\ \A a \in Activities : points[a] <= MaxPoints[a] BY BaseTypes DEF Base, Bounded
  <2>2. CASE \E a \in Activities : ImportContent(a)
    <3>1. PICK a \in Activities : ImportContent(a) BY <2>2
    <3>2. PICK n \in 0..MaxPoints[a] : points' = [points EXCEPT ![a] = n] BY <3>1 DEF ImportContent
    <3>3. n \in Nat /\ n <= MaxPoints[a] BY <3>2, ProgressAssumption
    <3>4. QED BY <2>1, <3>2, <3>3
  <2>3. CASE SwitchRule \/ SwitchRequire
    <3>1. points' = points BY <2>3 DEF SwitchRule, SwitchRequire
    <3>2. QED BY <2>1, <3>1
  <2>4. QED BY <2>2, <2>3
<1>5. TypeOK'
  <2>1. TypeOK BY DEF Base
  <2>2. QED BY <1>1, <1>2, <1>3, <1>4, <2>1 DEF TypeOK
<1>6. Bounded' /\ Above' BY <1>1, <1>4 DEF Base, Bounded, Above
<1>7. QED BY <1>1, <1>5, <1>6 DEF Base

(* ... and so does every step. *)
LEMMA NextBase == Base /\ [RecalcNext]_vars => Base'
<1> SUFFICES ASSUME Base, [RecalcNext]_vars PROVE Base'
  OBVIOUS
<1>1. ASSUME NEW a \in Attempted, PassedAgain(a) PROVE Base' BY <1>1, PassedAgainBase
<1>2. ASSUME NEW a \in Attempted, NEW start \in 1..MaxStart[a], NEW pct \in Percentages, NEW ver \in MayBeVerified(a),
             Submit(a, start, pct, ver)
      PROVE  Base'
  <2>1. start \in Nat \ {0}
    <3>1. MaxStart[a] \in Nat BY ProgressAssumption
    <3>2. QED BY <3>1
  <2>2. ver \in BOOLEAN BY DEF MayBeVerified
  <2>3. QED BY <1>2, <2>1, <2>2, SubmitBase
<1>3. ASSUME NEW a \in Learnings, NEW ended \in BOOLEAN, updatelearningprogress(a, ended) PROVE Base' BY <1>3, LearningBase
<1>4. CASE (\E a \in Activities : ImportContent(a)) \/ SwitchRule \/ SwitchRequire BY <1>4, EditBase
<1>5. CASE Recalculate BY <1>5, RecalculateBase
<1>6. CASE UNCHANGED vars
  <2>1. UNCHANGED <<points, rule, require, rows, learnt, totals, daily, actives, edits>> BY <1>6 DEF vars
  <2>2. QED BY <2>1 DEF Base, TypeOK, Bounded, Above
<1>7. QED BY <1>1, <1>2, <1>3, <1>4, <1>5, <1>6 DEF RecalcNext, Next

-----------------------------------------------------------------------------
(* Stars. *)

(* The stars of some activities' rows. *)
Starry(rs, as) == SumFunctionOnSet([a \in Attempted |-> StarsOf(rs[a])], as)

(* A new row brings its stars. *)
LEMMA StarsOfRows ==
    ASSUME NEW rs, rs \subseteq Attempt, Distinct(rs)
    PROVE  /\ StarsOf(rs) \in Nat
           /\ \A row \in Attempt : row \notin rs => StarsOf(rs \cup {row}) = StarsOf(rs) + row.scores
<1> DEFINE f == [r \in rs |-> ScoresOf(r)]
<1>1. IsFiniteSet(rs) BY DEF Distinct
<1>2. \A r \in Attempt : ScoresOf(r) = r.scores /\ r.scores \in Nat BY DEF Attempt, ScoresOf
<1>3. \A r \in rs : f[r] \in Nat BY <1>2
<1>4. StarsOf(rs) = SumFunctionOnSet(f, rs) BY DEF StarsOf
<1> HIDE DEF f
<1>5. StarsOf(rs) \in Nat BY <1>1, <1>3, <1>4, SumNat
<1>6. ASSUME NEW row \in Attempt, row \notin rs PROVE StarsOf(rs \cup {row}) = StarsOf(rs) + row.scores
  <2> DEFINE us == rs \cup {row}
             g == [r \in us |-> ScoresOf(r)]
  <2>1. StarsOf(us) = SumFunctionOnSet(g, us) BY DEF StarsOf
  <2>2. IsFiniteSet(us) BY <1>1, FS_AddElement
  <2>3. \A r \in us : g[r] \in Int BY <1>2
  <2>4. g[row] = row.scores BY <1>2
  <2>5. row \in us /\ us \ {row} = rs BY <1>6
  <2>6. \A r \in rs : g[r] = f[r] BY DEF f
  <2> HIDE DEF g, us
  <2>7. SumFunctionOnSet(g, us) = g[row] + SumFunctionOnSet(g, rs) BY <2>2, <2>3, <2>5, SumSplit
  <2>8. SumFunctionOnSet(g, rs) = SumFunctionOnSet(f, rs) BY <1>1, <2>6, SumSame
  <2>9. row.scores \in Nat BY <1>2
  <2>10. StarsOf(us) = StarsOf(rs) + row.scores BY <1>4, <1>5, <2>1, <2>4, <2>7, <2>8, <2>9
  <2>11. QED BY <2>10 DEF us
<1>7. QED BY <1>5, <1>6

(* Crediting a pass again leaves the stars of its rows. *)
LEMMA StarsRepointed ==
    ASSUME NEW rs, rs \subseteq Attempt, Distinct(rs), NEW p \in rs, NEW n \in Nat,
           NEW us, us = (rs \ {p}) \cup {Repointed(p, n)}
    PROVE  StarsOf(us) = StarsOf(rs)
<1> DEFINE rest == rs \ {p}
           q == Repointed(p, n)
<1>1. IsFiniteSet(rest) BY FS_RemoveElement DEF Distinct
<1>2. rest \subseteq Attempt /\ Distinct(rest) BY <1>1 DEF Distinct
<1>3. p \in Attempt /\ p \notin rest /\ rs = rest \cup {p} OBVIOUS
<1>4. q \in Attempt /\ q.scores = p.scores BY <1>3, RepointedIs
<1>5. q \notin rest BY RowRepointed
<1>6. us = rest \cup {q} OBVIOUS
<1> HIDE DEF rest, q
<1>7. StarsOf(rest \cup {p}) = StarsOf(rest) + p.scores BY <1>2, <1>3, StarsOfRows
<1>8. StarsOf(rest \cup {q}) = StarsOf(rest) + q.scores BY <1>2, <1>4, <1>5, StarsOfRows
<1>9. QED BY <1>3, <1>4, <1>6, <1>7, <1>8

(* So does taking back the points of its failed attempts. *)
LEMMA StarsZeroed ==
    ASSUME NEW rs, rs \subseteq Attempt, Distinct(rs), NEW us, us = {ZeroedRow(r) : r \in rs}
    PROVE  StarsOf(us) = StarsOf(rs)
<1> DEFINE f == [r \in rs |-> ScoresOf(r)]
           e == [r \in us |-> ScoresOf(r)]
           m == [r \in rs |-> ZeroedRow(r)]
<1>1. IsFiniteSet(rs) BY DEF Distinct
<1>2. \A r \in rs : f[r] \in Int /\ m[r] \in us /\ e[m[r]] = f[r]
  <2>1. \A r \in rs : ZeroedRow(r).scores = r.scores /\ r.scores \in Int /\ ZeroedRow(r) \in us
    BY ZeroedRowIs DEF Attempt
  <2>2. QED BY <2>1 DEF ScoresOf
<1>3. \A x, y \in rs : m[x] = m[y] => x = y
  <2>1. \A r \in rs : ZeroedRow(r).start = r.start BY ZeroedRowIs
  <2>2. QED BY <2>1 DEF Distinct
<1>4. us = {m[r] : r \in rs} OBVIOUS
<1>5. StarsOf(us) = SumFunctionOnSet(e, us) /\ StarsOf(rs) = SumFunctionOnSet(f, rs) BY DEF StarsOf
<1> HIDE DEF f, e, m
<1>6. SumFunctionOnSet(e, {m[r] : r \in rs}) = SumFunctionOnSet(f, rs) BY <1>1, <1>2, <1>3, SumRenamed
<1>7. QED BY <1>4, <1>5, <1>6

(* StarsAddUp, of any rows. *)
LessonStars(t, rs) == [l \in Lessons |-> Starry(rs, In(l, Quizzes)) + Once(t.lesson[l])]
LevelStars(t, rs) == [v \in Levels |-> Starry(rs, {v}) + Once(t.level[v])]

StarsEven(t, rs) ==
    Even([l \in Lessons |-> t.lesson[l].scores], [v \in Levels |-> t.level[v].scores], t.grade.scores,
         LessonStars(t, rs), LevelStars(t, rs))

(* Stars are integers, added up or not. *)
LEMMA StarsTyped ==
    ASSUME NEW t \in Totals, NEW rs, RowsTyped(rs)
    PROVE  /\ \A l \in Lessons : t.lesson[l].scores \in Int /\ LessonStars(t, rs)[l] \in Int
           /\ \A v \in Levels : t.level[v].scores \in Int /\ LevelStars(t, rs)[v] \in Int
           /\ t.grade.scores \in Int
           /\ \A as : as \subseteq Attempted => Starry(rs, as) \in Int
<1> DEFINE f == [a \in Attempted |-> StarsOf(rs[a])]
<1>1. \A row \in Row : row.scores \in Int /\ Once(row) \in Int BY RowFacts DEF Once
<1>2. \A a \in Attempted : f[a] \in Int BY StarsOfRows DEF RowsTyped
<1>3. ASSUME NEW as, as \subseteq Attempted PROVE Starry(rs, as) \in Int
  <2>1. IsFiniteSet(as) /\ \A a \in as : f[a] \in Int BY <1>2, <1>3, FewActivities
  <2>2. Starry(rs, as) = SumFunctionOnSet(f, as) BY DEF Starry
  <2> HIDE DEF f
  <2>3. QED BY <2>1, <2>2, SumTyped
<1>4. \A l \in Lessons : In(l, Quizzes) \subseteq Attempted BY FewActivities
<1>5. \A v \in Levels : {v} \subseteq Attempted BY FewActivities
<1>6. /\ \A l \in Lessons : t.lesson[l] \in Row
      /\ \A v \in Levels : t.level[v] \in Row
      /\ t.grade \in Row
  BY DEF Totals
<1>7. ASSUME NEW l \in Lessons PROVE LessonStars(t, rs)[l] \in Int
  <2> DEFINE x == Starry(rs, In(l, Quizzes))
             y == Once(t.lesson[l])
  <2>1. x \in Int /\ y \in Int BY <1>1, <1>3, <1>4, <1>6
  <2>2. LessonStars(t, rs)[l] = x + y BY DEF LessonStars
  <2> HIDE DEF x, y
  <2>3. QED BY <2>1, <2>2
<1>8. ASSUME NEW v \in Levels PROVE LevelStars(t, rs)[v] \in Int
  <2> DEFINE x == Starry(rs, {v})
             y == Once(t.level[v])
  <2>1. x \in Int /\ y \in Int BY <1>1, <1>3, <1>5, <1>6
  <2>2. LevelStars(t, rs)[v] = x + y BY DEF LevelStars
  <2> HIDE DEF x, y
  <2>3. QED BY <2>1, <2>2
<1>9. QED BY <1>1, <1>3, <1>6, <1>7, <1>8

(* Stars are even when every row has those of what is below it. *)
LEMMA StarsEvenIs ==
    ASSUME NEW t \in Totals, NEW rs, RowsTyped(rs)
    PROVE  StarsEven(t, rs) <=>
             /\ \A l \in Lessons : ScoresOf(t.lesson[l]) = Starry(rs, In(l, Quizzes)) + Once(t.lesson[l])
             /\ \A v \in Levels : ScoresOf(t.level[v]) = Starry(rs, {v}) + Once(t.level[v])
                   + SumFunctionOnSet([l \in Lessons |-> ScoresOf(t.lesson[l])], LessonsOf(v))
             /\ ScoresOf(t.grade) = SumFunctionOnSet([v \in Levels |-> ScoresOf(t.level[v])], Levels)
<1> DEFINE f == [l \in Lessons |-> t.lesson[l].scores]
           g == [v \in Levels |-> t.level[v].scores]
<1>1. [l \in Lessons |-> ScoresOf(t.lesson[l])] = f /\ [v \in Levels |-> ScoresOf(t.level[v])] = g BY DEF ScoresOf
<1>2. ASSUME NEW v \in Levels
      PROVE  LevelStars(t, rs)[v] = Starry(rs, {v}) + Once(t.level[v])
             /\ SumFunctionOnSet(f, LessonsOf(v)) + LevelStars(t, rs)[v] = LevelStars(t, rs)[v] + SumFunctionOnSet(f, LessonsOf(v))
  <2> DEFINE x == LevelStars(t, rs)[v]
             y == SumFunctionOnSet(f, LessonsOf(v))
  <2>1. x = Starry(rs, {v}) + Once(t.level[v]) BY DEF LevelStars
  <2>2. x \in Int BY StarsTyped
  <2>3. y \in Int
    <3>1. IsFiniteSet(LessonsOf(v)) /\ \A l \in LessonsOf(v) : f[l] \in Int BY FewOfEach, StarsTyped
    <3> HIDE DEF f
    <3>2. QED BY <3>1, SumTyped
  <2> HIDE DEF x, y
  <2>4. y + x = x + y BY <2>2, <2>3
  <2>5. QED BY <2>1, <2>4 DEF x, y
<1>3. \A l \in Lessons : LessonStars(t, rs)[l] = Starry(rs, In(l, Quizzes)) + Once(t.lesson[l]) BY DEF LessonStars
<1>4. \A l \in Lessons : f[l] = ScoresOf(t.lesson[l]) BY DEF ScoresOf
<1>5. \A v \in Levels : g[v] = ScoresOf(t.level[v]) BY DEF ScoresOf
<1>6. StarsEven(t, rs) <=> Even(f, g, ScoresOf(t.grade), LessonStars(t, rs), LevelStars(t, rs)) BY DEF StarsEven, ScoresOf
<1> HIDE DEF f, g
<1>7. QED BY <1>1, <1>2, <1>3, <1>4, <1>5, <1>6 DEF Even

(* One activity's stars more or less. *)
LEMMA StarryMoves ==
    ASSUME NEW rs, RowsTyped(rs), NEW us, RowsTyped(us), NEW as, as \subseteq Attempted
    PROVE  /\ (\A b \in as : StarsOf(us[b]) = StarsOf(rs[b])) => Starry(us, as) = Starry(rs, as)
           /\ \A a \in as : (\A b \in as : b # a => StarsOf(us[b]) = StarsOf(rs[b])) =>
                 Starry(us, as) = Starry(rs, as) + (StarsOf(us[a]) - StarsOf(rs[a]))
<1> DEFINE f == [a \in Attempted |-> StarsOf(rs[a])]
           e == [a \in Attempted |-> StarsOf(us[a])]
<1>1. \A a \in Attempted : f[a] \in Int /\ e[a] \in Int BY StarsOfRows DEF RowsTyped
<1>2. IsFiniteSet(as) BY FewActivities
<1>3. Starry(rs, as) = SumFunctionOnSet(f, as) /\ Starry(us, as) = SumFunctionOnSet(e, as) BY DEF Starry
<1>4. \A a \in as : f[a] = StarsOf(rs[a]) /\ e[a] = StarsOf(us[a]) OBVIOUS
<1> HIDE DEF f, e
<1>5. ASSUME \A b \in as : StarsOf(us[b]) = StarsOf(rs[b]) PROVE Starry(us, as) = Starry(rs, as)
  <2>1. \A b \in as : e[b] = f[b] BY <1>4, <1>5
  <2>2. QED BY <1>2, <1>3, <2>1, SumSame
<1>6. ASSUME NEW a \in as, \A b \in as : b # a => StarsOf(us[b]) = StarsOf(rs[b])
      PROVE  Starry(us, as) = Starry(rs, as) + (StarsOf(us[a]) - StarsOf(rs[a]))
  <2>1. \A b \in as \ {a} : e[b] = f[b] BY <1>4, <1>6
  <2>2. \A b \in as : f[b] \in Int /\ e[b] \in Int BY <1>1
  <2>3. SumFunctionOnSet(e, as) = SumFunctionOnSet(f, as) + (e[a] - f[a]) BY <1>2, <2>1, <2>2, SumChange
  <2>4. QED BY <1>3, <1>4, <2>3
<1>7. QED BY <1>5, <1>6

(* Rewards, re-credited passes and the recalculation move no stars. *)
LEMMA StarsStay ==
    ASSUME NEW t \in Totals, NEW u \in Totals, NEW rs, RowsTyped(rs), NEW us, RowsTyped(us), StarsEven(t, rs),
           \A l \in Lessons : Kept(t.lesson[l], u.lesson[l]),
           \A v \in Levels : Kept(t.level[v], u.level[v]),
           Kept(t.grade, u.grade),
           \A a \in Attempted : StarsOf(us[a]) = StarsOf(rs[a])
    PROVE  StarsEven(u, us)
<1>1. \A as : as \subseteq Attempted => Starry(us, as) = Starry(rs, as)
  <2>1. ASSUME NEW as, as \subseteq Attempted PROVE Starry(us, as) = Starry(rs, as)
    <3>1. \A b \in as : StarsOf(us[b]) = StarsOf(rs[b]) BY <2>1
    <3>2. (\A b \in as : StarsOf(us[b]) = StarsOf(rs[b])) => Starry(us, as) = Starry(rs, as) BY <2>1, StarryMoves
    <3>3. QED BY <3>1, <3>2
  <2>2. QED BY <2>1
<1>2. \A l \in Lessons : LessonStars(u, us)[l] = LessonStars(t, rs)[l]
  <2>1. ASSUME NEW l \in Lessons PROVE LessonStars(u, us)[l] = LessonStars(t, rs)[l]
    <3>1. In(l, Quizzes) \subseteq Attempted BY FewActivities
    <3>2. Starry(us, In(l, Quizzes)) = Starry(rs, In(l, Quizzes)) BY <1>1, <3>1
    <3>3. Once(u.lesson[l]) = Once(t.lesson[l]) BY DEF Kept
    <3>4. QED BY <3>2, <3>3 DEF LessonStars
  <2>2. QED BY <2>1
<1>3. \A v \in Levels : LevelStars(u, us)[v] = LevelStars(t, rs)[v]
  <2>1. ASSUME NEW v \in Levels PROVE LevelStars(u, us)[v] = LevelStars(t, rs)[v]
    <3>1. {v} \subseteq Attempted BY FewActivities
    <3>2. Starry(us, {v}) = Starry(rs, {v}) BY <1>1, <3>1
    <3>3. Once(u.level[v]) = Once(t.level[v]) BY DEF Kept
    <3>4. QED BY <3>2, <3>3 DEF LevelStars
  <2>2. QED BY <2>1
<1> DEFINE pl == [l \in Lessons |-> t.lesson[l].scores]
           pv == [v \in Levels |-> t.level[v].scores]
           ql == [l \in Lessons |-> u.lesson[l].scores]
           qv == [v \in Levels |-> u.level[v].scores]
<1>4. (\A l \in Lessons : ql[l] = pl[l]) /\ (\A v \in Levels : qv[v] = pv[v]) /\ u.grade.scores = t.grade.scores
  BY DEF Kept
<1>5. Even(pl, pv, t.grade.scores, LessonStars(t, rs), LevelStars(t, rs)) BY DEF StarsEven
<1> HIDE DEF pl, pv, ql, qv
<1>6. Even(ql, qv, u.grade.scores, LessonStars(u, us), LevelStars(u, us)) BY <1>2, <1>3, <1>4, <1>5, NothingMoves
<1>7. QED BY <1>6 DEF ql, qv, StarsEven

(* The stars of a lesson reach its level and the grade; its bonus star comes once. *)
LEMMA LessonStarsMove ==
    ASSUME NEW t \in Totals, Chain(t), NEW rs, RowsTyped(rs), NEW us, RowsTyped(us), StarsEven(t, rs),
           NEW l0 \in Lessons, NEW n \in Nat, t.lesson[l0] # NoRow \/ n = 0,
           NEW u, u = addstudentscores(t, l0, n),
           Starry(us, In(l0, Quizzes)) = Starry(rs, In(l0, Quizzes)) + n,
           \A l \in Lessons : l # l0 => Starry(us, In(l, Quizzes)) = Starry(rs, In(l, Quizzes)),
           \A v \in Levels : Starry(us, {v}) = Starry(rs, {v})
    PROVE  StarsEven(u, us)
<1> DEFINE b  == Bonus(t.lesson[l0], TotalPoints[l0])
           v0 == LevelOf[l0]
           d == n + b
           pl == [l \in Lessons |-> t.lesson[l].scores]
           pv == [v \in Levels |-> t.level[v].scores]
           pg == t.grade.scores
           ql == [l \in Lessons |-> u.lesson[l].scores]
           qv == [v \in Levels |-> u.level[v].scores]
           qg == u.grade.scores
           hl == LessonStars(t, rs)
           hv == LevelStars(t, rs)
           kl == LessonStars(u, us)
           kv == LevelStars(u, us)
<1>0. LessonStarred(t, l0, n, u) BY LessonStarsAre
<1>1. v0 \in Levels BY Places
<1>2. u \in Totals /\ b \in Nat BY <1>0 DEF LessonStarred
<1>3. \A l \in Lessons : l # l0 => u.lesson[l] = t.lesson[l] BY <1>0 DEF LessonStarred
<1>4. \A v \in Levels : v # v0 => u.level[v] = t.level[v] BY <1>0 DEF LessonStarred
<1>5. Once(u.lesson[l0]) = Once(t.lesson[l0]) + b /\ Once(u.level[v0]) = Once(t.level[v0]) BY <1>0 DEF LessonStarred
<1>6. /\ t.lesson[l0] # NoRow => u.lesson[l0].scores = t.lesson[l0].scores + n + b
      /\ t.level[v0] # NoRow => u.level[v0].scores = t.level[v0].scores + n + b
      /\ t.grade # NoRow => u.grade.scores = t.grade.scores + n + b
      /\ t.lesson[l0] = NoRow => b = 0 /\ u.lesson[l0] = t.lesson[l0]
      /\ n + b = 0 => u.level[v0].scores = t.level[v0].scores /\ u.grade.scores = t.grade.scores
  BY <1>0 DEF LessonStarred
<1>7. t.lesson[l0].scores \in Int /\ t.level[v0].scores \in Int /\ t.grade.scores \in Int BY <1>1, StarsTyped
<1>8. d \in Int BY <1>2
<1>9. u.lesson[l0].scores = t.lesson[l0].scores + d /\ u.level[v0].scores = t.level[v0].scores + d /\ qg = pg + d
  <2>1. CASE t.lesson[l0] # NoRow
    <3>1. t.level[v0] # NoRow /\ t.grade # NoRow BY <1>1, <2>1 DEF Chain
    <3> HIDE DEF b, v0
    <3>2. QED BY <1>2, <1>6, <1>7, <2>1, <3>1
  <2>2. CASE t.lesson[l0] = NoRow
    <3>1. n = 0 /\ b = 0 /\ u.lesson[l0] = t.lesson[l0] BY <1>6, <2>2
    <3> HIDE DEF b, v0
    <3>2. n + b = 0 BY <3>1
    <3>3. QED BY <1>6, <1>7, <3>1, <3>2
  <2>3. QED BY <2>1, <2>2
<1>10. \A l \in Lessons : pl[l] \in Int /\ hl[l] \in Int BY StarsTyped
<1>11. \A v \in Levels : pv[v] \in Int /\ hv[v] \in Int BY StarsTyped
<1>12. \A l \in Lessons : ql[l] = IF l = l0 THEN pl[l] + d ELSE pl[l] BY <1>3, <1>9
<1>13. \A v \in Levels : qv[v] = IF v = v0 THEN pv[v] + d ELSE pv[v] BY <1>4, <1>9
<1>14. \A l \in Lessons : kl[l] = IF l = l0 THEN hl[l] + d ELSE hl[l]
  <2>1. ASSUME NEW l \in Lessons, l # l0 PROVE kl[l] = hl[l] BY <1>3, <2>1 DEF LessonStars
  <2>2. kl[l0] = hl[l0] + d
    <3> DEFINE x == Starry(rs, In(l0, Quizzes))
               y == Once(t.lesson[l0])
    <3>1. hl[l0] = x + y BY DEF LessonStars
    <3>2. kl[l0] = (x + n) + (y + b) BY <1>5 DEF LessonStars
    <3>3. x \in Int
      <4>1. In(l0, Quizzes) \subseteq Attempted BY FewActivities
      <4>2. QED BY <4>1, StarsTyped
    <3>4. y \in Int BY DEF Once
    <3> HIDE DEF x, y, b, hl, kl
    <3>5. QED BY <1>2, <3>1, <3>2, <3>3, <3>4
  <2> HIDE DEF d, hl, kl
  <2>3. QED BY <2>1, <2>2
<1>15. \A v \in Levels : kv[v] = hv[v]
  <2>1. ASSUME NEW v \in Levels PROVE kv[v] = hv[v]
    <3>1. Once(u.level[v]) = Once(t.level[v])
      <4> HIDE DEF v0
      <4>1. QED BY <1>4, <1>5
    <3>2. QED BY <3>1 DEF LevelStars
  <2>2. QED BY <2>1
<1>16. Even(pl, pv, pg, hl, hv) BY DEF StarsEven
<1>17. v0 = LevelOf[l0] /\ qg = pg + d BY <1>9
<1> HIDE DEF pl, pv, pg, ql, qv, qg, hl, hv, kl, kv, d, v0
<1>18. Even(ql, qv, qg, kl, kv)
  BY <1>8, <1>10, <1>11, <1>12, <1>13, <1>14, <1>15, <1>16, <1>17, LessonMoves
<1>19. QED BY <1>18 DEF ql, qv, qg, kl, kv, StarsEven

(* The stars of a level's quiz reach the level and the grade; its default star comes once. *)
LEMMA LevelStarsMove ==
    ASSUME NEW t \in Totals, Chain(t), NEW rs, RowsTyped(rs), NEW us, RowsTyped(us), StarsEven(t, rs),
           NEW v0 \in Levels, NEW n \in Nat, t.level[v0] # NoRow,
           NEW u, u = addstudentlevelquizscores(t, v0, n),
           Starry(us, {v0}) = Starry(rs, {v0}) + n,
           \A v \in Levels : v # v0 => Starry(us, {v}) = Starry(rs, {v}),
           \A l \in Lessons : Starry(us, In(l, Quizzes)) = Starry(rs, In(l, Quizzes))
    PROVE  StarsEven(u, us)
<1> DEFINE b == DefaultStar(t.level[v0])
           d == n + b
           pl == [l \in Lessons |-> t.lesson[l].scores]
           pv == [v \in Levels |-> t.level[v].scores]
           pg == t.grade.scores
           ql == [l \in Lessons |-> u.lesson[l].scores]
           qv == [v \in Levels |-> u.level[v].scores]
           qg == u.grade.scores
           hl == LessonStars(t, rs)
           hv == LevelStars(t, rs)
           kl == LessonStars(u, us)
           kv == LevelStars(u, us)
<1>0. LevelStarred(t, v0, n, u) BY LevelStarsAre
<1>1. u \in Totals /\ b \in Nat BY <1>0 DEF LevelStarred
<1>2. \A l \in Lessons : u.lesson[l] = t.lesson[l] BY <1>0 DEF LevelStarred
<1>3. \A v \in Levels : v # v0 => u.level[v] = t.level[v] BY <1>0 DEF LevelStarred
<1>4. Once(u.level[v0]) = Once(t.level[v0]) + b BY <1>0 DEF LevelStarred
<1>5. t.grade # NoRow BY DEF Chain
<1>6. u.level[v0].scores = t.level[v0].scores + n + b /\ u.grade.scores = t.grade.scores + n + b BY <1>0, <1>5 DEF LevelStarred
<1>7. t.level[v0].scores \in Int /\ t.grade.scores \in Int BY StarsTyped
<1>8. d \in Int BY <1>1
<1>9. u.level[v0].scores = t.level[v0].scores + d /\ qg = pg + d
  <2> HIDE DEF b
  <2>1. QED BY <1>1, <1>6, <1>7
<1>10. \A l \in Lessons : pl[l] \in Int /\ hl[l] \in Int BY StarsTyped
<1>11. \A v \in Levels : pv[v] \in Int /\ hv[v] \in Int BY StarsTyped
<1>12. \A l \in Lessons : ql[l] = pl[l] BY <1>2
<1>13. \A v \in Levels : qv[v] = IF v = v0 THEN pv[v] + d ELSE pv[v] BY <1>3, <1>9
<1>14. \A v \in Levels : kv[v] = IF v = v0 THEN hv[v] + d ELSE hv[v]
  <2>1. ASSUME NEW v \in Levels, v # v0 PROVE kv[v] = hv[v] BY <1>3, <2>1 DEF LevelStars
  <2>2. kv[v0] = hv[v0] + d
    <3> DEFINE x == Starry(rs, {v0})
               y == Once(t.level[v0])
    <3>1. hv[v0] = x + y BY DEF LevelStars
    <3>2. kv[v0] = (x + n) + (y + b) BY <1>4 DEF LevelStars
    <3>3. x \in Int
      <4>1. {v0} \subseteq Attempted BY FewActivities
      <4>2. QED BY <4>1, StarsTyped
    <3>4. y \in Int BY DEF Once
    <3> HIDE DEF x, y, b, hv, kv
    <3>5. QED BY <1>1, <3>1, <3>2, <3>3, <3>4
  <2> HIDE DEF d, hv, kv
  <2>3. QED BY <2>1, <2>2
<1>15. \A l \in Lessons : kl[l] = hl[l]
  <2>1. ASSUME NEW l \in Lessons PROVE kl[l] = hl[l] BY <1>2 DEF LessonStars
  <2>2. QED BY <2>1
<1>16. Even(pl, pv, pg, hl, hv) BY DEF StarsEven
<1>17. qg = pg + d BY <1>9
<1> HIDE DEF pl, pv, pg, ql, qv, qg, hl, hv, kl, kv, d
<1>18. Even(ql, qv, qg, kl, kv)
  BY <1>8, <1>10, <1>11, <1>12, <1>13, <1>14, <1>15, <1>16, <1>17, LevelMoves
<1>19. QED BY <1>18 DEF ql, qv, qg, kl, kv, StarsEven

(* The property in these words, now and after a step. *)
LEMMA StarsInWords ==
    /\ Base => (StarsAddUp <=> StarsEven(totals, rows))
    /\ Base' => (StarsAddUp' <=> StarsEven(totals', rows'))
<1>1. ASSUME Base PROVE StarsAddUp <=> StarsEven(totals, rows)
  <2>1. totals \in Totals /\ RowsTyped(rows) BY <1>1, BaseTypes
  <2>2. QED BY <2>1, StarsEvenIs DEF StarsAddUp, StarsHeld, Starry
<1>2. ASSUME Base' PROVE StarsAddUp' <=> StarsEven(totals', rows')
  <2>1. totals' \in Totals /\ RowsTyped(rows') BY <1>2 DEF Base, TypeOK, Totals, RowsTyped
  <2> DEFINE u == totals'
             us == rows'
  <2>2. StarsAddUp' <=>
             /\ \A l \in Lessons : ScoresOf(u.lesson[l]) = Starry(us, In(l, Quizzes)) + Once(u.lesson[l])
             /\ \A v \in Levels : ScoresOf(u.level[v]) = Starry(us, {v}) + Once(u.level[v])
                   + SumFunctionOnSet([l \in Lessons |-> ScoresOf(u.lesson[l])], LessonsOf(v))
             /\ ScoresOf(u.grade) = SumFunctionOnSet([v \in Levels |-> ScoresOf(u.level[v])], Levels)
    BY DEF StarsAddUp, StarsHeld, Starry
  <2>3. u \in Totals /\ RowsTyped(us) BY <2>1
  <2> HIDE DEF u, us
  <2>4. StarsAddUp' <=> StarsEven(u, us) BY <2>2, <2>3, StarsEvenIs
  <2>5. QED BY <2>4 DEF u, us
<1>3. QED BY <1>1, <1>2

(* A reward, given or not, keeps every row's stars. *)
LEMMA RewardKeepsStars ==
    ASSUME NEW t \in Totals, NEW a \in Activities, NEW new \in Nat, NEW old \in Nat \cup {NoOld}, NEW u,
           u = t \/ u = Rewarded(t, a, new, old)
    PROVE  /\ \A l \in Lessons : Kept(t.lesson[l], u.lesson[l])
           /\ \A v \in Levels : Kept(t.level[v], u.level[v])
           /\ Kept(t.grade, u.grade)
<1>1. CASE u = t BY <1>1 DEF Kept
<1>2. CASE u = Rewarded(t, a, new, old) BY <1>2, RewardedIs
<1>3. QED BY <1>1, <1>2

(* An attempt at something passed moves no stars. *)
LEMMA PassedAgainStars ==
    ASSUME Base, Base', NEW a \in Attempted, PassedAgain(a), StarsEven(totals, rows)
    PROVE  StarsEven(totals', rows')
<1> DEFINE old == IF rule /\ a \in Quizzes THEN getpassoldpoints(a, points[a]) ELSE getoldpoints(a, points[a])
<1>1. /\ old \in Nat \cup {NoOld}
      /\ totals' = totals \/ totals' = Rewarded(totals, a, points[a], old)
      /\ totals' \in Totals /\ RowsTyped(rows') /\ \A b \in Attempted : b # a => rows'[b] = rows[b]
      /\ \E p \in Passes(a) : /\ rows'[a] = (rows[a] \ {p}) \cup {Repointed(p, points[a])}
                              /\ p \in rows[a] /\ p \in Attempt
  <2>1. \E o : o = old OBVIOUS
  <2> HIDE DEF old
  <2>2. QED BY <2>1, PassedAgainIs DEF old
<1>2. totals \in Totals /\ RowsTyped(rows) /\ points[a] \in Nat /\ a \in Activities BY BaseTypes, FewActivities
<1> HIDE DEF old
<1>3. /\ \A l \in Lessons : Kept(totals.lesson[l], totals'.lesson[l])
      /\ \A v \in Levels : Kept(totals.level[v], totals'.level[v])
      /\ Kept(totals.grade, totals'.grade)
  <2> DEFINE u == totals'
             n == points[a]
  <2>1. u = totals \/ u = Rewarded(totals, a, n, old) BY <1>1
  <2>2. n \in Nat BY <1>2
  <2> HIDE DEF u, n
  <2>3. /\ \A l \in Lessons : Kept(totals.lesson[l], u.lesson[l])
        /\ \A v \in Levels : Kept(totals.level[v], u.level[v])
        /\ Kept(totals.grade, u.grade)
    BY <1>1, <1>2, <2>1, <2>2, RewardKeepsStars
  <2>4. QED BY <2>3 DEF u
<1>4. StarsOf(rows'[a]) = StarsOf(rows[a])
  <2> DEFINE rs == rows[a]
             us == rows'[a]
             n == points[a]
  <2>1. PICK p \in rs : us = (rs \ {p}) \cup {Repointed(p, n)} BY <1>1
  <2>2. rs \subseteq Attempt /\ Distinct(rs) /\ n \in Nat BY <1>2 DEF RowsTyped
  <2> HIDE DEF rs, us, n
  <2>3. StarsOf(us) = StarsOf(rs) BY <2>1, <2>2, StarsRepointed
  <2>4. QED BY <2>3 DEF us, rs
<1>5. \A b \in Attempted : StarsOf(rows'[b]) = StarsOf(rows[b]) BY <1>1, <1>4
<1>6. QED BY <1>1, <1>2, <1>3, <1>5, StarsStay

(* The stars of a new row go to its lesson's quizzes or to its level's; those of the others stay. *)
OneMoved(rs, us, a, n) ==
           /\ a \notin Levels => /\ Starry(us, In(LessonOf[a], Quizzes)) = Starry(rs, In(LessonOf[a], Quizzes)) + n
                                 /\ \A l \in Lessons : l # LessonOf[a] => Starry(us, In(l, Quizzes)) = Starry(rs, In(l, Quizzes))
                                 /\ \A v \in Levels : Starry(us, {v}) = Starry(rs, {v})
           /\ a \in Levels => /\ Starry(us, {a}) = Starry(rs, {a}) + n
                              /\ \A v \in Levels : v # a => Starry(us, {v}) = Starry(rs, {v})
                              /\ \A l \in Lessons : Starry(us, In(l, Quizzes)) = Starry(rs, In(l, Quizzes))

(* A handler that moves the stars of one activity by n moves those of its lesson or level, and no other. *)
LEMMA OtherStars ==
    ASSUME NEW rs, RowsTyped(rs), NEW us, RowsTyped(us), NEW a \in Attempted, NEW n \in Nat,
           StarsOf(us[a]) = StarsOf(rs[a]) + n, a \in Practices => n = 0,
           \A b \in Attempted : b # a => us[b] = rs[b]
    PROVE  OneMoved(rs, us, a, n)
<1>1. ASSUME NEW as, as \subseteq Attempted
      PROVE  /\ a \notin as => Starry(us, as) = Starry(rs, as)
             /\ a \in as => Starry(us, as) = Starry(rs, as) + n
  <2>1. CASE a \notin as
    <3>1. \A b \in as : StarsOf(us[b]) = StarsOf(rs[b]) BY <1>1, <2>1
    <3>2. (\A b \in as : StarsOf(us[b]) = StarsOf(rs[b])) => Starry(us, as) = Starry(rs, as) BY <1>1, StarryMoves
    <3>3. QED BY <2>1, <3>1, <3>2
  <2>2. CASE a \in as
    <3>1. \A b \in as : b # a => StarsOf(us[b]) = StarsOf(rs[b]) BY <1>1
    <3>2. Starry(us, as) = Starry(rs, as) + (StarsOf(us[a]) - StarsOf(rs[a])) BY <1>1, <2>2, <3>1, StarryMoves
    <3>3. StarsOf(rs[a]) \in Nat BY StarsOfRows DEF RowsTyped
    <3>4. StarsOf(us[a]) - StarsOf(rs[a]) = n BY <3>3
    <3>5. QED BY <2>2, <3>2, <3>4
  <2>3. QED BY <2>1, <2>2
<1>2. \A l : In(l, Quizzes) \subseteq Attempted /\ \A v \in Levels : {v} \subseteq Attempted BY FewActivities
<1>3. \A as : as \subseteq Attempted => Starry(rs, as) \in Int
  <2>1. PICK t : t \in Totals
    <3>1. NoRow \in Row BY DEF Row
    <3>2. [lesson |-> [l \in Lessons |-> NoRow], level |-> [v \in Levels |-> NoRow], grade |-> NoRow] \in Totals
      BY <3>1 DEF Totals
    <3>3. QED BY <3>2
  <2>2. QED BY <2>1, StarsTyped
<1>4. ASSUME a \in Levels
      PROVE  /\ Starry(us, {a}) = Starry(rs, {a}) + n
             /\ \A v \in Levels : v # a => Starry(us, {v}) = Starry(rs, {v})
             /\ \A l \in Lessons : Starry(us, In(l, Quizzes)) = Starry(rs, In(l, Quizzes))
  <2>1. \A l : a \notin In(l, Quizzes) BY <1>4, ProgressAssumption DEF In
  <2>2. QED BY <1>1, <1>2, <1>4, <2>1
<1>5. ASSUME a \notin Levels
      PROVE  /\ Starry(us, In(LessonOf[a], Quizzes)) = Starry(rs, In(LessonOf[a], Quizzes)) + n
             /\ \A l \in Lessons : l # LessonOf[a] => Starry(us, In(l, Quizzes)) = Starry(rs, In(l, Quizzes))
             /\ \A v \in Levels : Starry(us, {v}) = Starry(rs, {v})
  <2>1. \A l : l # LessonOf[a] => a \notin In(l, Quizzes) BY DEF In
  <2>2. \A v \in Levels : a \notin {v} BY <1>5
  <2>3. Starry(us, In(LessonOf[a], Quizzes)) = Starry(rs, In(LessonOf[a], Quizzes)) + n
    <3> DEFINE as == In(LessonOf[a], Quizzes)
    <3>1. a \in Practices \cup Quizzes BY <1>5 DEF Attempted
    <3>2. CASE a \in Quizzes
      <4>1. a \in as BY <3>2 DEF In
      <4>2. QED BY <1>1, <1>2, <4>1
    <3>3. CASE a \in Practices
      <4>1. a \notin as BY <3>3, ProgressAssumption DEF In
      <4>2. n = 0 BY <3>3
      <4>3. Starry(rs, as) \in Int BY <1>2, <1>3
      <4>4. Starry(us, as) = Starry(rs, as) BY <1>1, <1>2, <4>1
      <4> DEFINE x == Starry(rs, as)
                 y == Starry(us, as)
      <4>5. x \in Int /\ y = x BY <4>3, <4>4
      <4> HIDE DEF x, y
      <4>6. y = x + n BY <4>2, <4>5
      <4>7. QED BY <4>6 DEF x, y
    <3>4. QED BY <3>1, <3>2, <3>3
  <2>4. QED BY <1>1, <1>2, <2>1, <2>2, <2>3
<1>6. QED BY <1>4, <1>5 DEF OneMoved

(* A fresh attempt brings its own to the rows above it. *)
LEMMA SubmitStars ==
    ASSUME Base, Base', NEW a \in Attempted, NEW start \in Nat \ {0}, NEW pct \in Percentages, NEW ver \in BOOLEAN,
           Submit(a, start, pct, ver), StarsEven(totals, rows)
    PROVE  StarsEven(totals', rows')
<1> DEFINE row == NewAttempt(a, start, pct, ver)
<1>1. points[a] \in Nat /\ rule \in BOOLEAN /\ totals \in Totals /\ RowsTyped(rows) /\ a \in Activities
  BY BaseTypes, FewActivities
<1>2. row \in Attempt /\ row.start = start /\ (a \in Practices => row.scores = 0)
  <2>1. \E r : r = row OBVIOUS
  <2> HIDE DEF row
  <2>2. QED BY <1>1, <2>1, NewAttemptIs DEF row
<1>3. CASE \E r \in rows[a] : r.start = start
  <2>1. rows' = rows /\ totals' = totals BY <1>3 DEF Submit, Replayed
  <2>2. QED BY <2>1
<1>4. CASE ~\E r \in rows[a] : r.start = start
  <2>1. Created(a, row) BY <1>4 DEF Submit
  <2> HIDE DEF row
  <2>2. \A r \in rows[a] : r.start # row.start BY <1>2, <1>4
  <2>3. PICK old : old = getoldpoints(a, row.points) OBVIOUS
  <2>4. PICK t : t = IF RewardDue(a, row) THEN Rewarded(totals, a, row.points, old) ELSE totals OBVIOUS
  <2>5. /\ old \in Nat \cup {NoOld} /\ t \in Totals /\ Chain(t) /\ RowAbove(t, a)
        /\ totals' = Scored(t, a, row.scores)
        /\ RowsTyped(rows') /\ \A b \in Attempted : b # a => rows'[b] = rows[b]
        /\ rows'[a] = rows[a] \cup {row}
    BY <1>2, <2>1, <2>2, <2>3, <2>4, CreatedIs
  <2> DEFINE n == row.scores
             us == rows'
             u == totals'
  <2>6. row.points \in Nat /\ n \in Nat BY <1>2 DEF Attempt
  <2>7. /\ \A l \in Lessons : Kept(totals.lesson[l], t.lesson[l])
        /\ \A v \in Levels : Kept(totals.level[v], t.level[v])
        /\ Kept(totals.grade, t.grade)
    <3> DEFINE m == row.points
    <3>1. t = totals \/ t = Rewarded(totals, a, m, old) BY <2>4
    <3>2. m \in Nat BY <2>6
    <3> HIDE DEF m
    <3>3. QED BY <1>1, <2>5, <3>1, <3>2, RewardKeepsStars
  <2>8. StarsEven(t, rows) BY <1>1, <2>5, <2>7, StarsStay
  <2>9. StarsOf(us[a]) = StarsOf(rows[a]) + n
    <3>1. rows[a] \subseteq Attempt /\ Distinct(rows[a]) /\ row \notin rows[a] BY <1>1, <2>2 DEF RowsTyped
    <3>2. QED BY <1>2, <2>5, <3>1, StarsOfRows
  <2>10. RowsTyped(us) /\ (\A b \in Attempted : b # a => us[b] = rows[b]) /\ u = Scored(t, a, n) /\ (a \in Practices => n = 0)
    BY <1>2, <2>5
  <2> HIDE DEF n, us, u
  <2>11. CASE a \in Levels
    <3>1. /\ Starry(us, {a}) = Starry(rows, {a}) + n
          /\ \A v \in Levels : v # a => Starry(us, {v}) = Starry(rows, {v})
          /\ \A l \in Lessons : Starry(us, In(l, Quizzes)) = Starry(rows, In(l, Quizzes))
      BY <1>1, <2>6, <2>9, <2>10, <2>11, OtherStars DEF OneMoved
    <3>2. u = addstudentlevelquizscores(t, a, n) /\ t.level[a] # NoRow BY <2>5, <2>10, <2>11 DEF Scored, RowAbove
    <3>3. StarsEven(u, us) BY <1>1, <2>5, <2>6, <2>8, <2>10, <2>11, <3>1, <3>2, LevelStarsMove
    <3>4. QED BY <3>3 DEF u, us
  <2>12. CASE a \notin Levels
    <3> DEFINE l0 == LessonOf[a]
    <3>1. OneMoved(rows, us, a, n) BY <1>1, <2>6, <2>9, <2>10, OtherStars
    <3>5. /\ Starry(us, In(l0, Quizzes)) = Starry(rows, In(l0, Quizzes)) + n
          /\ \A l \in Lessons : l # l0 => Starry(us, In(l, Quizzes)) = Starry(rows, In(l, Quizzes))
          /\ \A v \in Levels : Starry(us, {v}) = Starry(rows, {v})
      BY <2>12, <3>1 DEF OneMoved
    <3>2. u = addstudentscores(t, l0, n) /\ t.lesson[l0] # NoRow /\ l0 \in Lessons
      BY <1>1, <2>5, <2>10, <2>12, Places DEF Scored, RowAbove
    <3> HIDE DEF l0
    <3>3. StarsEven(u, us) BY <1>1, <2>5, <2>6, <2>8, <2>10, <3>2, <3>5, LessonStarsMove
    <3>4. QED BY <3>3 DEF u, us
  <2>13. QED BY <2>11, <2>12
<1>5. QED BY <1>3, <1>4

(* A learning report brings a full lesson its bonus star at most. *)
LEMMA LearningStars ==
    ASSUME Base, Base', NEW a \in Learnings, NEW ended \in BOOLEAN, updatelearningprogress(a, ended),
           StarsEven(totals, rows)
    PROVE  StarsEven(totals', rows')
<1>1. PICK old : old = LearningOld(a, ended) OBVIOUS
<1>2. PICK t : t = IF old # NoOld \/ (ended /\ learnt'[a].viewed = 1) THEN Rewarded(totals, a, points[a], old) ELSE totals
  OBVIOUS
<1>3. /\ old \in Nat \cup {NoOld} /\ t \in Totals /\ Chain(t)
      /\ totals' = IF ended THEN addstudentscores(t, LessonOf[a], 0) ELSE t
  BY <1>1, <1>2, LearningIs
<1>4. /\ totals \in Totals /\ RowsTyped(rows) /\ points[a] \in Nat /\ a \in Activities /\ LessonOf[a] \in Lessons
      /\ rows' = rows
  BY BaseTypes, FewActivities, Places DEF updatelearningprogress
<1>5. /\ \A l \in Lessons : Kept(totals.lesson[l], t.lesson[l])
      /\ \A v \in Levels : Kept(totals.level[v], t.level[v])
      /\ Kept(totals.grade, t.grade)
  <2> DEFINE n == points[a]
  <2>1. t = totals \/ t = Rewarded(totals, a, n, old) BY <1>2
  <2>2. n \in Nat BY <1>4
  <2> HIDE DEF n
  <2>3. QED BY <1>3, <1>4, <2>1, <2>2, RewardKeepsStars
<1>6. StarsEven(t, rows) BY <1>3, <1>4, <1>5, StarsStay
<1>7. CASE ~ended BY <1>3, <1>4, <1>6, <1>7
<1>8. CASE ended
  <2> DEFINE u == totals'
             l0 == LessonOf[a]
  <2>1. u = addstudentscores(t, l0, 0) /\ l0 \in Lessons /\ 0 \in Nat BY <1>3, <1>4, <1>8
  <2>2. Starry(rows, In(l0, Quizzes)) = Starry(rows, In(l0, Quizzes)) + 0
    <3>1. In(l0, Quizzes) \subseteq Attempted BY FewActivities
    <3>2. Starry(rows, In(l0, Quizzes)) \in Int BY <1>3, <1>4, <3>1, StarsTyped
    <3>3. QED BY <3>2
  <2> HIDE DEF u, l0
  <2>3. StarsEven(u, rows) BY <1>3, <1>4, <1>6, <2>1, <2>2, LessonStarsMove
  <2>4. QED BY <1>4, <2>3 DEF u
<1>9. QED BY <1>7, <1>8

(* The recalculation moves no stars. *)
LEMMA RecalculateStars ==
    ASSUME Base, Base', Recalculate, StarsEven(totals, rows)
    PROVE  StarsEven(totals', rows')
<1>1. /\ totals' \in Totals /\ RowsTyped(rows')
      /\ \A l \in Lessons : Kept(totals.lesson[l], totals'.lesson[l])
      /\ \A v \in Levels : Kept(totals.level[v], totals'.level[v])
      /\ Kept(totals.grade, totals'.grade)
      /\ \A a \in Attempted \ Quizzes : rows'[a] = rows[a]
      /\ \A q \in Quizzes : rows'[q] = IF OnlyUncounted(q) THEN rows[q] ELSE {ZeroedRow(r) : r \in rows[q]}
  BY RecalculateIs
<1>2. totals \in Totals /\ RowsTyped(rows) BY BaseTypes
<1>3. ASSUME NEW a \in Attempted PROVE StarsOf(rows'[a]) = StarsOf(rows[a])
  <2>1. CASE rows'[a] = rows[a] BY <2>1
  <2>2. CASE rows'[a] = {ZeroedRow(r) : r \in rows[a]}
    <3> DEFINE rs == rows[a]
               us == rows'[a]
    <3>1. us = {ZeroedRow(r) : r \in rs} BY <2>2
    <3>2. rs \subseteq Attempt /\ Distinct(rs) BY <1>2 DEF RowsTyped
    <3> HIDE DEF rs, us
    <3>3. StarsOf(us) = StarsOf(rs) BY <3>1, <3>2, StarsZeroed
    <3>4. QED BY <3>3 DEF rs, us
  <2>3. QED BY <1>1, <2>1, <2>2
<1>4. QED BY <1>1, <1>2, <1>3, StarsStay

(* The inductive invariant of the stars: they add up, in tables that are as Base says. *)
StarsIInv == Base /\ StarsAddUp

(* Without rows there are no stars. *)
LEMMA InitStars == Init => StarsIInv
<1> SUFFICES ASSUME Init PROVE StarsIInv
  OBVIOUS
<1>1. Base BY InitBase
<1>2. /\ \A l \in Lessons : totals.lesson[l] = NoRow
      /\ \A v \in Levels : totals.level[v] = NoRow
      /\ totals.grade = NoRow
      /\ \A a \in Attempted : rows[a] = {}
  BY DEF Init
<1>3. NoRow.scores = 0 /\ Once(NoRow) = 0 BY RowFacts DEF Once
<1>4. ASSUME NEW as, as \subseteq Attempted PROVE Starry(rows, as) = 0
  <2> DEFINE f == [a \in Attempted |-> StarsOf(rows[a])]
  <2>1. StarsOf({}) = 0 BY SumEmpty DEF StarsOf
  <2>2. \A a \in as : f[a] = 0 BY <1>2, <1>4, <2>1
  <2>3. IsFiniteSet(as) BY <1>4, FewActivities
  <2>4. Starry(rows, as) = SumFunctionOnSet(f, as) BY DEF Starry
  <2> HIDE DEF f
  <2>5. QED BY <2>2, <2>3, <2>4, SumZero
<1> DEFINE pl == [l \in Lessons |-> totals.lesson[l].scores]
           pv == [v \in Levels |-> totals.level[v].scores]
           hl == LessonStars(totals, rows)
           hv == LevelStars(totals, rows)
<1>5. (\A l \in Lessons : pl[l] = 0) /\ (\A v \in Levels : pv[v] = 0) /\ totals.grade.scores = 0 BY <1>2, <1>3
<1>6. \A l \in Lessons : hl[l] = 0
  <2>1. ASSUME NEW l \in Lessons PROVE hl[l] = 0
    <3>1. In(l, Quizzes) \subseteq Attempted BY FewActivities
    <3>2. Starry(rows, In(l, Quizzes)) = 0 BY <1>4, <3>1
    <3>3. hl[l] = 0 + 0 BY <1>2, <1>3, <3>2 DEF LessonStars
    <3>4. QED BY <3>3
  <2>2. QED BY <2>1
<1>7. \A v \in Levels : hv[v] = 0
  <2>1. ASSUME NEW v \in Levels PROVE hv[v] = 0
    <3>1. {v} \subseteq Attempted BY FewActivities
    <3>2. Starry(rows, {v}) = 0 BY <1>4, <3>1
    <3>3. hv[v] = 0 + 0 BY <1>2, <1>3, <3>2 DEF LevelStars
    <3>4. QED BY <3>3
  <2>2. QED BY <2>1
<1>8. StarsEven(totals, rows)
  <2> HIDE DEF pl, pv, hl, hv
  <2>1. \A v \in Levels : SumFunctionOnSet(pl, LessonsOf(v)) = 0
    <3>1. ASSUME NEW v \in Levels PROVE SumFunctionOnSet(pl, LessonsOf(v)) = 0
      <4>1. IsFiniteSet(LessonsOf(v)) /\ \A l \in LessonsOf(v) : pl[l] = 0 BY <1>5, FewOfEach
      <4>2. QED BY <4>1, SumZero
    <3>2. QED BY <3>1
  <2>2. SumFunctionOnSet(pv, Levels) = 0 BY <1>5, FewOfEach, SumZero
  <2>3. 0 = 0 + 0 OBVIOUS
  <2>4. Even(pl, pv, totals.grade.scores, hl, hv) BY <1>5, <1>6, <1>7, <2>1, <2>2, <2>3 DEF Even
  <2>5. QED BY <2>4 DEF StarsEven, pl, pv, hl, hv
<1>9. QED BY <1>1, <1>8, StarsInWords DEF StarsIInv

(* Stars add up after every step. *)
LEMMA NextStars == StarsIInv /\ [RecalcNext]_vars => StarsIInv'
<1> SUFFICES ASSUME StarsIInv, [RecalcNext]_vars PROVE StarsIInv'
  OBVIOUS
<1>1. Base /\ Base' BY NextBase DEF StarsIInv
<1>2. StarsEven(totals, rows) BY <1>1, StarsInWords DEF StarsIInv
<1>3. StarsEven(totals', rows')
  <2>1. ASSUME NEW a \in Attempted, PassedAgain(a) PROVE StarsEven(totals', rows')
    BY <1>1, <1>2, <2>1, PassedAgainStars
  <2>2. ASSUME NEW a \in Attempted, NEW start \in 1..MaxStart[a], NEW pct \in Percentages, NEW ver \in MayBeVerified(a),
               Submit(a, start, pct, ver)
        PROVE  StarsEven(totals', rows')
    <3>1. start \in Nat \ {0}
      <4>1. MaxStart[a] \in Nat BY ProgressAssumption
      <4>2. QED BY <4>1
    <3>2. ver \in BOOLEAN BY DEF MayBeVerified
    <3>3. QED BY <1>1, <1>2, <2>2, <3>1, <3>2, SubmitStars
  <2>3. ASSUME NEW a \in Learnings, NEW ended \in BOOLEAN, updatelearningprogress(a, ended)
        PROVE  StarsEven(totals', rows')
    BY <1>1, <1>2, <2>3, LearningStars
  <2>4. CASE (\E a \in Activities : ImportContent(a)) \/ SwitchRule \/ SwitchRequire
    <3>1. totals' = totals /\ rows' = rows BY <1>1, <2>4, EditBase
    <3>2. QED BY <1>2, <3>1
  <2>5. CASE Recalculate BY <1>1, <1>2, <2>5, RecalculateStars
  <2>6. CASE UNCHANGED vars
    <3>1. totals' = totals /\ rows' = rows BY <2>6 DEF vars
    <3>2. QED BY <1>2, <3>1
  <2>7. QED BY <2>1, <2>2, <2>3, <2>4, <2>5, <2>6 DEF RecalcNext, Next
<1>4. QED BY <1>1, <1>3, StarsInWords DEF StarsIInv

(***************************************************************************)
(* Stars are neither lost nor counted twice, in any curriculum, whatever   *)
(* attempts and replays arrive in whatever order, however content, rule and*)
(* settings change in between, and through every recalculation.            *)
(***************************************************************************)
THEOREM StarsAlwaysAddUp == RecalcSpec => []StarsAddUp
<1>1. Init => StarsIInv BY InitStars
<1>2. StarsIInv /\ [RecalcNext]_vars => StarsIInv' BY NextStars
<1>3. StarsIInv => StarsAddUp BY DEF StarsIInv
<1>4. QED BY <1>1, <1>2, <1>3, PTL DEF RecalcSpec

-----------------------------------------------------------------------------
(* The two ledgers of points. *)

(* What the rows of t say, and what the attempt and learning rows hold: the two ledgers agree. *)
Books(t, rs, ln) ==
    Even([l \in Lessons |-> t.lesson[l].points], [v \in Levels |-> t.level[v].points], t.grade.points,
         [l \in Lessons |-> Held(rs, ln, l)], [v \in Levels |-> HeldByAttempts(rs, {v})])

(* LedgersAgree says so of the current rows. *)
LEMMA BooksAreLedgers == LedgersAgree <=> Books(totals, rows, learnt)
<1> DEFINE pl == [l \in Lessons |-> totals.lesson[l].points]
           pv == [v \in Levels |-> totals.level[v].points]
           hl == [l \in Lessons |-> Held(rows, learnt, l)]
           hv == [v \in Levels |-> HeldByAttempts(rows, {v})]
<1>1. [l \in Lessons |-> PointsOf(totals.lesson[l])] = pl /\ [v \in Levels |-> PointsOf(totals.level[v])] = pv
  BY DEF PointsOf
<1>2. Books(totals, rows, learnt) <=> Even(pl, pv, totals.grade.points, hl, hv) BY DEF Books
<1>3. LedgersAgree <=> /\ \A l \in Lessons : totals.lesson[l].points = Held(rows, learnt, l)
                       /\ \A v \in Levels : totals.level[v].points = SumFunctionOnSet(pl, LessonsOf(v)) + HeldByAttempts(rows, {v})
                       /\ totals.grade.points = SumFunctionOnSet(pv, Levels)
  BY <1>1 DEF LedgersAgree, PointsOf, LevelQuizHeld
<1>4. /\ \A l \in Lessons : pl[l] = totals.lesson[l].points /\ hl[l] = Held(rows, learnt, l)
      /\ \A v \in Levels : pv[v] = totals.level[v].points /\ hv[v] = HeldByAttempts(rows, {v})
  OBVIOUS
<1> HIDE DEF pl, pv, hl, hv
<1>5. QED BY <1>2, <1>3, <1>4 DEF Even

(* While they agree nothing is negative, no lesson or quiz has more than its level, and no level more than the grade. *)
LEMMA EvenAbove ==
    ASSUME NEW pl, NEW pv, NEW pg, NEW hl, NEW hv, Even(pl, pv, pg, hl, hv),
           \A l \in Lessons : hl[l] \in Nat, \A v \in Levels : hv[v] \in Nat
    PROVE  /\ \A l \in Lessons : pl[l] \in Nat /\ pl[l] <= pv[LevelOf[l]]
           /\ \A v \in Levels : pv[v] \in Nat /\ hv[v] <= pv[v] /\ pv[v] <= pg
           /\ pg \in Nat
<1>1. \A l \in Lessons : pl[l] \in Nat BY DEF Even
<1>2. ASSUME NEW v \in Levels
      PROVE  /\ pv[v] \in Nat /\ hv[v] <= pv[v] /\ \A l \in LessonsOf(v) : pl[l] <= pv[v]
  <2> DEFINE n == SumFunctionOnSet(pl, LessonsOf(v))
  <2>1. IsFiniteSet(LessonsOf(v)) /\ \A l \in LessonsOf(v) : pl[l] \in Nat BY <1>1, FewOfEach
  <2>2. n \in Nat /\ \A l \in LessonsOf(v) : pl[l] <= n BY <2>1, SumNat, SumAtLeast
  <2>3. pv[v] = n + hv[v] BY DEF Even
  <2> HIDE DEF n
  <2>4. hv[v] \in Nat OBVIOUS
  <2>5. QED BY <2>1, <2>2, <2>3, <2>4
<1>3. pg \in Nat /\ \A v \in Levels : pv[v] <= pg
  <2>1. pg = SumFunctionOnSet(pv, Levels) BY DEF Even
  <2>2. IsFiniteSet(Levels) /\ \A v \in Levels : pv[v] \in Nat BY <1>2, FewOfEach
  <2>3. QED BY <2>1, <2>2, SumNat, SumAtLeast
<1>4. \A l \in Lessons : l \in LessonsOf(LevelOf[l]) /\ LevelOf[l] \in Levels BY FewOfEach, Places
<1>5. QED BY <1>1, <1>2, <1>3, <1>4

(* The rows hold numbers. *)
LEMMA TotalsTyped ==
    ASSUME NEW t \in Totals
    PROVE  /\ \A l \in Lessons : t.lesson[l] \in Row /\ t.lesson[l].points \in Int
           /\ \A v \in Levels : t.level[v] \in Row /\ t.level[v].points \in Int
           /\ t.grade \in Row /\ t.grade.points \in Int
BY RowFacts DEF Totals

(* What changes in the rows of one activity changes what its lesson, or its level's quiz, holds. *)
LEMMA HeldMoves ==
    ASSUME NEW rs, RowsTyped(rs), NEW us, RowsTyped(us), NEW ln, LearntTyped(ln), NEW a \in Attempted,
           \A b \in Attempted : b # a => us[b] = rs[b],
           NEW d \in Int, d = Worth(us[a]) - Worth(rs[a])
    PROVE  /\ \A l \in Lessons : Held(us, ln, l) = Held(rs, ln, l) + (IF a \notin Levels /\ LessonOf[a] = l THEN d ELSE 0)
           /\ \A v \in Levels : HeldByAttempts(us, {v}) = HeldByAttempts(rs, {v}) + (IF v = a THEN d ELSE 0)
<1> DEFINE f == [b \in Attempted |-> Worth(rs[b])]
           e == [b \in Attempted |-> Worth(us[b])]
<1>1. ASSUME NEW as, as \subseteq Attempted
      PROVE  HeldByAttempts(us, as) = HeldByAttempts(rs, as) + (IF a \in as THEN d ELSE 0) /\ HeldByAttempts(rs, as) \in Nat
  <2> DEFINE x == HeldByAttempts(rs, as)
             y == HeldByAttempts(us, as)
  <2>1. x = SumFunctionOnSet(f, as) /\ y = SumFunctionOnSet(e, as) /\ x \in Nat
    BY <1>1, AttemptsHold
  <2>2. \A b \in Attempted : Worth(rs[b]) \in Int /\ Worth(us[b]) \in Int
    <3>1. \A b \in Attempted : Worth(rs[b]) \in Nat BY <1>1, AttemptsHold
    <3>2. \A b \in Attempted : Worth(us[b]) \in Nat BY <1>1, AttemptsHold
    <3>3. QED BY <3>1, <3>2
  <2>3. /\ \A b \in as : f[b] \in Int /\ e[b] \in Int
        /\ \A b \in as : b # a => e[b] = f[b]
        /\ e[a] - f[a] = d
    BY <1>1, <2>2
  <2>4. IsFiniteSet(as) BY <1>1, FewActivities
  <2> HIDE DEF f, e, x, y
  <2>7. SumMoved(f, e, as, a, d) BY <2>3, <2>4, SumMoves
  <2>5. y = x + (IF a \in as THEN d ELSE 0) BY <2>1, <2>7 DEF SumMoved
  <2>6. QED BY <2>1, <2>5 DEF x, y
<1>2. ASSUME NEW l \in Lessons
      PROVE  Held(us, ln, l) = Held(rs, ln, l) + (IF a \notin Levels /\ LessonOf[a] = l THEN d ELSE 0)
  <2> DEFINE as == In(l, Practices \cup Quizzes)
             x == HeldByLearning(ln, In(l, Learnings))
             y == HeldByAttempts(rs, as)
  <2>1. as \subseteq Attempted BY FewActivities
  <2>2. a \in as <=> (a \notin Levels /\ LessonOf[a] = l) BY ProgressAssumption DEF In, Attempted
  <2>3. Held(us, ln, l) = x + HeldByAttempts(us, as) /\ Held(rs, ln, l) = x + y BY DEF Held
  <2>4. x \in Nat BY LearningHolds, FewActivities
  <2> DEFINE z == HeldByAttempts(us, as)
             k == IF a \in as THEN d ELSE 0
  <2>5. z = y + k /\ y \in Nat BY <1>1, <2>1
  <2>6. k \in Int /\ k = (IF a \notin Levels /\ LessonOf[a] = l THEN d ELSE 0) BY <2>2
  <2>7. Held(us, ln, l) = x + z BY <2>3
  <2> HIDE DEF as, x, y, z, k
  <2>8. x + z = (x + y) + k BY <2>4, <2>5, <2>6
  <2>9. QED BY <2>3, <2>6, <2>7, <2>8
<1>3. ASSUME NEW v \in Levels PROVE HeldByAttempts(us, {v}) = HeldByAttempts(rs, {v}) + (IF v = a THEN d ELSE 0)
  <2>1. {v} \subseteq Attempted BY FewActivities
  <2>2. a \in {v} <=> v = a OBVIOUS
  <2>3. QED BY <1>1, <2>1, <2>2
<1>4. QED BY <1>2, <1>3

(* The row of a learning item gains d points; what was not finished holds none. *)
Gains(row, new, d) ==
    /\ row.viewed = 0 => row.points = 0
    /\ new.viewed = 0 => new.points = 0
    /\ d = new.points - row.points

(* What changes in the row of a learning item changes what its lesson holds. *)
LEMMA LearntHeldMoves ==
    ASSUME NEW rs, RowsTyped(rs), NEW ln, LearntTyped(ln), NEW un, LearntTyped(un), NEW a \in Learnings,
           \A b \in Learnings : b # a => un[b] = ln[b],
           NEW d \in Int, Gains(ln[a], un[a], d)
    PROVE  \A l \in Lessons : Held(rs, un, l) = Held(rs, ln, l) + (IF a \notin Levels /\ LessonOf[a] = l THEN d ELSE 0)
<1> DEFINE f == [b \in Learnings |-> IF ln[b].viewed > 0 THEN ln[b].points ELSE 0]
           e == [b \in Learnings |-> IF un[b].viewed > 0 THEN un[b].points ELSE 0]
<1>1. \A b \in Learnings : ln[b].viewed \in Nat /\ ln[b].points \in Nat /\ un[b].viewed \in Nat /\ un[b].points \in Nat
  BY LearntRowIs DEF LearntTyped
<1>2. f[a] = ln[a].points /\ e[a] = un[a].points BY <1>1 DEF Gains
<1>3. \A b \in Learnings : f[b] \in Nat /\ e[b] \in Nat /\ (b # a => e[b] = f[b]) BY <1>1
<1>4. e[a] - f[a] = d BY <1>2 DEF Gains
<1>5. a \notin Levels BY Places
<1>6. ASSUME NEW l \in Lessons
      PROVE  Held(rs, un, l) = Held(rs, ln, l) + (IF a \notin Levels /\ LessonOf[a] = l THEN d ELSE 0)
  <2> DEFINE as == In(l, Learnings)
             y == HeldByAttempts(rs, In(l, Practices \cup Quizzes))
  <2>1. y \in Nat
    <3>1. In(l, Practices \cup Quizzes) \subseteq Attempted BY FewActivities
    <3>2. QED BY <3>1, AttemptsHold
  <2>2. Held(rs, un, l) = SumFunctionOnSet(e, as) + y /\ Held(rs, ln, l) = SumFunctionOnSet(f, as) + y
    BY DEF Held, HeldByLearning
  <2>3. as \subseteq Learnings /\ IsFiniteSet(as) BY FewActivities
  <2>4. a \in as <=> LessonOf[a] = l BY DEF In
  <2>a. \A b \in Learnings : f[b] \in Int /\ e[b] \in Int
    <3> HIDE DEF f, e
    <3>1. QED BY <1>3
  <2>b. \A b \in Learnings : b # a => e[b] = f[b] BY <1>3
  <2> HIDE DEF f, e, as, y
  <2>5. \A b \in as : f[b] \in Int /\ e[b] \in Int BY <2>a, <2>3
  <2>6. SumFunctionOnSet(f, as) \in Int BY <2>3, <2>5, SumTyped
  <2> DEFINE sf == SumFunctionOnSet(f, as)
             se == SumFunctionOnSet(e, as)
             k == IF a \in as THEN d ELSE 0
  <2>c. sf \in Int /\ se = sf + k
    <3>1. IsFiniteSet(as) /\ \A b \in as : b # a => e[b] = f[b] BY <2>b, <2>3
    <3>2. SumMoved(f, e, as, a, d) BY <1>4, <2>5, <3>1, SumMoves
    <3>3. QED BY <3>2 DEF SumMoved
  <2>7. Held(rs, un, l) = se + y /\ Held(rs, ln, l) = sf + y BY <2>2 DEF se, sf
  <2>8. k \in Int /\ k = (IF a \notin Levels /\ LessonOf[a] = l THEN d ELSE 0)
    <3>1. CASE a \in as BY <1>5, <2>4, <3>1
    <3>2. CASE a \notin as
      <4>1. k = 0 BY <3>2
      <4>2. LessonOf[a] # l BY <2>4, <3>2
      <4> HIDE DEF k
      <4>3. QED BY <4>1, <4>2
    <3>3. QED BY <3>1, <3>2
  <2> HIDE DEF sf, se, k
  <2>d. se + y = (sf + y) + k BY <2>1, <2>8, <2>c
  <2>9. QED BY <2>7, <2>8, <2>d
<1>7. QED BY <1>6

(* No lesson holds more than its activities can be worth. *)
LEMMA HeldFits ==
    ASSUME NEW rs, RowsTyped(rs), NEW ln, LearntTyped(ln), NEW l \in Lessons, Slack(l),
           \A a \in Attempted : \A r \in rs[a] : r.points <= MaxPoints[a],
           \A a \in Learnings : ln[a].points <= MaxPoints[a]
    PROVE  Held(rs, ln, l) <= TotalPoints[l]
<1> DEFINE f == [a \in Attempted |-> Worth(rs[a])]
           e == [a \in Learnings |-> IF ln[a].viewed > 0 THEN ln[a].points ELSE 0]
           P == In(l, Practices \cup Quizzes)
           R == In(l, Learnings)
           sm(as) == SumFunctionOnSet(MaxPoints, as)
<1>1. /\ P \subseteq Attempted /\ R \subseteq Learnings /\ IsFiniteSet(P) /\ IsFiniteSet(R) /\ P \cap R = {}
      /\ P \cup R = In(l, Activities \ Levels)
  <2>1. P \subseteq Attempted /\ R \subseteq Learnings /\ P \subseteq Activities /\ R \subseteq Activities BY FewActivities
  <2>2. IsFiniteSet(P) /\ IsFiniteSet(R) BY <2>1, FewActivities
  <2>3. P \cap R = {} BY Places, FewActivities
  <2>4. P \cup R = In(l, Activities \ Levels) BY ProgressAssumption DEF In, Activities, Attempted
  <2>5. QED BY <2>1, <2>2, <2>3, <2>4
<1>2. \A a \in Activities : MaxPoints[a] \in Nat BY ProgressAssumption
<1>3. \A a \in P : f[a] \in Int /\ MaxPoints[a] \in Int /\ f[a] <= MaxPoints[a]
  <2>1. ASSUME NEW a \in Attempted PROVE Worth(rs[a]) \in Int /\ Worth(rs[a]) <= MaxPoints[a] /\ MaxPoints[a] \in Int
    <3>1. MaxPoints[a] \in Nat BY <1>2, FewActivities
    <3>2. Worth(rs[a]) \in Nat /\ (rs[a] # {} => \E r \in rs[a] : Worth(rs[a]) = r.points) BY WorthTyped DEF RowsTyped
    <3>3. CASE rs[a] = {}
      <4>1. Worth(rs[a]) = 0 BY <3>3 DEF Worth
      <4>2. QED BY <3>1, <4>1
    <3>4. CASE rs[a] # {} BY <3>1, <3>2, <3>4
    <3>5. QED BY <3>3, <3>4
  <2>2. QED BY <1>1, <2>1
<1>4. \A a \in R : e[a] \in Int /\ MaxPoints[a] \in Int /\ e[a] <= MaxPoints[a]
  <2>1. ASSUME NEW a \in Learnings PROVE e[a] \in Int /\ MaxPoints[a] \in Int /\ e[a] <= MaxPoints[a]
    <3>1. MaxPoints[a] \in Nat BY <1>2, FewActivities
    <3>2. ln[a].points \in Nat BY LearntRowIs DEF LearntTyped
    <3>3. ln[a].points <= MaxPoints[a] OBVIOUS
    <3>4. QED BY <3>1, <3>2, <3>3
  <2> HIDE DEF e
  <2>2. QED BY <1>1, <2>1
<1>5. Held(rs, ln, l) = SumFunctionOnSet(e, R) + SumFunctionOnSet(f, P)
  <2>1. HeldByAttempts(rs, P) = SumFunctionOnSet(f, P) BY <1>1, AttemptsHold
  <2>2. HeldByLearning(ln, R) = SumFunctionOnSet(e, R) BY DEF HeldByLearning
  <2>3. QED BY <2>1, <2>2 DEF Held
<1>6. sm(In(l, Activities \ Levels)) <= TotalPoints[l] BY DEF Slack
<1> HIDE DEF e, f, P, R
<1>7. \A a \in P \cup R : MaxPoints[a] \in Int BY <1>3, <1>4
<1>8. sm(P \cup R) = sm(P) + sm(R) BY <1>1, <1>7, SumUnion
<1> DEFINE sf == SumFunctionOnSet(f, P)
           se == SumFunctionOnSet(e, R)
           mp == sm(P)
           mr == sm(R)
<1>9. sf <= mp /\ se <= mr BY <1>1, <1>3, <1>4, SumMono
<1>10. sf \in Int /\ se \in Int /\ mp \in Int /\ mr \in Int BY <1>1, <1>3, <1>4, SumTyped
<1>11. mp + mr <= TotalPoints[l] BY <1>1, <1>6, <1>8
<1>12. TotalPoints[l] \in Int BY Places
<1>13. Held(rs, ln, l) = se + sf BY <1>5
<1> HIDE DEF sf, se, mp, mr
<1>14. QED BY <1>9, <1>10, <1>11, <1>12, <1>13

(* The lesson of an activity, or the level of a level quiz, holds d points more, the others what they held. *)
HoldsMore(rs, ln, us, un, a, d) ==
    /\ \A l \in Lessons : Held(us, un, l) = Held(rs, ln, l) + (IF a \notin Levels /\ LessonOf[a] = l THEN d ELSE 0)
    /\ \A v \in Levels : HeldByAttempts(us, {v}) = HeldByAttempts(rs, {v}) + (IF v = a THEN d ELSE 0)

(* A reward of what the lesson, or the level's quiz, gained keeps the ledgers in agreement. *)
LEMMA RewardKeepsBooks ==
    ASSUME NEW t \in Totals, NEW a \in Activities, NEW new \in Nat, NEW old \in Nat \cup {NoOld},
           NEW u, u = Rewarded(t, a, new, old),
           NEW rs, RowsTyped(rs), NEW ln, LearntTyped(ln), NEW us, RowsTyped(us), NEW un, LearntTyped(un),
           Books(t, rs, ln), NEW d \in Int, d = Delta(new, old),
           HoldsMore(rs, ln, us, un, a, d),
           a \notin Levels => Held(us, un, LessonOf[a]) <= TotalPoints[LessonOf[a]]
    PROVE  Books(u, us, un)
<1> DEFINE pl == [l \in Lessons |-> t.lesson[l].points]
           pv == [v \in Levels |-> t.level[v].points]
           pg == t.grade.points
           hl == [l \in Lessons |-> Held(rs, ln, l)]
           hv == [v \in Levels |-> HeldByAttempts(rs, {v})]
           ql == [l \in Lessons |-> u.lesson[l].points]
           qv == [v \in Levels |-> u.level[v].points]
           qg == u.grade.points
           kl == [l \in Lessons |-> Held(us, un, l)]
           kv == [v \in Levels |-> HeldByAttempts(us, {v})]
<1>1. Even(pl, pv, pg, hl, hv) BY DEF Books
<1>2. /\ \A l \in Lessons : hl[l] \in Nat /\ kl[l] \in Nat
      /\ \A v \in Levels : hv[v] \in Nat /\ kv[v] \in Nat
  <2>1. \A l \in Lessons : Held(rs, ln, l) \in Nat /\ Held(us, un, l) \in Nat BY HeldTyped
  <2>2. \A v \in Levels : {v} \subseteq Attempted BY FewActivities
  <2>3. \A v \in Levels : HeldByAttempts(rs, {v}) \in Nat /\ HeldByAttempts(us, {v}) \in Nat BY <2>2, AttemptsHold
  <2>4. QED BY <2>1, <2>3
<1>3. /\ \A l \in Lessons : pl[l] = t.lesson[l].points /\ ql[l] = u.lesson[l].points /\ t.lesson[l] \in Row
      /\ \A v \in Levels : pv[v] = t.level[v].points /\ qv[v] = u.level[v].points /\ t.level[v] \in Row
      /\ t.grade \in Row
  BY TotalsTyped
<1>4. /\ \A l \in Lessons : kl[l] = hl[l] + (IF a \notin Levels /\ LessonOf[a] = l THEN d ELSE 0)
      /\ \A v \in Levels : kv[v] = hv[v] + (IF v = a THEN d ELSE 0)
  BY DEF HoldsMore
<1>5. a \notin Levels => kl[LessonOf[a]] <= TotalPoints[LessonOf[a]] BY Places
<1>6. Even(ql, qv, qg, kl, kv) => Books(u, us, un) BY DEF Books
<1> HIDE DEF pl, pv, hl, hv, ql, qv, kl, kv
<1>7. /\ \A l \in Lessons : pl[l] \in Nat /\ pl[l] <= pv[LevelOf[l]] /\ pl[l] = hl[l]
      /\ \A v \in Levels : pv[v] \in Nat /\ hv[v] <= pv[v] /\ pv[v] <= pg
      /\ pg \in Nat
  <2> HIDE DEF pg
  <2>1. /\ \A l \in Lessons : pl[l] \in Nat /\ pl[l] <= pv[LevelOf[l]]
        /\ \A v \in Levels : pv[v] \in Nat /\ hv[v] <= pv[v] /\ pv[v] <= pg
        /\ pg \in Nat
    BY <1>1, <1>2, EvenAbove
  <2>2. QED BY <1>1, <2>1 DEF Even
<1>8. CASE a \notin Levels
  <2> DEFINE l0 == LessonOf[a]
             v0 == LevelOf[l0]
             tp == TotalPoints[l0]
             landed == LandedPoints(t.lesson[l0], d, tp)
             x == LessonRow(t.lesson[l0], d, PassingPoints[l0], tp)
             y == TotalRow(t.level[v0], landed, LevelPoints[v0])
             z == TotalRow(t.grade, landed, GradePoints)
  <2>1. l0 \in Lessons /\ v0 \in Levels /\ tp \in Int BY <1>8, Places
  <2>2. u = [lesson |-> [t.lesson EXCEPT ![l0] = x], level |-> [t.level EXCEPT ![v0] = y], grade |-> z]
    BY <1>8 DEF Rewarded, updateUserReward
  <2>3. t.lesson \in [Lessons -> Row] /\ t.level \in [Levels -> Row] BY DEF Totals
  <2>a. kl[l0] <= tp BY <1>5, <1>8
  <2>b. \A l \in Lessons : kl[l] = hl[l] + (IF l = l0 THEN d ELSE 0) BY <1>4, <1>8
  <2>c. \A v \in Levels : v # a BY <1>8
  <2> HIDE DEF l0, v0, tp, landed, x, y, z
  <2>4. u.lesson = [t.lesson EXCEPT ![l0] = x] /\ u.level = [t.level EXCEPT ![v0] = y] /\ u.grade = z BY <2>2
  <2>5. /\ \A l \in Lessons : u.lesson[l] = IF l = l0 THEN x ELSE t.lesson[l]
        /\ \A v \in Levels : u.level[v] = IF v = v0 THEN y ELSE t.level[v]
    BY <2>3, <2>4
  <2>6. kl[l0] = pl[l0] + d /\ kl[l0] \in Nat
    <3>1. kl[l0] = hl[l0] + d /\ hl[l0] = pl[l0] /\ kl[l0] \in Nat BY <1>2, <1>7, <2>1, <2>b
    <3>2. QED BY <3>1
  <2>7. 0 <= pl[l0] + d /\ pl[l0] + d <= tp /\ 0 <= pv[v0] + d /\ 0 <= pg + d
    <3>1. 0 <= pl[l0] + d /\ pl[l0] + d <= tp BY <2>1, <2>6, <2>a
    <3>2. pl[l0] \in Nat /\ pv[v0] \in Nat /\ pg \in Nat /\ pl[l0] <= pv[v0] /\ pv[v0] <= pg
      BY <1>7, <2>1 DEF v0
    <3> HIDE DEF pg
    <3>3. QED BY <3>1, <3>2
  <2>8. t.lesson[l0].points = pl[l0] /\ t.lesson[l0] \in Row /\ t.level[v0].points = pv[v0] /\ t.level[v0] \in Row
    BY <1>3, <2>1
  <2>9. x.points = pl[l0] + d /\ landed = d
    <3> DEFINE row == t.lesson[l0]
               pp == PassingPoints[l0]
    <3>1. row \in Row /\ 0 <= row.points + d /\ row.points + d <= tp BY <2>7, <2>8
    <3>2. x = LessonRow(row, d, pp, tp) /\ landed = LandedPoints(row, d, tp) BY DEF x, landed
    <3> HIDE DEF row, pp
    <3>3. LessonRow(row, d, pp, tp).points = row.points + d /\ LandedPoints(row, d, tp) = d BY <2>1, <3>1, RewardFits
    <3>4. QED BY <2>8, <3>2, <3>3 DEF row
  <2>10. y.points = pv[v0] + d
    <3> DEFINE row == t.level[v0]
               n == LevelPoints[v0]
    <3>1. row \in Row /\ 0 <= row.points + d /\ n \in Int BY <2>1, <2>7, <2>8, ProgressAssumption
    <3>2. y = TotalRow(row, d, n) BY <2>9 DEF y
    <3> HIDE DEF row, n
    <3>3. TotalRow(row, d, n).points = row.points + d BY <3>1, RewardFits
    <3>4. QED BY <2>8, <3>2, <3>3 DEF row
  <2>11. z.points = pg + d
    <3>1. t.grade \in Row /\ 0 <= t.grade.points + d /\ GradePoints \in Int BY <1>3, <2>7, ProgressAssumption
    <3>2. z = TotalRow(t.grade, d, GradePoints) BY <2>9 DEF z
    <3>3. QED BY <3>1, <3>2, RewardFits
  <2>12. \A l \in Lessons : pl[l] \in Int /\ ql[l] = (IF l = l0 THEN pl[l] + d ELSE pl[l])
    BY <1>3, <1>7, <2>5, <2>9
  <2>13. \A l \in Lessons : kl[l] = IF l = l0 THEN hl[l] + d ELSE hl[l] BY <1>2, <2>b
  <2>14. \A v \in Levels : pv[v] \in Int /\ qv[v] = (IF v = v0 THEN pv[v] + d ELSE pv[v])
    BY <1>3, <1>7, <2>5, <2>10
  <2>15. \A v \in Levels : hv[v] \in Int /\ kv[v] = hv[v] BY <1>2, <1>4, <2>c
  <2>16. qg = pg + d BY <2>4, <2>11
  <2> HIDE DEF pg, qg
  <2>17. Even(ql, qv, qg, kl, kv) BY <1>1, <2>1, <2>12, <2>13, <2>14, <2>15, <2>16, LessonMoves DEF v0
  <2>18. QED BY <1>6, <2>17 DEF qg
<1>9. CASE a \in Levels
  <2> DEFINE y == TotalRow(t.level[a], d, LevelPoints[a])
             z == TotalRow(t.grade, d, GradePoints)
  <2>1. u = [t EXCEPT !.level = [t.level EXCEPT ![a] = y], !.grade = z] BY <1>9 DEF Rewarded, updateLevelQuizReward
  <2>2. u.lesson = t.lesson /\ u.level = [t.level EXCEPT ![a] = y] /\ u.grade = z BY <2>1 DEF Totals
  <2>3. t.level \in [Levels -> Row] BY DEF Totals
  <2> HIDE DEF y, z
  <2>4. \A v \in Levels : u.level[v] = IF v = a THEN y ELSE t.level[v] BY <2>2, <2>3
  <2>5. kv[a] = hv[a] + d /\ kv[a] \in Nat /\ hv[a] \in Nat /\ hv[a] <= pv[a] /\ pv[a] <= pg /\ pv[a] \in Nat /\ pg \in Nat
    BY <1>2, <1>4, <1>7, <1>9
  <2>6. 0 <= pv[a] + d /\ 0 <= pg + d
    <3> HIDE DEF pg
    <3>1. QED BY <2>5
  <2>7. y.points = pv[a] + d
    <3> DEFINE row == t.level[a]
               n == LevelPoints[a]
    <3>1. row \in Row /\ row.points = pv[a] /\ n \in Int BY <1>3, <1>9, ProgressAssumption
    <3>2. y = TotalRow(row, d, n) BY DEF y
    <3> HIDE DEF row, n
    <3>3. TotalRow(row, d, n).points = row.points + d BY <2>6, <3>1, RewardFits
    <3>4. QED BY <3>1, <3>2, <3>3
  <2>8. z.points = pg + d
    <3>1. t.grade \in Row /\ 0 <= t.grade.points + d /\ GradePoints \in Int BY <1>3, <2>6, ProgressAssumption
    <3>2. z = TotalRow(t.grade, d, GradePoints) BY DEF z
    <3>3. QED BY <3>1, <3>2, RewardFits
  <2>9. \A l \in Lessons : pl[l] \in Int /\ ql[l] = pl[l] /\ kl[l] = hl[l] BY <1>2, <1>3, <1>4, <1>7, <1>9, <2>2
  <2>10. \A v \in Levels : pv[v] \in Int /\ qv[v] = (IF v = a THEN pv[v] + d ELSE pv[v])
    BY <1>3, <1>7, <2>4, <2>7
  <2>11. \A v \in Levels : hv[v] \in Int /\ kv[v] = (IF v = a THEN hv[v] + d ELSE hv[v]) BY <1>2, <1>4
  <2>12. qg = pg + d BY <2>2, <2>8
  <2> HIDE DEF pg, qg
  <2>13. Even(ql, qv, qg, kl, kv) BY <1>1, <1>9, <2>9, <2>10, <2>11, <2>12, LevelMoves
  <2>14. QED BY <1>6, <2>13 DEF qg
<1>10. QED BY <1>8, <1>9

(* Where no points move and every lesson and quiz holds what it held, they stay in agreement. *)
LEMMA BooksStay ==
    ASSUME NEW t, NEW rs, NEW ln, Books(t, rs, ln), NEW u, NEW us, NEW un,
           \A l \in Lessons : u.lesson[l].points = t.lesson[l].points /\ Held(us, un, l) = Held(rs, ln, l),
           \A v \in Levels : u.level[v].points = t.level[v].points /\ HeldByAttempts(us, {v}) = HeldByAttempts(rs, {v}),
           u.grade.points = t.grade.points
    PROVE  Books(u, us, un)
<1> DEFINE pl == [l \in Lessons |-> t.lesson[l].points]
           pv == [v \in Levels |-> t.level[v].points]
           hl == [l \in Lessons |-> Held(rs, ln, l)]
           hv == [v \in Levels |-> HeldByAttempts(rs, {v})]
           ql == [l \in Lessons |-> u.lesson[l].points]
           qv == [v \in Levels |-> u.level[v].points]
           kl == [l \in Lessons |-> Held(us, un, l)]
           kv == [v \in Levels |-> HeldByAttempts(us, {v})]
<1>1. Even(pl, pv, t.grade.points, hl, hv) BY DEF Books
<1>2. \A l \in Lessons : ql[l] = pl[l] /\ kl[l] = hl[l] OBVIOUS
<1>3. \A v \in Levels : qv[v] = pv[v] /\ kv[v] = hv[v] OBVIOUS
<1>4. Even(ql, qv, u.grade.points, kl, kv) => Books(u, us, un) BY DEF Books
<1> HIDE DEF pl, pv, hl, hv, ql, qv, kl, kv
<1>5. Even(ql, qv, u.grade.points, kl, kv) BY <1>1, <1>2, <1>3, NothingMoves
<1>6. QED BY <1>4, <1>5

(* A reward of what the rows of one activity gained, or none where they gained nothing. *)
LEMMA AttemptKeepsBooks ==
    ASSUME NEW t \in Totals, NEW a \in Attempted, NEW rs, RowsTyped(rs), NEW us, RowsTyped(us), NEW ln, LearntTyped(ln),
           Books(t, rs, ln), \A b \in Attempted : b # a => us[b] = rs[b],
           \A l \in Lessons : Held(us, ln, l) <= TotalPoints[l],
           NEW new \in Nat, NEW old \in Nat \cup {NoOld}, NEW u,
           \/ u = t /\ Worth(us[a]) = Worth(rs[a])
           \/ u = Rewarded(t, a, new, old) /\ Delta(new, old) = Worth(us[a]) - Worth(rs[a])
    PROVE  Books(u, us, ln)
<1> DEFINE d == Worth(us[a]) - Worth(rs[a])
           wu == Worth(us[a])
           wr == Worth(rs[a])
<1>1. wu \in Nat /\ wr \in Nat BY WorthTyped DEF RowsTyped
<1>2. d \in Int /\ (wu = wr => d = 0)
  <2>1. d = wu - wr OBVIOUS
  <2> HIDE DEF wu, wr, d
  <2>2. QED BY <1>1, <2>1
<1>3. \E n : n = d OBVIOUS
<1> HIDE DEF d
<1>4. /\ \A l \in Lessons : Held(us, ln, l) = Held(rs, ln, l) + (IF a \notin Levels /\ LessonOf[a] = l THEN d ELSE 0)
      /\ \A v \in Levels : HeldByAttempts(us, {v}) = HeldByAttempts(rs, {v}) + (IF v = a THEN d ELSE 0)
  <2>1. d = Worth(us[a]) - Worth(rs[a]) BY DEF d
  <2>2. QED BY <1>2, <2>1, HeldMoves
<1>5. CASE u = t /\ wu = wr
  <2>1. d = 0 BY <1>2, <1>5
  <2>2. \A l \in Lessons : Held(us, ln, l) = Held(rs, ln, l)
    <3>1. ASSUME NEW l \in Lessons PROVE Held(us, ln, l) = Held(rs, ln, l)
      <4> DEFINE x == Held(rs, ln, l)
                 k == IF a \notin Levels /\ LessonOf[a] = l THEN d ELSE 0
      <4>1. x \in Nat BY HeldTyped
      <4>2. k = 0 BY <2>1
      <4>3. Held(us, ln, l) = x + k BY <1>4
      <4> HIDE DEF x, k
      <4>4. Held(us, ln, l) = x BY <4>1, <4>2, <4>3
      <4>5. QED BY <4>4 DEF x
    <3>2. QED BY <3>1
  <2>3. \A v \in Levels : HeldByAttempts(us, {v}) = HeldByAttempts(rs, {v})
    <3>1. ASSUME NEW v \in Levels PROVE HeldByAttempts(us, {v}) = HeldByAttempts(rs, {v})
      <4> DEFINE x == HeldByAttempts(rs, {v})
                 k == IF v = a THEN d ELSE 0
      <4>1. x \in Nat
        <5>1. {v} \subseteq Attempted BY FewActivities
        <5>2. QED BY <5>1, AttemptsHold
      <4>2. k = 0 BY <2>1
      <4>3. HeldByAttempts(us, {v}) = x + k BY <1>4
      <4> HIDE DEF x, k
      <4>4. HeldByAttempts(us, {v}) = x BY <4>1, <4>2, <4>3
      <4>5. QED BY <4>4 DEF x
    <3>2. QED BY <3>1
  <2>4. QED BY <1>5, <2>2, <2>3, BooksStay
<1>6. CASE u = Rewarded(t, a, new, old) /\ Delta(new, old) = d
  <2>1. a \in Activities BY FewActivities
  <2>2. a \notin Levels => Held(us, ln, LessonOf[a]) <= TotalPoints[LessonOf[a]] BY <2>1, Places
  <2>3. d = Delta(new, old) /\ u = Rewarded(t, a, new, old) BY <1>6
  <2>4. HoldsMore(rs, ln, us, ln, a, d) BY <1>4 DEF HoldsMore
  <2>5. QED BY <1>2, <2>1, <2>2, <2>3, <2>4, RewardKeepsBooks
<1>7. QED BY <1>5, <1>6 DEF d

-----------------------------------------------------------------------------
(* Attempts in the order they were started in. *)

(* They arrive in that order, and the grading requirement is not switched off again. *)
InOrder == Ordered /\ RequireMayBecome \subseteq {TRUE}

(* A counted pass is the newest attempt. *)
LinedAt(a) == \A p \in Passes(a) : \A r \in rows[a] : r.start <= p.start

Lined == \A a \in Attempted : LinedAt(a)

(* So there is one at most. *)
LEMMA OnePass ==
    ASSUME Base, NEW a \in Attempted, LinedAt(a), ispass(a)
    PROVE  /\ Passes(a) = {Newest(rows[a])} /\ Oldest(Passes(a)) = Newest(rows[a]) /\ Newest(rows[a]) \in rows[a]
           /\ rows[a] # {}
<1> DEFINE n == Newest(rows[a])
<1>1. rows[a] \subseteq Attempt /\ Distinct(rows[a]) BY BaseTypes DEF RowsTyped
<1>2. Passes(a) \subseteq rows[a] /\ Passes(a) # {} BY DEF Passes, ispass
<1>3. \A p \in Passes(a) : p = n
  <2>1. ASSUME NEW p \in Passes(a) PROVE p = n
    <3>1. p \in rows[a] /\ \A r \in rows[a] : r.start <= p.start BY <1>2 DEF LinedAt
    <3>2. QED BY <1>1, <3>1, NewestIs
  <2>2. QED BY <2>1
<1> HIDE DEF n
<1>4. Passes(a) = {n} BY <1>2, <1>3
<1>5. Oldest({n}) = n
  <2>1. Oldest({n}) \in {n}
    <3>1. {n} \subseteq Attempt BY <1>1, <1>2, <1>4
    <3>2. Distinct({n}) BY FS_Singleton DEF Distinct
    <3>3. QED BY <3>1, <3>2, OldestIs
  <2>2. QED BY <2>1
<1>6. QED BY <1>2, <1>4, <1>5 DEF n

(* An attempt added after all others is the newest. *)
LEMMA NewestAdded ==
    ASSUME NEW rs, rs \subseteq Attempt, Distinct(rs), NEW row \in Attempt,
           \A r \in rs : r.start <= row.start /\ r.start # row.start
    PROVE  Worth(rs \cup {row}) = row.points /\ Newest(rs \cup {row}) = row
<1> DEFINE us == rs \cup {row}
<1>1. us \subseteq Attempt /\ Distinct(us) /\ row \in us BY RowAdded
<1>2. row.start <= row.start
  <2>1. row.start \in Nat BY DEF Attempt
  <2>2. QED BY <2>1
<1>3. \A s \in us : s.start <= row.start BY <1>2
<1> HIDE DEF us
<1>4. Newest(us) = row /\ us # {} BY <1>1, <1>3, NewestIs
<1>5. QED BY <1>4 DEF Worth, us

(* The newest attempt with other points is still the newest. *)
LEMMA NewestRepointed ==
    ASSUME NEW rs, rs \subseteq Attempt, Distinct(rs), rs # {}, NEW n \in Nat,
           NEW us, us = (rs \ {Newest(rs)}) \cup {Repointed(Newest(rs), n)}
    PROVE  Worth(us) = n /\ Newest(us) = Repointed(Newest(rs), n)
<1> DEFINE p == Newest(rs)
           q == Repointed(p, n)
<1>1. p \in rs /\ \A s \in rs : s.start <= p.start BY NewestIs
<1>2. p \in Attempt BY <1>1
<1> HIDE DEF p
<1>3. us = (rs \ {p}) \cup {q} BY DEF p
<1>4. q.start = p.start /\ q.points = n BY <1>2, RepointedIs
<1>5. us \subseteq Attempt /\ Distinct(us) /\ us # {} BY <1>1, <1>3, RowRepointed
<1> HIDE DEF q
<1>6. q \in us /\ \A s \in us : s.start <= q.start BY <1>1, <1>3, <1>4
<1>7. Newest(us) = q BY <1>5, <1>6, NewestIs
<1>8. QED BY <1>4, <1>5, <1>7 DEF Worth, q, p

(* Handlers and edits keep it so: what a row says of its pass stays, and a new row comes last. *)
LEMMA LinedStep ==
    ASSUME Lined, require => require',
           \A a \in Attempted :
              \/ \A r \in rows'[a] : \E s \in rows[a] : /\ s.start = r.start
                                                         /\ (s.ispass <=> r.ispass) /\ (s.verified <=> r.verified)
              \/ /\ Passes(a) = {} /\ (require <=> require')
                 /\ \E row : /\ rows'[a] = rows[a] \cup {row}
                             /\ row.start <= row.start /\ \A r \in rows[a] : r.start <= row.start
    PROVE  Lined'
<1>1. ASSUME NEW a \in Attempted, NEW p \in Passes(a)', NEW r \in rows'[a]
      PROVE  r.start <= p.start
  <2>1. p \in rows'[a] /\ p.ispass /\ (a \in Practices \/ (require' => p.verified)) BY <1>1 DEF Passes, countedpassclause
  <2>2. CASE \A x \in rows'[a] : \E s \in rows[a] : /\ s.start = x.start
                                                     /\ (s.ispass <=> x.ispass) /\ (s.verified <=> x.verified)
    <3>1. PICK s \in rows[a] : s.start = p.start /\ (s.ispass <=> p.ispass) /\ (s.verified <=> p.verified) BY <2>1, <2>2
    <3>2. PICK y \in rows[a] : y.start = r.start BY <1>1, <2>2
    <3>3. s \in Passes(a) BY <2>1, <3>1 DEF Passes, countedpassclause
    <3>4. y.start <= s.start BY <3>2, <3>3 DEF Lined, LinedAt
    <3>5. QED BY <3>1, <3>2, <3>4
  <2>3. CASE /\ Passes(a) = {} /\ (require <=> require')
             /\ \E row : /\ rows'[a] = rows[a] \cup {row}
                         /\ row.start <= row.start /\ \A x \in rows[a] : x.start <= row.start
    <3>1. PICK row : /\ rows'[a] = rows[a] \cup {row}
                     /\ row.start <= row.start /\ \A x \in rows[a] : x.start <= row.start
      BY <2>3
    <3>2. p \notin rows[a] BY <2>1, <2>3 DEF Passes, countedpassclause
    <3>3. p = row BY <2>1, <3>1, <3>2
    <3>4. QED BY <1>1, <3>1, <3>3
  <2>4. QED BY <2>2, <2>3
<1>2. QED BY <1>1 DEF Lined, LinedAt

(* Every step keeps attempts in order. *)
LEMMA NextLined ==
    ASSUME InOrder, Base, Lined, [RecalcNext]_vars
    PROVE  Lined'
<1> DEFINE Same(a) == \A r \in rows'[a] : \E s \in rows[a] : /\ s.start = r.start
                                                             /\ (s.ispass <=> r.ispass) /\ (s.verified <=> r.verified)
<1>1. \A a \in Attempted : rows'[a] = rows[a] => Same(a) OBVIOUS
<1>2. \A a \in Attempted : rows[a] \subseteq Attempt /\ Distinct(rows[a]) BY BaseTypes DEF RowsTyped
<1>3. ASSUME NEW a \in Attempted, PassedAgain(a) PROVE Lined'
  <2> DEFINE old == IF rule /\ a \in Quizzes THEN getpassoldpoints(a, points[a]) ELSE getoldpoints(a, points[a])
  <2>1. /\ \A b \in Attempted : b # a => rows'[b] = rows[b]
        /\ \E p \in Passes(a) : /\ rows'[a] = (rows[a] \ {p}) \cup {Repointed(p, points[a])}
                                /\ p \in rows[a] /\ p \in Attempt
    <3>1. \E o : o = old OBVIOUS
    <3> HIDE DEF old
    <3>2. QED BY <1>3, <3>1, PassedAgainIs DEF old
  <2>2. PICK p \in Passes(a) : /\ rows'[a] = (rows[a] \ {p}) \cup {Repointed(p, points[a])}
                               /\ p \in rows[a] /\ p \in Attempt
    BY <2>1
  <2> DEFINE n == points[a]
             q == Repointed(p, n)
  <2>3. n \in Nat BY BaseTypes, FewActivities
  <2> HIDE DEF n
  <2>4. q.start = p.start /\ (q.ispass <=> p.ispass) /\ (q.verified <=> p.verified) BY <2>2, <2>3, RepointedIs
  <2>5. rows'[a] = (rows[a] \ {p}) \cup {q} BY <2>2 DEF n
  <2> HIDE DEF q
  <2>6. Same(a) BY <2>2, <2>4, <2>5
  <2>7. \A b \in Attempted : Same(b) BY <1>1, <2>1, <2>6
  <2>8. require' = require BY <1>3 DEF PassedAgain
  <2>9. QED BY <2>7, <2>8, LinedStep
<1>4. ASSUME NEW a \in Attempted, NEW start \in 1..MaxStart[a], NEW pct \in Percentages, NEW ver \in MayBeVerified(a),
             Submit(a, start, pct, ver)
      PROVE  Lined'
  <2> DEFINE row == NewAttempt(a, start, pct, ver)
  <2>1. require' = require /\ Passes(a) = {} BY <1>4 DEF Submit, ispass
  <2>2. start \in Nat /\ row.start = start
    <3>1. MaxStart[a] \in Nat BY ProgressAssumption
    <3>2. start \in Nat BY <3>1
    <3>3. row.start = start BY DEF NewAttempt
    <3>4. QED BY <3>2, <3>3
  <2>3. \A r \in rows[a] : r.start <= start BY <1>4 DEF Submit, InOrder
  <2>4. CASE \E r \in rows[a] : r.start = start
    <3>1. rows' = rows BY <1>4, <2>4 DEF Submit, Replayed
    <3>2. \A b \in Attempted : Same(b) BY <1>1, <3>1
    <3>3. QED BY <2>1, <3>2, LinedStep
  <2>5. CASE ~\E r \in rows[a] : r.start = start
    <3>1. Created(a, row) BY <1>4, <2>5 DEF Submit
    <3> HIDE DEF row
    <3>2. rows \in [Attempted -> SUBSET Attempt] BY BaseTypes DEF RowsTyped
    <3>3. rows'[a] = rows[a] \cup {row} /\ \A b \in Attempted : b # a => rows'[b] = rows[b] BY <3>1, <3>2 DEF Created
    <3>4. row.start <= row.start /\ \A r \in rows[a] : r.start <= row.start BY <2>2, <2>3
    <3>5. \A b \in Attempted : b # a => Same(b) BY <1>1, <3>3
    <3>6. \E x : /\ rows'[a] = rows[a] \cup {x}
                 /\ x.start <= x.start /\ \A r \in rows[a] : r.start <= x.start
      BY <3>3, <3>4
    <3>7. QED BY <2>1, <3>5, <3>6, LinedStep
  <2>6. QED BY <2>4, <2>5
<1>5. CASE \/ \E a \in Learnings, ended \in BOOLEAN : updatelearningprogress(a, ended)
           \/ (\E a \in Activities : ImportContent(a)) \/ SwitchRule \/ UNCHANGED vars
  <2>1. rows' = rows /\ require' = require BY <1>5 DEF updatelearningprogress, ImportContent, SwitchRule, vars
  <2>2. \A b \in Attempted : Same(b) BY <1>1, <2>1
  <2>3. QED BY <2>1, <2>2, LinedStep
<1>6. CASE SwitchRequire
  <2>1. rows' = rows /\ (require => require') BY <1>6 DEF SwitchRequire, InOrder
  <2>2. \A b \in Attempted : Same(b) BY <1>1, <2>1
  <2>3. QED BY <2>1, <2>2, LinedStep
<1>7. CASE Recalculate
  <2>1. /\ \A a \in Attempted \ Quizzes : rows'[a] = rows[a]
        /\ \A q \in Quizzes : rows'[q] = IF OnlyUncounted(q) THEN rows[q] ELSE {ZeroedRow(r) : r \in rows[q]}
    BY <1>7, RecalculateIs
  <2>2. ASSUME NEW a \in Attempted, rows'[a] = {ZeroedRow(r) : r \in rows[a]} PROVE Same(a)
    <3>1. ASSUME NEW r \in rows'[a]
          PROVE  \E s \in rows[a] : s.start = r.start /\ (s.ispass <=> r.ispass) /\ (s.verified <=> r.verified)
      <4>1. PICK s \in rows[a] : r = ZeroedRow(s) BY <2>2, <3>1
      <4>2. s \in Attempt BY <1>2
      <4>3. QED BY <4>1, <4>2, ZeroedRowIs
    <3>2. QED BY <3>1
  <2>3. ASSUME NEW a \in Attempted PROVE Same(a)
    <3>1. CASE rows'[a] = rows[a] BY <1>1, <3>1
    <3>2. CASE rows'[a] = {ZeroedRow(r) : r \in rows[a]} BY <2>2, <3>2
    <3>3. QED BY <2>1, <3>1, <3>2
  <2>4. require' = require BY <1>7 DEF Recalculate
  <2>5. QED BY <2>3, <2>4, LinedStep
<1>8. QED BY <1>3, <1>4, <1>5, <1>6, <1>7 DEF RecalcNext, Next

-----------------------------------------------------------------------------
(* Each handler keeps the ledgers in agreement. *)

(* What is held after a step fits, too. *)
LEMMA FitsAfter ==
    ASSUME Base', \A l \in Lessons : Slack(l)
    PROVE  RowsTyped(rows') /\ LearntTyped(learnt') /\ \A l \in Lessons : Held(rows', learnt', l) <= TotalPoints[l]
<1> DEFINE us == rows'
           un == learnt'
<1>1. RowsTyped(us) /\ LearntTyped(un) BY DEF Base, TypeOK, RowsTyped, LearntTyped, LearntRow
<1>2. /\ \A a \in Attempted : \A r \in us[a] : r.points <= MaxPoints[a]
      /\ \A a \in Learnings : un[a].points <= MaxPoints[a]
  BY DEF Base, Bounded
<1> HIDE DEF us, un
<1>3. \A l \in Lessons : Held(us, un, l) <= TotalPoints[l] BY <1>1, <1>2, HeldFits
<1>4. QED BY <1>1, <1>3 DEF us, un

(* A pass credited again is the newest row, which is worth what the activity is worth now. *)
LEMMA PassMoves ==
    ASSUME Base, NEW a \in Attempted, LinedAt(a), PassedAgain(a),
           NEW old, old = IF rule /\ a \in Quizzes THEN getpassoldpoints(a, points[a]) ELSE getoldpoints(a, points[a])
    PROVE  \/ totals' = totals /\ Worth(rows'[a]) = Worth(rows[a])
           \/ totals' = Rewarded(totals, a, points[a], old) /\ Delta(points[a], old) = Worth(rows'[a]) - Worth(rows[a])
<1>1. /\ totals' = IF old # NoOld THEN Rewarded(totals, a, points[a], old) ELSE totals
      /\ \E p \in Passes(a) : rows'[a] = (rows[a] \ {p}) \cup {Repointed(p, points[a])}
  BY PassedAgainIs
<1>2. RowsTyped(rows) /\ points[a] \in Nat BY BaseTypes, FewActivities
<1>3. /\ Passes(a) = {Newest(rows[a])} /\ Oldest(Passes(a)) = Newest(rows[a]) /\ Newest(rows[a]) \in rows[a]
      /\ rows[a] # {} /\ Passes(a) # {}
  BY OnePass DEF PassedAgain, ispass
<1> DEFINE rs == rows[a]
           us == rows'[a]
           n == points[a]
           p == Newest(rs)
<1>4. rs \subseteq Attempt /\ Distinct(rs) /\ p \in Attempt BY <1>2, <1>3 DEF RowsTyped
<1>5. old = OldPoints(rs, p, n) \/ old = OldPoints(Passes(a), p, n)
  BY <1>3 DEF getpassoldpoints, getoldpoints
<1>6. p.points \in Nat /\ Worth(rs) = p.points BY <1>3, <1>4 DEF Attempt, Worth
<1>7. (old # NoOld => Delta(n, old) = n - p.points) /\ (old = NoOld => n = p.points)
  <2>1. rs # {} /\ Passes(a) # {} /\ n \in Nat BY <1>2, <1>3
  <2> HIDE DEF rs, p, n
  <2>2. QED BY <1>5, <1>6, <2>1, OldPointsAre
<1>8. Worth(us) = n
  <2>1. us = (rs \ {p}) \cup {Repointed(p, n)} BY <1>1, <1>3
  <2>2. rs # {} /\ n \in Nat BY <1>2, <1>3
  <2> HIDE DEF rs, n, us
  <2>3. QED BY <1>4, <2>1, <2>2, NewestRepointed DEF p
<1>9. CASE old = NoOld BY <1>1, <1>6, <1>7, <1>8, <1>9
<1>10. CASE old # NoOld BY <1>1, <1>6, <1>7, <1>8, <1>10
<1>11. QED BY <1>9, <1>10

(* So it keeps the ledgers in agreement. *)
LEMMA PassedAgainBooks ==
    ASSUME Base, Base', Lined, \A l \in Lessons : Slack(l), NEW a \in Attempted, PassedAgain(a),
           Books(totals, rows, learnt)
    PROVE  Books(totals', rows', learnt')
<1>1. PICK old : old = IF rule /\ a \in Quizzes THEN getpassoldpoints(a, points[a]) ELSE getoldpoints(a, points[a])
  OBVIOUS
<1>2. old \in Nat \cup {NoOld} /\ \A b \in Attempted : b # a => rows'[b] = rows[b] BY <1>1, PassedAgainIs
<1>3. totals \in Totals /\ RowsTyped(rows) /\ LearntTyped(learnt) /\ points[a] \in Nat BY BaseTypes, FewActivities
<1>4. learnt' = learnt BY DEF PassedAgain
<1>5. RowsTyped(rows') /\ \A l \in Lessons : Held(rows', learnt', l) <= TotalPoints[l] BY FitsAfter
<1> DEFINE us == rows'
           u == totals'
           n == points[a]
<1>6. \/ u = totals /\ Worth(us[a]) = Worth(rows[a])
      \/ u = Rewarded(totals, a, n, old) /\ Delta(n, old) = Worth(us[a]) - Worth(rows[a])
  <2>1. LinedAt(a) BY DEF Lined
  <2>2. QED BY <1>1, <2>1, PassMoves
<1>7. n \in Nat /\ RowsTyped(us) /\ (\A b \in Attempted : b # a => us[b] = rows[b])
       /\ \A l \in Lessons : Held(us, learnt, l) <= TotalPoints[l]
  BY <1>2, <1>3, <1>4, <1>5
<1> HIDE DEF n, us, u
<1>8. Books(u, us, learnt) BY <1>2, <1>3, <1>6, <1>7, AttemptKeepsBooks
<1>9. QED BY <1>4, <1>8 DEF u, us

(* A fresh attempt that is the newest moves the totals from what the newest was worth. *)
LEMMA NewestMoves ==
    ASSUME Base, NEW a \in Attempted, NEW row \in Attempt, \A r \in rows[a] : r.start # row.start /\ r.start <= row.start,
           NEW old, old = getoldpoints(a, row.points),
           NEW t, t = IF RewardDue(a, row) THEN Rewarded(totals, a, row.points, old) ELSE totals
    PROVE  \/ t = totals /\ Worth(rows[a] \cup {row}) = Worth(rows[a])
           \/ /\ t = Rewarded(totals, a, row.points, old)
              /\ Delta(row.points, old) = Worth(rows[a] \cup {row}) - Worth(rows[a])
<1> DEFINE rs == rows[a]
           us == rs \cup {row}
           n == row.points
           p == Newest(rs)
<1>1. n \in Nat BY DEF Attempt
<1>2. rs \subseteq Attempt /\ Distinct(rs) BY BaseTypes DEF RowsTyped
<1>3. Worth(us) = n
  <2> HIDE DEF rs
  <2>1. QED BY <1>2, NewestAdded DEF rs
<1>4. rs # {} => p \in rs /\ p \in Attempt /\ p.points \in Nat /\ Worth(rs) = p.points
  <2>1. ASSUME rs # {} PROVE p \in rs BY <1>2, <2>1, NewestIs
  <2>2. QED BY <1>2, <2>1 DEF Worth, Attempt
<1>5. ~StaleAttempt(a, row.start, row.ispass)
  <2>1. ASSUME rs # {} PROVE ~(p.start > row.start)
    <3>1. p.start <= row.start /\ p \in Attempt BY <1>4, <2>1
    <3>2. p.start \in Nat /\ row.start \in Nat BY <3>1 DEF Attempt
    <3>3. QED BY <3>1, <3>2
  <2>2. QED BY <2>1 DEF StaleAttempt
<1>6. RewardDue(a, row) <=> rs = {} \/ old # NoOld BY <1>5 DEF RewardDue, hasTried
<1>7. /\ rs = {} => Delta(n, old) = n
      /\ rs # {} /\ old # NoOld => Delta(n, old) = n - p.points
      /\ rs # {} /\ old = NoOld => n = p.points
  <2>1. old = OldPoints(rs, p, n) BY DEF getoldpoints
  <2> HIDE DEF rs, p, n
  <2>2. QED BY <1>1, <1>4, <2>1, OldPointsAre
<1>8. CASE rs = {}
  <2>1. t = Rewarded(totals, a, n, old) BY <1>6, <1>8
  <2>2. Worth(rs) = 0 /\ Delta(n, old) = n BY <1>7, <1>8 DEF Worth
  <2>3. n = n - 0 BY <1>1
  <2>4. QED BY <1>3, <2>1, <2>2, <2>3
<1>9. CASE rs # {} /\ old # NoOld
  <2>1. t = Rewarded(totals, a, n, old) BY <1>6, <1>9
  <2>2. QED BY <1>3, <1>4, <1>7, <1>9, <2>1
<1>10. CASE rs # {} /\ old = NoOld
  <2>1. t = totals BY <1>6, <1>10
  <2>2. QED BY <1>3, <1>4, <1>7, <1>10, <2>1
<1>11. QED BY <1>8, <1>9, <1>10

(* So it keeps the ledgers in agreement. *)
LEMMA SubmitBooks ==
    ASSUME InOrder, Base, Base', \A l \in Lessons : Slack(l),
           NEW a \in Attempted, NEW start \in Nat \ {0}, NEW pct \in Percentages, NEW ver \in BOOLEAN,
           Submit(a, start, pct, ver), Books(totals, rows, learnt)
    PROVE  Books(totals', rows', learnt')
<1> DEFINE row == NewAttempt(a, start, pct, ver)
<1>1. totals \in Totals /\ RowsTyped(rows) /\ LearntTyped(learnt) /\ points[a] \in Nat /\ rule \in BOOLEAN
  BY BaseTypes, FewActivities
<1>2. row \in Attempt /\ row.start = start
  <2>1. \E r : r = row OBVIOUS
  <2> HIDE DEF row
  <2>2. QED BY <1>1, <2>1, NewAttemptIs DEF row
<1>3. learnt' = learnt BY DEF Submit
<1>4. CASE \E r \in rows[a] : r.start = start
  <2>1. rows' = rows /\ totals' = totals BY <1>4 DEF Submit, Replayed
  <2>2. QED BY <1>3, <2>1
<1>5. CASE ~\E r \in rows[a] : r.start = start
  <2>1. Created(a, row) BY <1>5 DEF Submit
  <2>2. \A r \in rows[a] : r.start <= start BY DEF Submit, InOrder
  <2> HIDE DEF row
  <2>3. \A r \in rows[a] : r.start # row.start /\ r.start <= row.start BY <1>2, <1>5, <2>2
  <2>4. PICK old : old = getoldpoints(a, row.points) OBVIOUS
  <2>5. PICK t : t = IF RewardDue(a, row) THEN Rewarded(totals, a, row.points, old) ELSE totals OBVIOUS
  <2>6. /\ old \in Nat \cup {NoOld} /\ t \in Totals
        /\ totals' = Scored(t, a, row.scores)
        /\ RowsTyped(rows') /\ \A b \in Attempted : b # a => rows'[b] = rows[b]
        /\ rows'[a] = rows[a] \cup {row}
    BY <1>2, <2>1, <2>3, <2>4, <2>5, CreatedIs
  <2> DEFINE us == rows'
             n == row.points
             m == row.scores
             u == totals'
  <2>7. n \in Nat /\ m \in Nat /\ u = Scored(t, a, m) BY <1>2, <2>6 DEF Attempt
  <2>8. \/ t = totals /\ Worth(us[a]) = Worth(rows[a])
        \/ t = Rewarded(totals, a, n, old) /\ Delta(n, old) = Worth(us[a]) - Worth(rows[a])
    BY <1>2, <2>3, <2>4, <2>5, <2>6, NewestMoves
  <2>9. RowsTyped(us) /\ (\A b \in Attempted : b # a => us[b] = rows[b])
         /\ \A l \in Lessons : Held(us, learnt, l) <= TotalPoints[l]
    BY <1>3, <2>6, FitsAfter
  <2> HIDE DEF us, n, m, u
  <2>10. Books(t, us, learnt) BY <1>1, <2>6, <2>7, <2>8, <2>9, AttemptKeepsBooks
  <2>11. /\ \A l \in Lessons : u.lesson[l].points = t.lesson[l].points
         /\ \A v \in Levels : u.level[v].points = t.level[v].points
         /\ u.grade.points = t.grade.points
    BY <2>6, <2>7, ScoredIs DEF Scorelike
  <2>12. Books(u, us, learnt) BY <2>10, <2>11, BooksStay
  <2>13. QED BY <1>3, <2>12 DEF u, us
<1>6. QED BY <1>4, <1>5

(* What a report on a learning item credits is what its row gains, or nothing where it gains nothing. *)
LEMMA LearningGains ==
    ASSUME Base, NEW a \in Learnings, NEW ended \in BOOLEAN, updatelearningprogress(a, ended),
           NEW old, old = LearningOld(a, ended)
    PROVE  \E d \in Int : /\ Gains(learnt[a], learnt'[a], d)
                          /\ IF old # NoOld \/ (ended /\ learnt'[a].viewed = 1) THEN d = Delta(points[a], old) ELSE d = 0
<1> DEFINE v == learnt[a].viewed
           p == learnt[a].points
           n == points[a]
           w == learnt'[a].viewed
           q == learnt'[a].points
<1>1. v \in Nat /\ p \in Nat /\ n \in Nat /\ (v = 0 => p = 0)
  <2>1. learnt[a] \in LearntRow /\ n \in Nat BY BaseTypes, FewActivities DEF LearntTyped
  <2>2. v = 0 => p = 0 BY DEF Base, Bounded
  <2>3. QED BY <2>1, <2>2, LearntRowIs
<1>2. w = v + (IF ended THEN 1 ELSE 0) /\ q = IF v > 0 \/ ended THEN n ELSE 0
  <2>1. \E t : t = IF old # NoOld \/ (ended /\ learnt'[a].viewed = 1) THEN Rewarded(totals, a, points[a], old) ELSE totals
    OBVIOUS
  <2>2. QED BY <2>1, LearningIs
<1>3. old = IF learnt[a] # NotSeen /\ (v > 0 \/ ended) /\ p # n THEN p ELSE NoOld BY DEF LearningOld
<1>4. v > 0 => learnt[a] # NotSeen BY DEF NotSeen
<1>5. \A d : Gains(learnt[a], learnt'[a], d) <=> (v = 0 => p = 0) /\ (w = 0 => q = 0) /\ d = q - p BY DEF Gains
<1>6. old # NoOld <=> learnt[a] # NotSeen /\ (v > 0 \/ ended) /\ p # n BY <1>1, <1>3 DEF NoOld
<1> HIDE DEF v, p, n, w, q
<1>7. CASE v > 0
  <2>1. q = n /\ w # 0 /\ v # 0 /\ (ended => w # 1) BY <1>1, <1>2, <1>7
  <2>2. CASE p = n
    <3>1. q - p = 0 /\ old = NoOld BY <1>1, <1>3, <2>1, <2>2
    <3>2. Gains(learnt[a], learnt'[a], 0) BY <1>1, <1>5, <2>1, <3>1
    <3>3. ~(ended /\ learnt'[a].viewed = 1) BY <2>1 DEF w
    <3>4. QED BY <3>1, <3>2, <3>3
  <2>3. CASE p # n
    <3>1. old = p /\ old # NoOld BY <1>3, <1>4, <1>6, <1>7, <2>3
    <3>2. Delta(n, old) = n - p /\ n - p \in Int BY <1>1, <3>1 DEF Delta
    <3>3. Gains(learnt[a], learnt'[a], n - p) BY <1>1, <1>5, <2>1
    <3>4. QED BY <3>1, <3>2, <3>3 DEF n
  <2>4. QED BY <2>2, <2>3
<1>8. CASE v = 0 /\ ended
  <2>1. w = 1 /\ q = n /\ p = 0 BY <1>1, <1>2, <1>8
  <2>2. Delta(n, old) = n BY <1>1, <1>3, <2>1 DEF Delta, NoOld
  <2>3. n - p = n /\ n \in Int BY <1>1, <2>1
  <2>4. Gains(learnt[a], learnt'[a], n) BY <1>1, <1>5, <2>1, <2>3
  <2>5. learnt'[a].viewed = 1 BY <2>1 DEF w
  <2>6. QED BY <1>8, <2>2, <2>3, <2>4, <2>5 DEF n
<1>9. CASE v = 0 /\ ~ended
  <2>1. w = 0 /\ q = 0 /\ p = 0 /\ ~(v > 0) BY <1>1, <1>2, <1>9
  <2>2. old = NoOld BY <1>3, <1>9, <2>1
  <2>3. q - p = 0 BY <2>1
  <2>4. Gains(learnt[a], learnt'[a], 0) BY <1>5, <2>1, <2>3
  <2>5. QED BY <1>9, <2>2, <2>4
<1>10. QED BY <1>1, <1>7, <1>8, <1>9

(* A reward of what the row of a learning item gained, or none where it gained nothing. *)
LEMMA LearntKeepsBooks ==
    ASSUME NEW t \in Totals, NEW a \in Learnings, NEW rs, RowsTyped(rs), NEW ln, LearntTyped(ln), NEW un, LearntTyped(un),
           Books(t, rs, ln), \A b \in Learnings : b # a => un[b] = ln[b],
           NEW d \in Int, Gains(ln[a], un[a], d), Held(rs, un, LessonOf[a]) <= TotalPoints[LessonOf[a]],
           NEW new \in Nat, NEW old \in Nat \cup {NoOld}, NEW u,
           (u = t /\ d = 0) \/ (u = Rewarded(t, a, new, old) /\ d = Delta(new, old))
    PROVE  Books(u, rs, un)
<1>1. \A l \in Lessons : Held(rs, un, l) = Held(rs, ln, l) + (IF a \notin Levels /\ LessonOf[a] = l THEN d ELSE 0)
  BY LearntHeldMoves
<1>2. a \in Activities /\ a \notin Levels BY FewActivities, Places
<1>3. CASE u = t /\ d = 0
  <2>1. ASSUME NEW l \in Lessons PROVE Held(rs, un, l) = Held(rs, ln, l)
    <3> DEFINE x == Held(rs, ln, l)
               k == IF a \notin Levels /\ LessonOf[a] = l THEN d ELSE 0
    <3>1. x \in Nat BY HeldTyped
    <3>2. k = 0 BY <1>3
    <3>3. Held(rs, un, l) = x + k BY <1>1
    <3> HIDE DEF x, k
    <3>4. Held(rs, un, l) = x BY <3>1, <3>2, <3>3
    <3>5. QED BY <3>4 DEF x
  <2>2. QED BY <1>3, <2>1, BooksStay
<1>4. CASE u = Rewarded(t, a, new, old) /\ d = Delta(new, old)
  <2>1. ASSUME NEW v \in Levels
        PROVE  HeldByAttempts(rs, {v}) = HeldByAttempts(rs, {v}) + (IF v = a THEN d ELSE 0)
    <3>1. v # a BY <1>2
    <3>2. {v} \subseteq Attempted BY FewActivities
    <3>3. HeldByAttempts(rs, {v}) \in Nat BY <3>2, AttemptsHold
    <3>4. \A x \in Nat : x = x + 0 OBVIOUS
    <3>5. HeldByAttempts(rs, {v}) = HeldByAttempts(rs, {v}) + 0 BY <3>3, <3>4
    <3>6. QED BY <3>1, <3>5
  <2>2. HoldsMore(rs, ln, rs, un, a, d) BY <1>1, <2>1 DEF HoldsMore
  <2>3. QED BY <1>2, <1>4, <2>2, RewardKeepsBooks
<1>5. QED BY <1>3, <1>4

(* So the report keeps the ledgers in agreement. *)
LEMMA LearningBooks ==
    ASSUME Base, Base', \A l \in Lessons : Slack(l), NEW a \in Learnings, NEW ended \in BOOLEAN,
           updatelearningprogress(a, ended), Books(totals, rows, learnt)
    PROVE  Books(totals', rows', learnt')
<1>1. PICK old : old = LearningOld(a, ended) OBVIOUS
<1>2. PICK t : t = IF old # NoOld \/ (ended /\ learnt'[a].viewed = 1) THEN Rewarded(totals, a, points[a], old) ELSE totals
  OBVIOUS
<1>3. /\ old \in Nat \cup {NoOld} /\ t \in Totals
      /\ totals' = IF ended THEN addstudentscores(t, LessonOf[a], 0) ELSE t
      /\ \A b \in Learnings : b # a => learnt'[b] = learnt[b]
  BY <1>1, <1>2, LearningIs
<1>4. /\ totals \in Totals /\ RowsTyped(rows) /\ LearntTyped(learnt) /\ points[a] \in Nat /\ a \in Activities
      /\ LessonOf[a] \in Lessons /\ a \notin Levels /\ rows' = rows
  BY BaseTypes, FewActivities, Places DEF updatelearningprogress
<1>5. PICK d \in Int : /\ Gains(learnt[a], learnt'[a], d)
                       /\ IF old # NoOld \/ (ended /\ learnt'[a].viewed = 1) THEN d = Delta(points[a], old) ELSE d = 0
  BY <1>1, LearningGains
<1>6. RowsTyped(rows') /\ LearntTyped(learnt') /\ \A l \in Lessons : Held(rows', learnt', l) <= TotalPoints[l] BY FitsAfter
<1> DEFINE un == learnt'
           n == points[a]
           u == totals'
<1>7. /\ LearntTyped(un) /\ Gains(learnt[a], un[a], d) /\ (\A b \in Learnings : b # a => un[b] = learnt[b])
      /\ Held(rows, un, LessonOf[a]) <= TotalPoints[LessonOf[a]] /\ n \in Nat
      /\ (t = totals /\ d = 0) \/ (t = Rewarded(totals, a, n, old) /\ d = Delta(n, old))
  BY <1>2, <1>3, <1>4, <1>5, <1>6
<1>8. u = (IF ended THEN addstudentscores(t, LessonOf[a], 0) ELSE t) BY <1>3
<1> HIDE DEF un, n, u
<1>10. Books(t, rows, un) BY <1>3, <1>4, <1>7, LearntKeepsBooks
<1>11. Books(u, rows, un)
  <2>1. CASE ~ended BY <1>8, <1>10, <2>1
  <2>2. CASE ended
    <3> DEFINE l0 == LessonOf[a]
    <3>1. u = addstudentscores(t, l0, 0) /\ l0 \in Lessons /\ 0 \in Nat BY <1>4, <1>8, <2>2
    <3> HIDE DEF l0
    <3>2. LessonStarred(t, l0, 0, u) BY <1>3, <3>1, LessonStarsAre
    <3>3. /\ \A l \in Lessons : u.lesson[l].points = t.lesson[l].points
          /\ \A v \in Levels : u.level[v].points = t.level[v].points
          /\ u.grade.points = t.grade.points
      BY <3>2 DEF LessonStarred, Scorelike
    <3>4. QED BY <1>10, <3>3, BooksStay
  <2>3. QED BY <2>1, <2>2
<1>12. QED BY <1>4, <1>11 DEF u, un

-----------------------------------------------------------------------------
(* The recalculation. *)

(* What lessons lose, their levels and the grade can lose as well. *)
LossFits(am, pv, pg) ==
    /\ \A v \in Levels : SumFunctionOnSet(am, LessonsOf(v)) \in Nat /\ SumFunctionOnSet(am, LessonsOf(v)) <= pv[v]
    /\ SumFunctionOnSet(am, Lessons) \in Nat /\ SumFunctionOnSet(am, Lessons) <= pg
    /\ SumFunctionOnSet(am, Lessons) = SumFunctionOnSet([v \in Levels |-> SumFunctionOnSet(am, LessonsOf(v))], Levels)

(* What lessons lose is no more than their level and the grade have. *)
LEMMA LossesFit ==
    ASSUME NEW pl, NEW pv, NEW pg, NEW hl, NEW hv, Even(pl, pv, pg, hl, hv),
           \A l \in Lessons : hl[l] \in Nat, \A v \in Levels : hv[v] \in Nat,
           NEW am, \A l \in Lessons : am[l] \in Nat /\ am[l] <= hl[l]
    PROVE  LossFits(am, pv, pg)
<1> DEFINE sl == [v \in Levels |-> SumFunctionOnSet(am, LessonsOf(v))]
<1>1. \A l \in Lessons : pl[l] = hl[l] BY DEF Even
<1>2. ASSUME NEW v \in Levels PROVE sl[v] \in Nat /\ sl[v] <= pv[v] /\ pv[v] \in Int
  <2> DEFINE s == SumFunctionOnSet(am, LessonsOf(v))
             p == SumFunctionOnSet(pl, LessonsOf(v))
  <2>1. /\ IsFiniteSet(LessonsOf(v))
        /\ \A l \in LessonsOf(v) : am[l] \in Nat /\ am[l] \in Int /\ pl[l] \in Int /\ pl[l] \in Nat /\ am[l] <= pl[l]
    <3>1. \A l \in Lessons : am[l] \in Nat /\ am[l] \in Int /\ pl[l] \in Int /\ pl[l] \in Nat /\ am[l] <= pl[l]
      BY <1>1
    <3>2. QED BY <3>1, FewOfEach
  <2>2. s \in Nat /\ p \in Nat /\ s <= p BY <2>1, SumNat, SumMono
  <2>3. pv[v] = p + hv[v] /\ hv[v] \in Nat BY DEF Even
  <2>4. sl[v] = s OBVIOUS
  <2> HIDE DEF s, p
  <2>5. QED BY <2>2, <2>3, <2>4
<1>3. pg = SumFunctionOnSet(pv, Levels) BY DEF Even
<1>4. \A v \in Levels : sl[v] = SumFunctionOnSet(am, Group(Lessons, LevelOf, v)) BY DEF LessonsOf, Group
<1>5. \A l \in Lessons : LevelOf[l] \in Levels BY Places
<1>6. IsFiniteSet(Lessons) /\ IsFiniteSet(Levels) /\ \A l \in Lessons : am[l] \in Int BY FewOfEach
<1>8. \A v \in Levels : SumFunctionOnSet(am, LessonsOf(v)) = sl[v] OBVIOUS
<1> HIDE DEF sl
<1>7. SumFunctionOnSet(sl, Levels) = SumFunctionOnSet(am, Lessons)
  BY <1>4, <1>5, <1>6, SumOfSums
<1>9. SumFunctionOnSet(sl, Levels) <= pg BY <1>2, <1>3, <1>6, SumMono
<1>10. SumFunctionOnSet(am, Lessons) \in Nat BY <1>6, SumNat
<1>11. QED BY <1>2, <1>7, <1>8, <1>9, <1>10 DEF LossFits, sl

(* The books stay even when every lesson loses am[l], and its level and the grade with it. *)
LEMMA LessonsLose ==
    ASSUME NEW pl, NEW pv, NEW pg, NEW hl, NEW hv, Even(pl, pv, pg, hl, hv),
           \A l \in Lessons : hl[l] \in Nat, \A v \in Levels : hv[v] \in Nat,
           NEW am, \A l \in Lessons : am[l] \in Nat /\ am[l] <= hl[l],
           NEW ql, NEW qv, NEW qg, NEW kl, NEW kv,
           \A l \in Lessons : ql[l] = pl[l] - am[l] /\ kl[l] = hl[l] - am[l],
           \A v \in Levels : kv[v] = hv[v] /\ qv[v] = pv[v] - SumFunctionOnSet(am, LessonsOf(v)),
           qg = pg - SumFunctionOnSet(am, Lessons)
    PROVE  Even(ql, qv, qg, kl, kv)
<1> DEFINE sl == [v \in Levels |-> SumFunctionOnSet(am, LessonsOf(v))]
<1>1. \A l \in Lessons : pl[l] = hl[l] BY DEF Even
<1>2. \A l \in Lessons : ql[l] = kl[l] BY <1>1
<1>3. ASSUME NEW v \in Levels
      PROVE  /\ qv[v] = SumFunctionOnSet(ql, LessonsOf(v)) + kv[v]
             /\ qv[v] \in Int /\ sl[v] \in Int /\ pv[v] = qv[v] + sl[v]
  <2> DEFINE s == SumFunctionOnSet(am, LessonsOf(v))
             p == SumFunctionOnSet(pl, LessonsOf(v))
             q == SumFunctionOnSet(ql, LessonsOf(v))
  <2>1. /\ IsFiniteSet(LessonsOf(v))
        /\ \A l \in LessonsOf(v) : am[l] \in Int /\ ql[l] \in Int /\ pl[l] \in Int /\ pl[l] = ql[l] + am[l]
    <3>1. \A l \in Lessons : am[l] \in Int /\ ql[l] \in Int /\ pl[l] \in Int /\ pl[l] = ql[l] + am[l] BY <1>1
    <3>2. QED BY <3>1, FewOfEach
  <2>2. p = q + s BY <2>1, SumPlus
  <2>3. q \in Int /\ s \in Int BY <2>1, SumTyped
  <2>4. pv[v] = p + hv[v] /\ hv[v] \in Nat /\ kv[v] = hv[v] /\ qv[v] = pv[v] - s BY DEF Even
  <2>5. sl[v] = s OBVIOUS
  <2> HIDE DEF s, p, q, sl
  <2>6. qv[v] = q + kv[v] /\ qv[v] \in Int /\ s \in Int /\ pv[v] = qv[v] + s BY <2>2, <2>3, <2>4
  <2>7. QED BY <2>5, <2>6 DEF q
<1>4. qg = SumFunctionOnSet(qv, Levels)
  <2> DEFINE x == SumFunctionOnSet(qv, Levels)
             y == SumFunctionOnSet(sl, Levels)
  <2>1. LossFits(am, pv, pg) BY LossesFit
  <2>2. SumFunctionOnSet(am, Lessons) = y BY <2>1 DEF LossFits
  <2>3. pg = SumFunctionOnSet(pv, Levels) BY DEF Even
  <2>4. qg = pg - y BY <2>2
  <2> HIDE DEF sl
  <2>5. IsFiniteSet(Levels) /\ \A v \in Levels : qv[v] \in Int /\ sl[v] \in Int /\ pv[v] = qv[v] + sl[v] BY <1>3, FewOfEach
  <2>6. pg = x + y BY <2>3, <2>5, SumPlus
  <2>7. x \in Int /\ y \in Int BY <2>5, SumTyped
  <2> HIDE DEF x, y
  <2>8. qg = x BY <2>4, <2>6, <2>7
  <2>9. QED BY <2>8 DEF x
<1>5. QED BY <1>2, <1>3, <1>4 DEF Even

(* What the activities of two sets hold together. *)
LEMMA HeldByBoth ==
    ASSUME NEW rs, RowsTyped(rs), NEW as, as \subseteq Attempted, NEW bs, bs \subseteq Attempted, as \cap bs = {}
    PROVE  HeldByAttempts(rs, as \cup bs) = HeldByAttempts(rs, as) + HeldByAttempts(rs, bs)
<1> DEFINE f == [a \in Attempted |-> Worth(rs[a])]
<1>1. \A cs : HeldByAttempts(rs, cs) = SumFunctionOnSet(f, cs) BY DEF HeldByAttempts, Worth
<1>2. IsFiniteSet(as) /\ IsFiniteSet(bs)
  <2>1. as \subseteq Activities /\ bs \subseteq Activities BY FewActivities
  <2>2. QED BY <2>1, FewActivities
<1>3. \A a \in as \cup bs : f[a] \in Int
  <2>1. \A a \in Attempted : Worth(rs[a]) \in Nat BY WorthTyped DEF RowsTyped
  <2>2. \A a \in Attempted : f[a] \in Int
    <3>1. \A a \in Attempted : f[a] \in Nat BY <2>1
    <3> HIDE DEF f
    <3>2. QED BY <3>1
  <2>3. QED BY <2>2
<1> DEFINE cs == as \cup bs
<1>4. HeldByAttempts(rs, as) = SumFunctionOnSet(f, as) /\ HeldByAttempts(rs, bs) = SumFunctionOnSet(f, bs) BY <1>1
<1>5. HeldByAttempts(rs, cs) = SumFunctionOnSet(f, cs) BY <1>1
<1> HIDE DEF f
<1>6. SumFunctionOnSet(f, as \cup bs) = SumFunctionOnSet(f, as) + SumFunctionOnSet(f, bs) BY <1>2, <1>3, SumUnion
<1>7. QED BY <1>4, <1>5, <1>6

(* Rows worth the same hold the same, and rows worth nothing hold nothing. *)
LEMMA HeldSame ==
    ASSUME NEW rs, RowsTyped(rs), NEW us, RowsTyped(us), NEW as, as \subseteq Attempted
    PROVE  /\ (\A a \in as : Worth(us[a]) = Worth(rs[a])) => HeldByAttempts(us, as) = HeldByAttempts(rs, as)
           /\ (\A a \in as : Worth(rs[a]) = 0) => HeldByAttempts(rs, as) = 0
<1> DEFINE f == [a \in Attempted |-> Worth(rs[a])]
           e == [a \in Attempted |-> Worth(us[a])]
<1>1. HeldByAttempts(rs, as) = SumFunctionOnSet(f, as) /\ HeldByAttempts(us, as) = SumFunctionOnSet(e, as)
  BY DEF HeldByAttempts, Worth
<1>2. IsFiniteSet(as)
  <2>1. as \subseteq Activities BY FewActivities
  <2>2. QED BY <2>1, FewActivities
<1>3. \A a \in as : f[a] = Worth(rs[a]) /\ e[a] = Worth(us[a]) OBVIOUS
<1> HIDE DEF f, e
<1>4. ASSUME \A a \in as : Worth(us[a]) = Worth(rs[a]) PROVE HeldByAttempts(us, as) = HeldByAttempts(rs, as)
  <2>1. \A a \in as : e[a] = f[a] BY <1>3, <1>4
  <2>2. SumFunctionOnSet(e, as) = SumFunctionOnSet(f, as) BY <1>2, <2>1, SumSame
  <2>3. QED BY <1>1, <2>2
<1>5. ASSUME \A a \in as : Worth(rs[a]) = 0 PROVE HeldByAttempts(rs, as) = 0
  <2>1. \A a \in as : f[a] = 0 BY <1>3, <1>5
  <2>2. SumFunctionOnSet(f, as) = 0 BY <1>2, <2>1, SumZero
  <2>3. QED BY <1>1, <2>2
<1>6. QED BY <1>4, <1>5

(* The activities of a lesson: those the recalculation leaves alone, the quizzes without a pass, and the other quizzes. *)
LeftAlone(l) == In(l, Practices) \cup {q \in In(l, Quizzes) : OnlyUncounted(q)}
WithoutPass(l) == {q \in In(l, Quizzes) : NoPass(q)}
OtherQuizzes(l) == {q \in In(l, Quizzes) : ~OnlyUncounted(q) /\ ~NoPass(q)}

(* A lesson's attempts are those left alone, those without a pass, and the counted ones. *)
LEMMA QuizzesSplit ==
    ASSUME NEW l
    PROVE  /\ In(l, Practices \cup Quizzes) = (LeftAlone(l) \cup WithoutPass(l)) \cup OtherQuizzes(l)
           /\ LeftAlone(l) \cap WithoutPass(l) = {}
           /\ (LeftAlone(l) \cup WithoutPass(l)) \cap OtherQuizzes(l) = {}
           /\ LeftAlone(l) \subseteq Attempted /\ WithoutPass(l) \subseteq Attempted /\ OtherQuizzes(l) \subseteq Attempted
           /\ OtherQuizzes(l) \subseteq In(l, Quizzes) /\ WithoutPass(l) \subseteq Quizzes
<1>1. \A q : ~(OnlyUncounted(q) /\ NoPass(q)) BY DEF OnlyUncounted, NoPass
<1>2. Practices \cap Quizzes = {} BY ProgressAssumption
<1>3. Practices \subseteq Attempted /\ Quizzes \subseteq Attempted BY FewActivities
<1>4. QED BY <1>1, <1>2, <1>3 DEF LeftAlone, WithoutPass, OtherQuizzes, In

(* What rows hold is what the three parts hold. *)
LEMMA HeldInParts ==
    ASSUME NEW rs, RowsTyped(rs), NEW ln, LearntTyped(ln), NEW l
    PROVE  /\ Held(rs, ln, l) = HeldByLearning(ln, In(l, Learnings)) + HeldByAttempts(rs, LeftAlone(l))
                                 + HeldByAttempts(rs, WithoutPass(l)) + HeldByAttempts(rs, OtherQuizzes(l))
           /\ HeldByLearning(ln, In(l, Learnings)) \in Nat /\ HeldByAttempts(rs, LeftAlone(l)) \in Nat
           /\ HeldByAttempts(rs, WithoutPass(l)) \in Nat /\ HeldByAttempts(rs, OtherQuizzes(l)) \in Nat
<1> DEFINE A == LeftAlone(l)
           B == WithoutPass(l)
           C == OtherQuizzes(l)
           AB == A \cup B
           w == HeldByLearning(ln, In(l, Learnings))
           x == HeldByAttempts(rs, A)
           y == HeldByAttempts(rs, B)
           z == HeldByAttempts(rs, C)
<1>1. /\ In(l, Practices \cup Quizzes) = AB \cup C /\ A \cap B = {} /\ AB \cap C = {}
      /\ A \subseteq Attempted /\ B \subseteq Attempted /\ C \subseteq Attempted /\ AB \subseteq Attempted
  BY QuizzesSplit
<1>2. w \in Nat BY LearningHolds, FewActivities
<1> HIDE DEF A, B, C, w
<1>3. x \in Nat /\ y \in Nat /\ z \in Nat BY <1>1, AttemptsHold
<1>4. HeldByAttempts(rs, AB) = x + y BY <1>1, HeldByBoth
<1> HIDE DEF AB
<1>5. HeldByAttempts(rs, AB \cup C) = HeldByAttempts(rs, AB) + z BY <1>1, HeldByBoth
<1>6. Held(rs, ln, l) = w + HeldByAttempts(rs, AB \cup C) BY <1>1 DEF Held, w
<1> HIDE DEF x, y, z
<1>7. Held(rs, ln, l) = w + ((x + y) + z) BY <1>4, <1>5, <1>6
<1>8. w + ((x + y) + z) = w + x + y + z BY <1>2, <1>3
<1>9. QED BY <1>2, <1>3, <1>7, <1>8 DEF w, x, y, z, A, B, C

(* While a counted pass is the newest attempt, the other quizzes hold what their counted passes hold. *)
LEMMA PassesAreHeld ==
    ASSUME Base, Lined, NEW l \in Lessons
    PROVE  HeldByAttempts(rows, OtherQuizzes(l)) = PassesHold(l)
<1> DEFINE f == [a \in Attempted |-> Worth(rows[a])]
           g == [q \in Quizzes |-> IF ispass(q) THEN Oldest(Passes(q)).points ELSE 0]
           C == OtherQuizzes(l)
           D == In(l, Quizzes) \ C
<1>1. C \subseteq In(l, Quizzes) /\ In(l, Quizzes) \subseteq Quizzes /\ Quizzes \subseteq Attempted BY QuizzesSplit, FewActivities
<1>2. RowsTyped(rows) BY BaseTypes
<1>3. HeldByAttempts(rows, C) = SumFunctionOnSet(f, C) BY DEF HeldByAttempts, Worth
<1>4. PassesHold(l) = SumFunctionOnSet(g, In(l, Quizzes)) BY DEF PassesHold
<1>5. ASSUME NEW q \in C PROVE g[q] = f[q] /\ f[q] \in Int
  <2>1. q \in Quizzes /\ q \in Attempted BY <1>1
  <2>2. Worth(rows[q]) \in Nat BY <1>2, <2>1, AttemptsHold, FewActivities
  <2>3. CASE ispass(q)
    <3>1. Oldest(Passes(q)) = Newest(rows[q]) /\ rows[q] # {} BY <2>1, <2>3, OnePass DEF Lined
    <3>2. Worth(rows[q]) = Oldest(Passes(q)).points BY <3>1 DEF Worth
    <3>3. QED BY <2>1, <2>2, <2>3, <3>2
  <2>4. CASE ~ispass(q)
    <3>1. rows[q] = {} BY <1>5, <2>4 DEF OtherQuizzes, OnlyUncounted, NoPass
    <3>2. Worth(rows[q]) = 0 BY <3>1 DEF Worth
    <3>3. QED BY <2>1, <2>2, <2>4, <3>2
  <2>5. QED BY <2>3, <2>4
<1>6. ASSUME NEW q \in D PROVE g[q] = 0
  <2>1. q \in Quizzes /\ (OnlyUncounted(q) \/ NoPass(q)) BY <1>1, <1>6 DEF OtherQuizzes
  <2>2. ~ispass(q) BY <2>1 DEF OnlyUncounted, NoPass, ispass, Passes
  <2>3. QED BY <2>1, <2>2
<1>7. IsFiniteSet(C) /\ IsFiniteSet(D)
  <2>1. C \subseteq Activities /\ D \subseteq Activities BY <1>1, FewActivities
  <2> HIDE DEF C, D
  <2>2. QED BY <2>1, FewActivities
<1>8. In(l, Quizzes) = C \cup D /\ C \cap D = {} BY <1>1
<1> HIDE DEF f, g, C, D
<1>9. \A q \in C \cup D : g[q] \in Int BY <1>5, <1>6
<1>10. SumFunctionOnSet(g, C \cup D) = SumFunctionOnSet(g, C) + SumFunctionOnSet(g, D) BY <1>7, <1>8, <1>9, SumUnion
<1>11. SumFunctionOnSet(g, D) = 0 BY <1>6, <1>7, SumZero
<1>12. SumFunctionOnSet(g, C) = SumFunctionOnSet(f, C) BY <1>5, <1>7, SumSame
<1>13. SumFunctionOnSet(g, C) \in Int BY <1>7, <1>9, SumTyped
<1>14. SumFunctionOnSet(g, C) + 0 = SumFunctionOnSet(g, C) BY <1>13
<1>15. QED BY <1>3, <1>4, <1>8, <1>10, <1>11, <1>12, <1>14 DEF C

(* So a lesson holds what the recalculation takes back, and the rest. *)
LEMMA HeldIsRest ==
    ASSUME Base, Lined, NEW l \in Lessons
    PROVE  Held(rows, learnt, l) = Rest(l) + Amount(l) /\ Rest(l) \in Nat /\ Amount(l) \in Nat
<1>1. RowsTyped(rows) /\ LearntTyped(learnt) BY BaseTypes
<1> DEFINE w == HeldByLearning(learnt, In(l, Learnings))
           x == HeldByAttempts(rows, LeftAlone(l))
           y == HeldByAttempts(rows, WithoutPass(l))
           z == HeldByAttempts(rows, OtherQuizzes(l))
<1>2. Held(rows, learnt, l) = w + x + y + z /\ w \in Nat /\ x \in Nat /\ y \in Nat /\ z \in Nat BY <1>1, HeldInParts
<1>3. Amount(l) = y BY DEF Amount, WithoutPass
<1>4. Rest(l) = w + x + PassesHold(l) BY DEF Rest, LeftAlone
<1>5. z = PassesHold(l) BY PassesAreHeld
<1> HIDE DEF w, x, y, z
<1>6. QED BY <1>2, <1>3, <1>4, <1>5

(* What the recalculation leaves the rows worth. *)
LEMMA RecalculateWorth ==
    ASSUME Base, Lined, Recalculate, NEW a \in Attempted
    PROVE  Worth(rows'[a]) = IF a \in Quizzes /\ NoPass(a) THEN 0 ELSE Worth(rows[a])
<1> DEFINE rs == rows[a]
           us == rows'[a]
<1>1. /\ \A b \in Attempted \ Quizzes : rows'[b] = rows[b]
      /\ \A q \in Quizzes : rows'[q] = IF OnlyUncounted(q) THEN rows[q] ELSE {ZeroedRow(r) : r \in rows[q]}
  BY RecalculateIs
<1>2. rs \subseteq Attempt /\ Distinct(rs) BY BaseTypes DEF RowsTyped
<1>3. CASE a \notin Quizzes \/ OnlyUncounted(a)
  <2>1. us = rs BY <1>1, <1>3
  <2>2. ~(a \in Quizzes /\ NoPass(a)) BY <1>3 DEF OnlyUncounted, NoPass
  <2>3. QED BY <2>1, <2>2
<1>4. CASE a \in Quizzes /\ ~OnlyUncounted(a)
  <2>1. us = {ZeroedRow(r) : r \in rs} BY <1>1, <1>4
  <2> HIDE DEF us
  <2>2. us \subseteq Attempt /\ Distinct(us) /\ (us = {} <=> rs = {}) BY <1>2, <2>1, RowsZeroed
  <2>3. CASE rs = {}
    <3>1. ~NoPass(a) /\ us = {} BY <2>2, <2>3 DEF NoPass
    <3>2. QED BY <2>3, <3>1 DEF us
  <2>4. CASE NoPass(a)
    <3>1. us # {} /\ \A r \in rs : ~r.ispass BY <2>2, <2>4 DEF NoPass
    <3>2. Newest(us) \in us BY <2>2, <3>1, NewestIs
    <3>3. PICK r \in rs : Newest(us) = ZeroedRow(r) BY <2>1, <3>2
    <3>4. Newest(us).points = 0 BY <1>2, <3>1, <3>3, ZeroedRowIs
    <3>5. Worth(us) = 0 BY <3>1, <3>4 DEF Worth
    <3>6. QED BY <1>4, <2>4, <3>5 DEF us
  <2>5. CASE rs # {} /\ ~NoPass(a)
    <3> DEFINE n == Newest(rs)
    <3>1. ispass(a) BY <1>4, <2>5 DEF OnlyUncounted, NoPass
    <3>2. n \in rs /\ n \in Passes(a) BY <3>1, OnePass DEF Lined
    <3>3. n.ispass /\ n \in Attempt BY <1>2, <3>2 DEF Passes
    <3>4. ZeroedRow(n) = n BY <3>3 DEF ZeroedRow
    <3>5. n \in us BY <2>1, <3>2, <3>4
    <3>6. \A s \in rs : s.start <= n.start BY <1>2, <2>5, NewestIs
    <3>7. ASSUME NEW s \in us PROVE s.start <= n.start
      <4>1. PICK r \in rs : s = ZeroedRow(r) BY <2>1, <3>7
      <4>2. s.start = r.start BY <1>2, <4>1, ZeroedRowIs
      <4>3. QED BY <3>6, <4>1, <4>2
    <3> HIDE DEF n, rs
    <3>8. Newest(us) = n /\ us # {} BY <2>2, <3>5, <3>7, NewestIs
    <3>9. Worth(us) = Worth(rs) BY <2>5, <3>8 DEF Worth, n
    <3>10. QED BY <2>5, <3>9 DEF us, rs
  <2>6. QED BY <2>3, <2>4, <2>5
<1>5. QED BY <1>3, <1>4

(* It takes from what a lesson holds what it takes back, and leaves the level quizzes. *)
LEMMA RecalculateHeld ==
    ASSUME Base, Lined, Recalculate
    PROVE  /\ \A l \in Lessons : Held(rows', learnt, l) = Rest(l) /\ Held(rows', learnt, l) = Held(rows, learnt, l) - Amount(l)
           /\ \A v \in Levels : HeldByAttempts(rows', {v}) = HeldByAttempts(rows, {v})
<1> DEFINE us == rows'
<1>1. RowsTyped(rows) /\ LearntTyped(learnt) /\ RowsTyped(us) BY BaseTypes, RecalculateIs
<1>2. \A a \in Attempted : Worth(us[a]) = IF a \in Quizzes /\ NoPass(a) THEN 0 ELSE Worth(rows[a]) BY RecalculateWorth
<1> HIDE DEF us
<1>3. ASSUME NEW l \in Lessons PROVE Held(us, learnt, l) = Rest(l) /\ Held(us, learnt, l) = Held(rows, learnt, l) - Amount(l)
  <2> DEFINE A == LeftAlone(l)
             B == WithoutPass(l)
             C == OtherQuizzes(l)
             w == HeldByLearning(learnt, In(l, Learnings))
             x == HeldByAttempts(rows, A)
             y == HeldByAttempts(rows, B)
             z == HeldByAttempts(rows, C)
             ux == HeldByAttempts(us, A)
             uy == HeldByAttempts(us, B)
             uz == HeldByAttempts(us, C)
  <2>1. Held(rows, learnt, l) = w + x + y + z /\ w \in Nat /\ x \in Nat /\ y \in Nat /\ z \in Nat BY <1>1, HeldInParts
  <2>2. Held(us, learnt, l) = w + ux + uy + uz BY <1>1, HeldInParts
  <2>3. A \subseteq Attempted /\ B \subseteq Attempted /\ C \subseteq Attempted BY QuizzesSplit
  <2>4. \A a \in A : ~(a \in Quizzes /\ NoPass(a))
    <3>1. \A q : ~(OnlyUncounted(q) /\ NoPass(q)) BY DEF OnlyUncounted, NoPass
    <3>2. \A a \in In(l, Practices) : a \notin Quizzes BY FewActivities, ProgressAssumption
    <3>3. QED BY <3>1, <3>2 DEF LeftAlone
  <2>5. \A a \in B : a \in Quizzes /\ NoPass(a) BY QuizzesSplit DEF WithoutPass
  <2>6. \A a \in C : ~NoPass(a) BY DEF OtherQuizzes
  <2>7. Amount(l) = y BY DEF Amount, WithoutPass
  <2>a. Held(rows, learnt, l) = Rest(l) + Amount(l) /\ Rest(l) \in Nat BY HeldIsRest
  <2> HIDE DEF A, B, C
  <2>8. (\A a \in A : Worth(us[a]) = Worth(rows[a])) /\ (\A a \in B : Worth(us[a]) = 0) /\ (\A a \in C : Worth(us[a]) = Worth(rows[a]))
    BY <1>2, <2>3, <2>4, <2>5, <2>6
  <2>9. ux = x /\ uy = 0 /\ uz = z BY <1>1, <2>3, <2>8, HeldSame
  <2> HIDE DEF w, x, y, z, ux, uy, uz
  <2>10. Held(us, learnt, l) = w + x + 0 + z BY <2>2, <2>9
  <2>11. QED BY <2>1, <2>7, <2>10, <2>a
<1>4. ASSUME NEW v \in Levels PROVE HeldByAttempts(us, {v}) = HeldByAttempts(rows, {v})
  <2>1. {v} \subseteq Attempted /\ v \notin Quizzes BY FewActivities, ProgressAssumption
  <2>2. \A a \in {v} : Worth(us[a]) = Worth(rows[a]) BY <1>2, <2>1
  <2>3. QED BY <1>1, <2>1, <2>2, HeldSame
<1>5. QED BY <1>3, <1>4 DEF us

(* While the ledgers agree every lesson is reduced by what its quizzes without a pass hold. *)
LEMMA ReductionIsAmount ==
    ASSUME Base, Lined, Books(totals, rows, learnt), NEW l \in Lessons
    PROVE  Reduction(l) = Amount(l) /\ ReducedLesson(l).points = totals.lesson[l].points - Amount(l)
<1> DEFINE p == totals.lesson[l].points
           r == Rest(l)
           m == Amount(l)
<1>1. p = r + m /\ r \in Nat /\ m \in Nat
  <2> DEFINE pl == [k \in Lessons |-> totals.lesson[k].points]
             hl == [k \in Lessons |-> Held(rows, learnt, k)]
  <2>1. pl[l] = hl[l] BY DEF Books, Even
  <2>2. QED BY <2>1, HeldIsRest
<1>2. totals.lesson[l] = NoRow => p = 0 BY RowFacts
<1>3. Reduction(l) = IF totals.lesson[l] = NoRow THEN m ELSE Min({m, p - Min({p, r})}) BY DEF Reduction
<1>4. \E u : u = ReducedLesson(l) OBVIOUS
<1>5. ReducedLesson(l).points = IF totals.lesson[l] = NoRow \/ m = 0 THEN p ELSE p - Reduction(l) BY <1>4, ReducedLessonIs
<1> HIDE DEF p, r, m
<1>6. Min({p, r}) = r BY <1>1, MinIs
<1>7. p - r = m BY <1>1
<1>8. Min({m, m}) = m BY <1>1, MinIs
<1>9. Reduction(l) = m BY <1>3, <1>6, <1>7, <1>8
<1>10. totals.lesson[l] = NoRow => m = 0 BY <1>1, <1>2
<1>11. m = 0 => p = p - m BY <1>1
<1>12. ReducedLesson(l).points = p - m BY <1>5, <1>9, <1>10, <1>11
<1>13. QED BY <1>9, <1>12 DEF p, m

(* A row that holds enough loses what it is to lose. *)
LEMMA ReducedBy ==
    ASSUME NEW row \in Row, NEW n \in Nat, n <= row.points, NEW total
    PROVE  Reduced(row, n, total).points = row.points - n
<1> DEFINE p == row.points
           u == Reduced(row, n, total)
<1>1. u.points = IF row = NoRow \/ n = 0 THEN p ELSE Positive(p - n)
  <2>1. \E x : x = u OBVIOUS
  <2>2. QED BY <2>1, ReducedIs
<1>2. p \in Int /\ n <= p /\ (row = NoRow => p = 0) BY RowFacts
<1> HIDE DEF p, u
<1>3. Positive(p - n) = p - n BY <1>2 DEF Positive
<1>4. row = NoRow => n = 0 BY <1>2
<1>5. n = 0 => p = p - n BY <1>2
<1>6. u.points = p - n BY <1>1, <1>3, <1>4, <1>5
<1>7. QED BY <1>6 DEF u, p

(* The recalculation keeps the ledgers in agreement. *)
LEMMA RecalculateBooks ==
    ASSUME Base, Lined, Recalculate, Books(totals, rows, learnt)
    PROVE  Books(totals', rows', learnt')
<1> DEFINE pl == [l \in Lessons |-> totals.lesson[l].points]
           pv == [v \in Levels |-> totals.level[v].points]
           pg == totals.grade.points
           hl == [l \in Lessons |-> Held(rows, learnt, l)]
           hv == [v \in Levels |-> HeldByAttempts(rows, {v})]
           am == [l \in Lessons |-> Amount(l)]
           u == totals'
           us == rows'
           ql == [l \in Lessons |-> u.lesson[l].points]
           qv == [v \in Levels |-> u.level[v].points]
           qg == u.grade.points
           kl == [l \in Lessons |-> Held(us, learnt, l)]
           kv == [v \in Levels |-> HeldByAttempts(us, {v})]
<1>1. Even(pl, pv, pg, hl, hv) BY DEF Books
<1>2. RowsTyped(rows) /\ LearntTyped(learnt) /\ totals \in Totals BY BaseTypes
<1>3. \A l \in Lessons : hl[l] \in Nat /\ am[l] \in Nat /\ am[l] <= hl[l]
  <2>1. ASSUME NEW l \in Lessons PROVE Held(rows, learnt, l) \in Nat /\ Amount(l) \in Nat /\ Amount(l) <= Held(rows, learnt, l)
    <3> DEFINE h == Held(rows, learnt, l)
               m == Amount(l)
               r == Rest(l)
    <3>1. h = r + m /\ r \in Nat /\ m \in Nat BY HeldIsRest
    <3> HIDE DEF h, m, r
    <3>2. h \in Nat /\ m <= h BY <3>1
    <3>3. QED BY <3>1, <3>2 DEF h, m
  <2>2. QED BY <2>1
<1>4. \A v \in Levels : hv[v] \in Nat
  <2>1. \A v \in Levels : {v} \subseteq Attempted BY FewActivities
  <2>2. \A v \in Levels : HeldByAttempts(rows, {v}) \in Nat BY <1>2, <2>1, AttemptsHold
  <2>3. QED BY <2>2
<1>5. \A ls : ls \subseteq Lessons => Lost(ls) = SumFunctionOnSet(am, ls)
  <2> DEFINE f == [l \in Lessons |-> Reduction(l)]
  <2>1. f = am BY ReductionIsAmount
  <2>2. QED BY <2>1 DEF Lost
<1>6. /\ \A l \in Lessons : u.lesson[l] = ReducedLesson(l)
      /\ \A v \in Levels : u.level[v] = Reduced(totals.level[v], SumFunctionOnSet(am, LessonsOf(v)), LevelPoints[v])
      /\ u.grade = Reduced(totals.grade, SumFunctionOnSet(am, Lessons), GradePoints)
  <2>1. \A v \in Levels : Lost(LessonsOf(v)) = SumFunctionOnSet(am, LessonsOf(v)) BY <1>5, FewOfEach
  <2>2. Lost(Lessons) = SumFunctionOnSet(am, Lessons) BY <1>5
  <2>3. QED BY <2>1, <2>2, RecalculateIs
<1>7. /\ \A l \in Lessons : Held(us, learnt, l) = Held(rows, learnt, l) - Amount(l)
      /\ \A v \in Levels : HeldByAttempts(us, {v}) = HeldByAttempts(rows, {v})
  BY RecalculateHeld
<1>8. \A l \in Lessons : ql[l] = pl[l] - am[l] /\ kl[l] = hl[l] - am[l] BY <1>6, <1>7, ReductionIsAmount
<1>9. \A v \in Levels : kv[v] = hv[v] BY <1>7
<1>10. \A v \in Levels : pv[v] = totals.level[v].points /\ qv[v] = u.level[v].points /\ totals.level[v] \in Row
  BY <1>2, TotalsTyped
<1>11. totals.grade \in Row BY <1>2 DEF Totals
<1>12. Even(ql, qv, qg, kl, kv) => Books(u, us, learnt) BY DEF Books
<1>13. learnt' = learnt BY DEF Recalculate
<1> HIDE DEF pl, pv, hl, hv, am, ql, qv, kl, kv
<1>14. LossFits(am, pv, pg)
  <2> HIDE DEF pg
  <2>1. QED BY <1>1, <1>3, <1>4, LossesFit
<1>15. \A v \in Levels : qv[v] = pv[v] - SumFunctionOnSet(am, LessonsOf(v))
  <2>1. ASSUME NEW v \in Levels PROVE qv[v] = pv[v] - SumFunctionOnSet(am, LessonsOf(v))
    <3> DEFINE n == SumFunctionOnSet(am, LessonsOf(v))
               row == totals.level[v]
               total == LevelPoints[v]
    <3>1. n \in Nat /\ n <= row.points /\ row \in Row BY <1>10, <1>14 DEF LossFits
    <3>2. u.level[v] = Reduced(row, n, total) BY <1>6
    <3>3. pv[v] = row.points /\ qv[v] = u.level[v].points BY <1>10
    <3> HIDE DEF n, row, total, u
    <3>4. Reduced(row, n, total).points = row.points - n BY <3>1, ReducedBy
    <3>5. qv[v] = pv[v] - n BY <3>2, <3>3, <3>4
    <3>6. QED BY <3>5 DEF n
  <2>2. QED BY <2>1
<1>16. qg = pg - SumFunctionOnSet(am, Lessons)
  <2> DEFINE n == SumFunctionOnSet(am, Lessons)
             row == totals.grade
  <2>1. n \in Nat /\ n <= row.points /\ row \in Row BY <1>11, <1>14 DEF LossFits
  <2>2. u.grade = Reduced(row, n, GradePoints) BY <1>6
  <2> HIDE DEF n, row, u
  <2>3. Reduced(row, n, GradePoints).points = row.points - n BY <2>1, ReducedBy
  <2>4. u.grade.points = row.points - n BY <2>2, <2>3
  <2>5. QED BY <2>4 DEF n, row
<1> HIDE DEF u, us
<1>17. Even(ql, qv, qg, kl, kv)
  <2> HIDE DEF pg, qg
  <2>1. QED BY <1>1, <1>3, <1>4, <1>8, <1>9, <1>15, <1>16, LessonsLose
<1>18. Books(u, us, learnt) BY <1>12, <1>17
<1>19. QED BY <1>13, <1>18 DEF u, us

-----------------------------------------------------------------------------
(* The ledgers agree after every step, as long as attempts come in order and the content fits its lessons. *)

(* The inductive invariant of the points. *)
LedgersIInv == Base /\ Lined /\ LedgersAgree

(* The property in these words after a step. *)
LEMMA BooksAfter == LedgersAgree' <=> Books(totals', rows', learnt')
<1> DEFINE u == totals'
           us == rows'
           un == learnt'
           pl == [l \in Lessons |-> u.lesson[l].points]
           pv == [v \in Levels |-> u.level[v].points]
           hl == [l \in Lessons |-> Held(us, un, l)]
           hv == [v \in Levels |-> HeldByAttempts(us, {v})]
<1>1. [l \in Lessons |-> PointsOf(u.lesson[l])] = pl /\ [v \in Levels |-> PointsOf(u.level[v])] = pv
  BY DEF PointsOf
<1>2. Books(u, us, un) <=> Even(pl, pv, u.grade.points, hl, hv) BY DEF Books
<1>3. LedgersAgree' <=> /\ \A l \in Lessons : u.lesson[l].points = Held(us, un, l)
                        /\ \A v \in Levels : u.level[v].points = SumFunctionOnSet(pl, LessonsOf(v)) + HeldByAttempts(us, {v})
                        /\ u.grade.points = SumFunctionOnSet(pv, Levels)
  BY <1>1 DEF LedgersAgree, PointsOf, LevelQuizHeld
<1>4. /\ \A l \in Lessons : pl[l] = u.lesson[l].points /\ hl[l] = Held(us, un, l)
      /\ \A v \in Levels : pv[v] = u.level[v].points /\ hv[v] = HeldByAttempts(us, {v})
  OBVIOUS
<1> HIDE DEF pl, pv, hl, hv
<1>5. QED BY <1>2, <1>3, <1>4 DEF Even

(* The ledgers agree on no rows at all. *)
LEMMA InitLedgers == Init => LedgersIInv
<1> SUFFICES ASSUME Init PROVE LedgersIInv
  OBVIOUS
<1>1. Base BY InitBase
<1>2. /\ \A l \in Lessons : totals.lesson[l] = NoRow
      /\ \A v \in Levels : totals.level[v] = NoRow
      /\ totals.grade = NoRow
      /\ \A a \in Attempted : rows[a] = {}
      /\ \A a \in Learnings : learnt[a] = NotSeen
  BY DEF Init
<1>3. Lined BY <1>2 DEF Lined, LinedAt
<1>4. RowsTyped(rows) /\ LearntTyped(learnt) BY <1>1, BaseTypes
<1>5. NoRow.points = 0 BY RowFacts
<1>6. ASSUME NEW as, as \subseteq Attempted PROVE HeldByAttempts(rows, as) = 0
  <2>1. \A a \in as : Worth(rows[a]) = 0 BY <1>2, <1>6 DEF Worth
  <2>2. QED BY <1>4, <1>6, <2>1, HeldSame
<1>7. ASSUME NEW l \in Lessons PROVE Held(rows, learnt, l) = 0
  <2> DEFINE f == [a \in Learnings |-> IF learnt[a].viewed > 0 THEN learnt[a].points ELSE 0]
             R == In(l, Learnings)
  <2>1. R \subseteq Learnings /\ IsFiniteSet(R) BY FewActivities
  <2>2. \A a \in R : f[a] = 0 BY <1>2, <2>1 DEF NotSeen
  <2>3. HeldByLearning(learnt, R) = SumFunctionOnSet(f, R) BY DEF HeldByLearning
  <2> HIDE DEF f, R
  <2>4. HeldByLearning(learnt, R) = 0 BY <2>1, <2>2, <2>3, SumZero
  <2>5. In(l, Practices \cup Quizzes) \subseteq Attempted BY FewActivities
  <2>6. HeldByAttempts(rows, In(l, Practices \cup Quizzes)) = 0 BY <1>6, <2>5
  <2>7. Held(rows, learnt, l) = 0 + 0 BY <2>4, <2>6 DEF Held, R
  <2>8. QED BY <2>7
<1> DEFINE pl == [l \in Lessons |-> totals.lesson[l].points]
           pv == [v \in Levels |-> totals.level[v].points]
           hl == [l \in Lessons |-> Held(rows, learnt, l)]
           hv == [v \in Levels |-> HeldByAttempts(rows, {v})]
<1>8. /\ \A l \in Lessons : pl[l] = 0 /\ hl[l] = 0
      /\ \A v \in Levels : pv[v] = 0 /\ hv[v] = 0
      /\ totals.grade.points = 0
  <2>1. \A v \in Levels : {v} \subseteq Attempted BY FewActivities
  <2>2. \A v \in Levels : HeldByAttempts(rows, {v}) = 0 BY <1>6, <2>1
  <2>3. QED BY <1>2, <1>5, <1>7, <2>2
<1>9. Even(pl, pv, totals.grade.points, hl, hv) => LedgersAgree BY BooksAreLedgers DEF Books
<1> HIDE DEF pl, pv, hl, hv
<1>10. \A v \in Levels : SumFunctionOnSet(pl, LessonsOf(v)) = 0
  <2>1. ASSUME NEW v \in Levels PROVE SumFunctionOnSet(pl, LessonsOf(v)) = 0
    <3>1. IsFiniteSet(LessonsOf(v)) /\ \A l \in LessonsOf(v) : pl[l] = 0 BY <1>8, FewOfEach
    <3>2. QED BY <3>1, SumZero
  <2>2. QED BY <2>1
<1>11. SumFunctionOnSet(pv, Levels) = 0 BY <1>8, FewOfEach, SumZero
<1>12. 0 = 0 + 0 OBVIOUS
<1>13. Even(pl, pv, totals.grade.points, hl, hv) BY <1>8, <1>10, <1>11, <1>12 DEF Even
<1>14. QED BY <1>1, <1>3, <1>9, <1>13 DEF LedgersIInv

(* They agree after every step. *)
LEMMA NextLedgers ==
    ASSUME InOrder, \A l \in Lessons : Slack(l), LedgersIInv, [RecalcNext]_vars
    PROVE  LedgersIInv'
<1>1. Base /\ Base' /\ Lined /\ Books(totals, rows, learnt) BY NextBase, BooksAreLedgers DEF LedgersIInv
<1>2. Lined' BY <1>1, NextLined
<1>3. Books(totals', rows', learnt')
  <2>1. ASSUME NEW a \in Attempted, PassedAgain(a) PROVE Books(totals', rows', learnt')
    BY <1>1, <2>1, PassedAgainBooks
  <2>2. ASSUME NEW a \in Attempted, NEW start \in 1..MaxStart[a], NEW pct \in Percentages, NEW ver \in MayBeVerified(a),
               Submit(a, start, pct, ver)
        PROVE  Books(totals', rows', learnt')
    <3>1. start \in Nat \ {0}
      <4>1. MaxStart[a] \in Nat BY ProgressAssumption
      <4>2. QED BY <4>1
    <3>2. ver \in BOOLEAN BY DEF MayBeVerified
    <3>3. QED BY <1>1, <2>2, <3>1, <3>2, SubmitBooks
  <2>3. ASSUME NEW a \in Learnings, NEW ended \in BOOLEAN, updatelearningprogress(a, ended)
        PROVE  Books(totals', rows', learnt')
    BY <1>1, <2>3, LearningBooks
  <2>4. CASE (\E a \in Activities : ImportContent(a)) \/ SwitchRule \/ SwitchRequire
    <3>1. totals' = totals /\ rows' = rows /\ learnt' = learnt BY <1>1, <2>4, EditBase
    <3>2. QED BY <1>1, <3>1
  <2>5. CASE Recalculate BY <1>1, <2>5, RecalculateBooks
  <2>6. CASE UNCHANGED vars
    <3>1. totals' = totals /\ rows' = rows /\ learnt' = learnt BY <2>6 DEF vars
    <3>2. QED BY <1>1, <3>1
  <2>7. QED BY <2>1, <2>2, <2>3, <2>4, <2>5, <2>6 DEF RecalcNext, Next
<1>4. QED BY <1>1, <1>2, <1>3, BooksAfter DEF LedgersIInv

(***************************************************************************)
(* For attempts that arrive in the order they were started in, an operator *)
(* who does not switch the grading requirement off again, and content whose*)
(* activities never add up to more than their lesson's total, the running  *)
(* totals that the handlers move by differences are always the sum of what *)
(* the attempt and learning rows hold, whatever is re-weighted, replayed,  *)
(* switched or recalculated in between.                                    *)
(***************************************************************************)
THEOREM LedgersAlwaysAgree ==
    ASSUME InOrder, \A l \in Lessons : Slack(l)
    PROVE  RecalcSpec => []LedgersAgree
<1>1. Init => LedgersIInv BY InitLedgers
<1>2. LedgersIInv /\ [RecalcNext]_vars => LedgersIInv' BY NextLedgers
<1>3. LedgersIInv => LedgersAgree BY DEF LedgersIInv
<1>4. QED BY <1>1, <1>2, <1>3, PTL DEF RecalcSpec

-----------------------------------------------------------------------------
(* What a recalculation leaves behind. *)

(* Zeroing a row twice is zeroing it once. *)
LEMMA ZeroedTwice ==
    ASSUME NEW r \in Attempt
    PROVE  ZeroedRow(ZeroedRow(r)) = ZeroedRow(r)
<1> DEFINE u == ZeroedRow(r)
<1>1. u \in Attempt /\ (u.ispass <=> r.ispass) BY ZeroedRowIs
<1>2. CASE r.ispass
  <2>1. u = r BY <1>2 DEF ZeroedRow
  <2>2. QED BY <2>1
<1>3. CASE ~r.ispass
  <2>1. u = Repointed(r, 0) BY <1>3 DEF ZeroedRow
  <2>2. u.points = 0 BY <1>3, ZeroedRowIs
  <2>3. ZeroedRow(u) = Repointed(u, 0) BY <1>1, <1>3 DEF ZeroedRow
  <2>4. Repointed(u, 0) = u
    <3> HIDE DEF u
    <3>1. QED BY <1>1, <2>2 DEF Repointed, Attempt
  <2>5. QED BY <2>3, <2>4
<1>4. QED BY <1>2, <1>3

(* A second run finds nothing to zero, ... *)
LEMMA SecondRunZeroes ==
    ASSUME Base, Recalculate, NEW q \in Quizzes
    PROVE  Zeroed(q)' = rows'[q]
<1> DEFINE us == rows'[q]
<1>1. Zeroed(q)' = IF OnlyUncounted(q)' THEN us ELSE {ZeroedRow(r) : r \in us} BY DEF Zeroed, ZeroedRow, Repointed
<1>2. CASE OnlyUncounted(q)
  <2>1. us = rows[q] /\ require' = require BY <1>2, RecalculateIs DEF Recalculate
  <2>2. OnlyUncounted(q)' BY <1>2, <2>1 DEF OnlyUncounted, ispass, Passes, countedpassclause
  <2>3. QED BY <1>1, <2>2
<1>3. CASE ~OnlyUncounted(q)
  <2>1. us = {ZeroedRow(r) : r \in rows[q]} BY <1>3, RecalculateIs
  <2>2. rows[q] \subseteq Attempt BY BaseTypes, FewActivities DEF RowsTyped
  <2> HIDE DEF us
  <2>3. \A u \in us : ZeroedRow(u) = u BY <2>1, <2>2, ZeroedTwice
  <2>4. {ZeroedRow(r) : r \in us} = us BY <2>3
  <2>5. QED BY <1>1, <2>4 DEF us
<1>4. QED BY <1>2, <1>3

(* ... and nothing to take back. *)
LEMMA SecondRunTakes ==
    ASSUME Base, Recalculate, NEW l \in Lessons
    PROVE  Amount(l)' = 0
<1> DEFINE us == rows'
           B == {q \in In(l, Quizzes) : NoPass(q)'}
<1>1. RowsTyped(us) /\ RowsTyped(rows) BY BaseTypes, RecalculateIs
<1>2. B \subseteq Quizzes /\ Quizzes \subseteq Attempted /\ B \subseteq Attempted BY FewActivities DEF In
<1>3. ASSUME NEW q \in B PROVE Worth(us[q]) = 0
  <2>1. us[q] # {} /\ \A r \in us[q] : ~r.ispass BY <1>3 DEF NoPass
  <2>2. ~OnlyUncounted(q) /\ us[q] = {ZeroedRow(r) : r \in rows[q]}
    <3>1. us[q] = IF OnlyUncounted(q) THEN rows[q] ELSE {ZeroedRow(r) : r \in rows[q]} BY <1>2, RecalculateIs
    <3>2. OnlyUncounted(q) => \E r \in rows[q] : r.ispass BY DEF OnlyUncounted
    <3>3. QED BY <2>1, <3>1, <3>2
  <2>3. us[q] \subseteq Attempt /\ Distinct(us[q]) /\ rows[q] \subseteq Attempt BY <1>1, <1>2 DEF RowsTyped
  <2>4. Newest(us[q]) \in us[q] BY <2>1, <2>3, NewestIs
  <2>5. PICK r \in rows[q] : Newest(us[q]) = ZeroedRow(r) BY <2>2, <2>4
  <2>6. Newest(us[q]).points = 0 BY <2>1, <2>3, <2>4, <2>5, ZeroedRowIs
  <2>7. QED BY <2>1, <2>6 DEF Worth
<1>4. Amount(l)' = HeldByAttempts(us, B) BY DEF Amount, In
<1> HIDE DEF us, B
<1>5. HeldByAttempts(us, B) = 0 BY <1>1, <1>2, <1>3, HeldSame
<1>6. QED BY <1>4, <1>5

(* The lesson is left with what it deserves. *)
LEMMA RunLeavesDeserved ==
    ASSUME Base, Lined, Books(totals, rows, learnt), Recalculate, NEW l \in Lessons,
           \A q \in In(l, Quizzes) : ~OnlyUncounted(q)
    PROVE  totals'.lesson[l].points = Deserved(l)
<1>1. totals'.lesson[l].points = totals.lesson[l].points - Amount(l)
  <2>1. totals'.lesson[l] = ReducedLesson(l) BY RecalculateIs
  <2>2. QED BY <2>1, ReductionIsAmount
<1>2. totals.lesson[l].points = Rest(l) + Amount(l) /\ Rest(l) \in Nat /\ Amount(l) \in Nat
  <2> DEFINE pl == [k \in Lessons |-> totals.lesson[k].points]
             hl == [k \in Lessons |-> Held(rows, learnt, k)]
  <2>1. pl[l] = hl[l] BY DEF Books, Even
  <2>2. QED BY <2>1, HeldIsRest
<1>3. {q \in In(l, Quizzes) : OnlyUncounted(q)} = {} OBVIOUS
<1>4. In(l, Practices) \cup {q \in In(l, Quizzes) : OnlyUncounted(q)} = In(l, Practices) BY <1>3
<1>5. Rest(l) = Deserved(l) BY <1>4 DEF Rest, Deserved
<1> DEFINE x == Rest(l)
           y == Amount(l)
           p == totals.lesson[l].points
<1>6. x \in Nat /\ y \in Nat /\ p = x + y BY <1>2
<1>7. totals'.lesson[l].points = p - y BY <1>1
<1> HIDE DEF x, y, p
<1>8. p - y = x BY <1>6
<1>9. QED BY <1>5, <1>7, <1>8 DEF x

(***************************************************************************)
(* Under the same hypotheses a recalculation leaves every lesson what its  *)
(* other activities and its counted passes deserve, unless a quiz was left *)
(* alone for a pass that does not count, and a second run changes nothing, *)
(* whatever attempts, re-weightings and switched rules came before.        *)
(***************************************************************************)
THEOREM RecalculationAlwaysSettles ==
    ASSUME InOrder, \A l \in Lessons : Slack(l)
    PROVE  RecalcSpec => RecalculationSettles
<1> DEFINE Left == \A l \in Lessons : Slack(l) /\ (\A q \in In(l, Quizzes) : ~OnlyUncounted(q)) =>
                      totals'.lesson[l].points = Deserved(l)
           Taken2 == \A l \in Lessons : Amount(l)' = 0
           Rows2 == \A q \in Quizzes : Zeroed(q)' = rows'[q]
<1>1. Init => LedgersIInv BY InitLedgers
<1>2. LedgersIInv /\ [RecalcNext]_vars => LedgersIInv' BY NextLedgers
<1>3. LedgersIInv => [Recalculate => Left /\ Taken2 /\ Rows2]_vars
  <2> SUFFICES ASSUME LedgersIInv, Recalculate PROVE Left /\ Taken2 /\ Rows2
    OBVIOUS
  <2>1. Base /\ Lined /\ Books(totals, rows, learnt) BY BooksAreLedgers DEF LedgersIInv
  <2>2. Left BY <2>1, RunLeavesDeserved
  <2>3. Taken2 BY <2>1, SecondRunTakes
  <2>4. Rows2 BY <2>1, SecondRunZeroes
  <2>5. QED BY <2>2, <2>3, <2>4
<1>4. QED BY <1>1, <1>2, <1>3, PTL DEF RecalcSpec, RecalculationSettles

-----------------------------------------------------------------------------
(* What lands on the lessons lands on their level. *)

(* Between t and u the level of v and its lessons gain the same, or nothing. *)
Accrued(t, u, v) ==
    LET onlevel   == u.level[v].points - t.level[v].points
        onlessons == SumFunctionOnSet([l \in Lessons |-> u.lesson[l].points - t.lesson[l].points], LessonsOf(v))
    IN  onlevel > 0 \/ onlessons > 0 => onlevel = onlessons

(***************************************************************************)
(* A level row gains exactly what the lesson row of a submission gains,    *)
(* capped or not; where the lesson gains nothing the level does not either.*)
(***************************************************************************)
LEMMA RowsAccrue ==
    ASSUME NEW row \in Row, NEW above \in Row, NEW d \in Int, NEW passing, NEW total \in Int, NEW n,
           NEW u, u = LessonRow(row, d, passing, total), NEW w, w = TotalRow(above, LandedPoints(row, d, total), n)
    PROVE  LET x == u.points - row.points
               y == w.points - above.points
           IN  /\ x \in Int /\ y \in Int /\ (y > 0 \/ x > 0 => y = x)
               /\ 0 <= above.points => 0 <= w.points
<1> DEFINE p == row.points
           q == above.points
           k == LandedPoints(row, d, total)
           o == Overflow(row, d, total)
<1>1. p \in Int /\ q \in Int /\ (row = NoRow => p = 0) /\ (above = NoRow => q = 0) BY RowFacts
<1>2. u.points = IF row = NoRow THEN Positive(d) ELSE AddPoints(p, d) - o BY LessonRowIs
<1>3. k \in Int /\ o \in Int BY <1>1, RewardTyped
<1>4. w.points = IF above = NoRow THEN Positive(k) ELSE AddPoints(q, k)
  <2> HIDE DEF k
  <2>1. w = TotalRow(above, k, n) BY DEF k
  <2>2. QED BY <1>3, <2>1, TotalRowIs
<1>5. k = IF o > 0 THEN Positive(d - o) ELSE d BY DEF LandedPoints
<1>6. o = IF row # NoRow /\ AddPoints(p, d) > total THEN AddPoints(p, d) - total ELSE 0 BY DEF Overflow
<1> DEFINE up == u.points
           wp == w.points
<1> HIDE DEF p, q, k, o, up, wp
<1>7. up = (IF row = NoRow THEN Positive(d) ELSE AddPoints(p, d) - o) /\ wp = (IF above = NoRow THEN Positive(k) ELSE AddPoints(q, k))
  BY <1>2, <1>4 DEF up, wp
<1>8. up \in Int /\ wp \in Int BY <1>1, <1>3, <1>7 DEF Positive, AddPoints
<1>9. wp = IF above = NoRow \/ (k < 0 /\ q + k < 0) THEN (IF above = NoRow /\ k > 0 THEN k ELSE q) ELSE q + k
  BY <1>1, <1>3, <1>7 DEF Positive, AddPoints
<1>10. wp - q = k \/ (wp = q /\ k <= 0) BY <1>1, <1>3, <1>9
<1> DEFINE Goal == /\ up - p \in Int /\ wp - q \in Int /\ (wp - q > 0 \/ up - p > 0 => wp - q = up - p)
                   /\ 0 <= q => 0 <= wp
<1>11. ASSUME row = NoRow PROVE Goal
  <2>1. o = 0 /\ k = d BY <1>5, <1>6, <1>11
  <2>2. up - p = IF d > 0 THEN d ELSE 0 BY <1>1, <1>7, <1>11 DEF Positive
  <2>3. wp - q > 0 \/ up - p > 0 => wp - q = up - p BY <1>1, <1>3, <1>8, <1>10, <2>1, <2>2
  <2>4. QED BY <1>1, <1>3, <1>8, <1>9, <2>3
<1>12. ASSUME row # NoRow PROVE Goal
  <2>1. up - p = AddPoints(p, d) - o - p BY <1>7, <1>12
  <2>2. AddPoints(p, d) = p + d \/ (d < 0 /\ AddPoints(p, d) = p) BY DEF AddPoints
  <2>3. CASE o > 0
    <3>1. o = AddPoints(p, d) - total /\ k = Positive(d - o) BY <1>5, <1>6, <2>3
    <3>2. CASE AddPoints(p, d) = p + d
      <4>1. up - p = d - o BY <1>1, <1>3, <2>1, <3>2
      <4>2. k = IF up - p > 0 THEN up - p ELSE 0 BY <3>1, <4>1 DEF Positive
      <4>3. QED BY <1>1, <1>3, <1>8, <1>9, <1>10, <4>2
    <3>3. CASE d < 0 /\ AddPoints(p, d) = p
      <4>1. up - p < 0 BY <1>1, <1>3, <2>1, <2>3, <3>3
      <4>2. k = 0 BY <1>3, <2>3, <3>1, <3>3 DEF Positive
      <4>3. QED BY <1>1, <1>3, <1>8, <1>9, <1>10, <4>1, <4>2
    <3>4. QED BY <2>2, <3>2, <3>3
  <2>4. CASE ~(o > 0)
    <3>1. k = d BY <1>5, <2>4
    <3>2. o = 0 BY <1>3, <1>6, <2>4, <1>1, <1>12 DEF AddPoints
    <3>3. (up - p = d) \/ (d < 0 /\ up - p = 0) BY <1>1, <2>1, <2>2, <3>2
    <3>4. QED BY <1>1, <1>3, <1>8, <1>9, <1>10, <3>1, <3>3
  <2>5. QED BY <2>3, <2>4
<1>13. Goal BY <1>11, <1>12
<1>14. QED BY <1>13 DEF up, wp, p, q

(* Where nothing gains there is nothing to compare. *)
LEMMA NothingGained ==
    ASSUME NEW t \in Totals, NEW u \in Totals, NEW v \in Levels,
           u.level[v].points <= t.level[v].points,
           \A l \in LessonsOf(v) : u.lesson[l].points <= t.lesson[l].points
    PROVE  Accrued(t, u, v)
<1> DEFINE f == [l \in Lessons |-> u.lesson[l].points - t.lesson[l].points]
           z == [l \in Lessons |-> 0]
           S == LessonsOf(v)
<1>1. IsFiniteSet(S) /\ S \subseteq Lessons BY FewOfEach
<1>2. \A l \in Lessons : u.lesson[l].points \in Int /\ t.lesson[l].points \in Int BY TotalsTyped
<1>3. \A l \in S : f[l] \in Int /\ z[l] \in Int /\ f[l] <= z[l]
  <2>1. ASSUME NEW l \in S PROVE f[l] \in Int /\ f[l] <= 0
    <3> DEFINE x == u.lesson[l].points
               y == t.lesson[l].points
    <3>1. x \in Int /\ y \in Int /\ x <= y /\ f[l] = x - y BY <1>1, <1>2
    <3> HIDE DEF x, y, f
    <3>2. QED BY <3>1
  <2>2. \A l \in S : z[l] = 0 BY <1>1
  <2> HIDE DEF f, z
  <2>3. QED BY <2>1, <2>2
<1>4. \A l \in S : z[l] = 0 BY <1>1
<1> HIDE DEF f, z, S
<1> DEFINE sf == SumFunctionOnSet(f, S)
<1>5. sf \in Int /\ sf <= 0
  <2>1. SumFunctionOnSet(z, S) = 0 BY <1>1, <1>4, SumZero
  <2>2. QED BY <1>1, <1>3, <2>1, SumMono, SumTyped
<1> DEFINE x == u.level[v].points
           y == t.level[v].points
<1>6. x \in Int /\ y \in Int /\ x <= y BY TotalsTyped
<1>7. Accrued(t, u, v) <=> (x - y > 0 \/ sf > 0 => x - y = sf) BY DEF Accrued, f, S
<1> HIDE DEF sf, x, y
<1>8. QED BY <1>5, <1>6, <1>7

(* A submission of an activity of a lesson. *)
LEMMA RewardAccrues ==
    ASSUME NEW t \in Totals, NEW a \in Activities, a \notin Levels, NEW new \in Nat, NEW old \in Nat \cup {NoOld},
           NEW u, u = Rewarded(t, a, new, old), NEW v \in Levels
    PROVE  Accrued(t, u, v) /\ (0 <= t.level[v].points => 0 <= u.level[v].points)
<1> DEFINE l0 == LessonOf[a]
           v0 == LevelOf[l0]
           d == Delta(new, old)
           x == LessonRow(t.lesson[l0], d, PassingPoints[l0], TotalPoints[l0])
           y == TotalRow(t.level[v0], LandedPoints(t.lesson[l0], d, TotalPoints[l0]), LevelPoints[v0])
           z == TotalRow(t.grade, LandedPoints(t.lesson[l0], d, TotalPoints[l0]), GradePoints)
<1>1. l0 \in Lessons /\ v0 \in Levels /\ TotalPoints[l0] \in Int BY Places
<1>2. u \in Totals BY RewardedIs
<1>3. u = [lesson |-> [t.lesson EXCEPT ![l0] = x], level |-> [t.level EXCEPT ![v0] = y], grade |-> z]
  BY DEF Rewarded, updateUserReward
<1>4. d \in Int
  <2>1. old \in Int BY DEF NoOld
  <2>2. QED BY <2>1, RewardTyped
<1>5. t.lesson \in [Lessons -> Row] /\ t.level \in [Levels -> Row] BY DEF Totals
<1> DEFINE row == t.lesson[l0]
           above == t.level[v0]
           tp == TotalPoints[l0]
           pp == PassingPoints[l0]
           n == LevelPoints[v0]
<1>6. /\ x.points - row.points \in Int /\ y.points - above.points \in Int
      /\ (y.points - above.points > 0 \/ x.points - row.points > 0 => y.points - above.points = x.points - row.points)
      /\ 0 <= above.points => 0 <= y.points
  <2>1. row \in Row /\ above \in Row /\ tp \in Int BY <1>1, <1>5
  <2>2. x = LessonRow(row, d, pp, tp) /\ y = TotalRow(above, LandedPoints(row, d, tp), n) OBVIOUS
  <2> HIDE DEF row, above, tp, pp, n, d, x, y
  <2>3. QED BY <1>4, <2>1, <2>2, RowsAccrue
<1> HIDE DEF l0, v0, x, y, z, d
<1>7. u.lesson = [t.lesson EXCEPT ![l0] = x] /\ u.level = [t.level EXCEPT ![v0] = y] BY <1>3
<1>8. /\ \A l \in Lessons : u.lesson[l] = IF l = l0 THEN x ELSE t.lesson[l]
      /\ \A w \in Levels : u.level[w] = IF w = v0 THEN y ELSE t.level[w]
  BY <1>5, <1>7
<1>9. /\ \A l \in Lessons : u.lesson[l].points \in Int /\ t.lesson[l].points \in Int
      /\ \A w \in Levels : u.level[w].points \in Int /\ t.level[w].points \in Int
  BY <1>2, TotalsTyped
<1>10. CASE v = v0
  <2> DEFINE f == [l \in Lessons |-> u.lesson[l].points - t.lesson[l].points]
             S == LessonsOf(v)
             R == S \ {l0}
  <2>1. IsFiniteSet(S) /\ S \subseteq Lessons /\ l0 \in S BY <1>1, <1>10, FewOfEach DEF v0
  <2>2. \A l \in S : f[l] \in Int BY <1>9, <2>1
  <2>3. \A l \in R : f[l] = 0
    <3>1. ASSUME NEW l \in R PROVE f[l] = 0
      <4> DEFINE k == t.lesson[l].points
      <4>1. l \in Lessons /\ l # l0 BY <2>1
      <4>2. k \in Int /\ f[l] = k - k BY <1>8, <1>9, <4>1
      <4> HIDE DEF k, f
      <4>3. QED BY <4>2
    <3>2. QED BY <3>1
  <2>4. f[l0] = x.points - row.points BY <1>1, <1>8
  <2>5. u.level[v].points - t.level[v].points = y.points - above.points BY <1>8, <1>10
  <2>6. Accrued(t, u, v) <=> LET b == u.level[v].points - t.level[v].points
                             IN  b > 0 \/ SumFunctionOnSet(f, S) > 0 => b = SumFunctionOnSet(f, S)
    BY DEF Accrued
  <2> HIDE DEF f, S
  <2>7. SumFunctionOnSet(f, S) = f[l0]
    <3>1. IsFiniteSet(R) BY <2>1, FS_RemoveElement
    <3>2. SumFunctionOnSet(f, S) = f[l0] + SumFunctionOnSet(f, R) BY <2>1, <2>2, SumSplit
    <3>3. SumFunctionOnSet(f, R) = 0 BY <2>3, <3>1, SumZero
    <3>4. f[l0] \in Int BY <2>1, <2>2
    <3>5. QED BY <3>2, <3>3, <3>4
  <2>8. Accrued(t, u, v) BY <1>6, <2>4, <2>5, <2>6, <2>7
  <2>9. QED BY <1>6, <1>8, <1>10, <2>8
<1>11. CASE v # v0
  <2>1. l0 \notin LessonsOf(v) BY <1>11 DEF LessonsOf, v0
  <2>2. u.level[v] = t.level[v] /\ \A l \in LessonsOf(v) : u.lesson[l] = t.lesson[l] BY <1>8, <1>11, <2>1, FewOfEach
  <2>3. u.level[v].points <= t.level[v].points /\ \A l \in LessonsOf(v) : u.lesson[l].points <= t.lesson[l].points
    <3>1. \A n1 \in Int : n1 <= n1 OBVIOUS
    <3>2. QED BY <1>9, <2>2, <3>1, FewOfEach
  <2>4. Accrued(t, u, v) BY <1>2, <2>3, NothingGained
  <2>5. QED BY <2>2, <2>4
<1>12. QED BY <1>10, <1>11

(* Stars move no points. *)
LEMMA ScoredAccrues ==
    ASSUME NEW t, NEW s, NEW u, NEW v \in Levels, Accrued(t, s, v),
           \A l \in Lessons : u.lesson[l].points = s.lesson[l].points, u.level[v].points = s.level[v].points
    PROVE  Accrued(t, u, v)
<1> DEFINE f == [l \in Lessons |-> s.lesson[l].points - t.lesson[l].points]
           e == [l \in Lessons |-> u.lesson[l].points - t.lesson[l].points]
<1>1. e = f OBVIOUS
<1>2. QED BY <1>1 DEF Accrued

(* Nothing happens to a level whose quiz is not the one submitted. *)
LEMMA OtherLevels ==
    ASSUME NEW t \in Totals, NEW a \in Levels, NEW new \in Nat, NEW old \in Nat \cup {NoOld},
           NEW u, u = Rewarded(t, a, new, old), NEW v \in Levels
    PROVE  (v # a => Accrued(t, u, v)) /\ (0 <= t.level[v].points => 0 <= u.level[v].points)
<1>1. a \in Activities BY FewActivities
<1>2. u \in Totals /\ u.lesson = t.lesson /\ \A w \in Levels : w # a => u.level[w] = t.level[w] BY <1>1, RewardedIs
<1>3. \A n \in Int : n <= n OBVIOUS
<1>4. ASSUME v # a PROVE Accrued(t, u, v)
  <2>1. u.level[v].points <= t.level[v].points /\ \A l \in LessonsOf(v) : u.lesson[l].points <= t.lesson[l].points
    BY <1>2, <1>3, <1>4, TotalsTyped, FewOfEach
  <2>2. QED BY <1>2, <2>1, NothingGained
<1>5. ASSUME v = a, 0 <= t.level[v].points PROVE 0 <= u.level[v].points
  <2> DEFINE d == Delta(new, old)
             row == t.level[v]
             y == TotalRow(row, d, LevelPoints[v])
             z == TotalRow(t.grade, d, GradePoints)
  <2>1. u = [t EXCEPT !.level[v] = y, !.grade = z] BY <1>5 DEF Rewarded, updateLevelQuizReward
  <2>2. t.level \in [Levels -> Row] /\ row \in Row BY DEF Totals
  <2>3. u.level[v] = y BY <2>1, <2>2 DEF Totals
  <2>4. d \in Int
    <3>1. old \in Int BY DEF NoOld
    <3>2. QED BY <3>1, RewardTyped
  <2> HIDE DEF d
  <2>5. y.points = IF row = NoRow THEN Positive(d) ELSE AddPoints(row.points, d) BY <2>2, <2>4, TotalRowIs
  <2> DEFINE n == row.points
  <2>6. n \in Int /\ 0 <= n BY <1>5, <2>2, RowFacts
  <2> HIDE DEF n, y
  <2>7. 0 <= Positive(d) /\ 0 <= AddPoints(n, d) BY <2>4, <2>6 DEF Positive, AddPoints
  <2>8. QED BY <2>3, <2>5, <2>7 DEF n
<1>6. QED BY <1>2, <1>4, <1>5

(* A pass of a level quiz that is submitted again, and whose row is as it was, moves nothing. *)
LEMMA PassAsItWas ==
    ASSUME Base, NEW a \in Attempted, a \notin Quizzes, LinedAt(a), PassedAgain(a), rows'[a] = rows[a]
    PROVE  totals' = totals
<1> DEFINE old == IF rule /\ a \in Quizzes THEN getpassoldpoints(a, points[a]) ELSE getoldpoints(a, points[a])
           rs == rows[a]
           p == Newest(rs)
           n == points[a]
<1>1. /\ totals' = IF old # NoOld THEN Rewarded(totals, a, n, old) ELSE totals
      /\ \E x \in Passes(a) : rows'[a] = (rs \ {x}) \cup {Repointed(x, n)}
  <2>1. \E o : o = old OBVIOUS
  <2> HIDE DEF old
  <2>2. QED BY <2>1, PassedAgainIs DEF old
<1>2. Passes(a) = {p} /\ p \in rs /\ rs # {} BY OnePass DEF PassedAgain
<1>3. rs \subseteq Attempt /\ Distinct(rs) /\ n \in Nat BY BaseTypes, FewActivities DEF RowsTyped
<1>4. old = OldPoints(rs, p, n) BY DEF getoldpoints
<1> HIDE DEF rs, p, n
<1>5. rs = (rs \ {p}) \cup {Repointed(p, n)} BY <1>1, <1>2 DEF rs
<1>6. Repointed(p, n) \notin rs \ {p} BY <1>2, <1>3, <1>5, RowRepointed
<1>7. Repointed(p, n) = p BY <1>5, <1>6
<1>8. p \in Attempt BY <1>2, <1>3
<1>9. p.points = n BY <1>3, <1>7, <1>8, RepointedIs
<1>10. old = NoOld BY <1>4, <1>9 DEF OldPoints
<1>11. QED BY <1>1, <1>10

(* No level is below 0. *)
LevelsHold == \A v \in Levels : 0 <= totals.level[v].points

(* What a step may do to points. *)
StepAccrues == \A v \in Levels : rows'[v] = rows[v] => Accrued(totals, totals', v)

(* An attempt at something passed, ... *)
LEMMA PassedAgainAccrues ==
    ASSUME Base, LevelsHold, NEW a \in Attempted, a \in Levels => LinedAt(a), PassedAgain(a)
    PROVE  StepAccrues /\ LevelsHold'
<1>1. PICK old : old = IF rule /\ a \in Quizzes THEN getpassoldpoints(a, points[a]) ELSE getoldpoints(a, points[a])
  OBVIOUS
<1>2. /\ old \in Nat \cup {NoOld} /\ points[a] \in Nat /\ totals \in Totals /\ totals' \in Totals /\ a \in Activities
      /\ totals' = IF old # NoOld THEN Rewarded(totals, a, points[a], old) ELSE totals
  BY <1>1, PassedAgainIs, BaseTypes, FewActivities
<1> DEFINE u == totals'
           n == points[a]
<1>3. u = totals \/ u = Rewarded(totals, a, n, old) BY <1>2
<1>4. n \in Nat /\ u \in Totals BY <1>2
<1>5. a \in Levels => (rows'[a] = rows[a] => u = totals)
  <2>1. ASSUME a \in Levels, rows'[a] = rows[a] PROVE totals' = totals
    <3>1. a \notin Quizzes BY <2>1, ProgressAssumption
    <3>2. QED BY <2>1, <3>1, PassAsItWas
  <2>2. QED BY <2>1
<1> HIDE DEF u, n
<1>6. \A v \in Levels : u = totals => Accrued(totals, u, v)
  <2>1. \A k \in Int : k <= k OBVIOUS
  <2>2. ASSUME NEW v \in Levels, u = totals PROVE Accrued(totals, u, v)
    <3>1. /\ u.level[v].points <= totals.level[v].points
          /\ \A l \in LessonsOf(v) : u.lesson[l].points <= totals.lesson[l].points
      BY <1>2, <2>1, <2>2, TotalsTyped, FewOfEach
    <3>2. QED BY <1>2, <1>4, <3>1, NothingGained
  <2>3. QED BY <2>2
<1>7. ASSUME NEW v \in Levels, rows'[v] = rows[v] PROVE Accrued(totals, u, v)
  <2>1. CASE u = totals BY <1>6, <2>1
  <2>2. CASE u # totals /\ a \notin Levels BY <1>2, <1>3, <1>4, <2>2, RewardAccrues
  <2>3. CASE u # totals /\ a \in Levels
    <3>1. v # a BY <1>5, <1>7, <2>3
    <3>2. QED BY <1>2, <1>3, <1>4, <2>3, <3>1, OtherLevels
  <2>4. QED BY <2>1, <2>2, <2>3
<1>8. ASSUME NEW v \in Levels PROVE 0 <= u.level[v].points
  <2>1. 0 <= totals.level[v].points BY DEF LevelsHold
  <2>2. CASE u = totals BY <2>1, <2>2
  <2>3. CASE u # totals /\ a \notin Levels BY <1>2, <1>3, <1>4, <2>1, <2>3, RewardAccrues
  <2>4. CASE u # totals /\ a \in Levels BY <1>2, <1>3, <1>4, <2>1, <2>4, OtherLevels
  <2>5. QED BY <2>2, <2>3, <2>4
<1>9. QED BY <1>7, <1>8 DEF StepAccrues, LevelsHold, u

(* A submission of stars after a reward or none. *)
LEMMA RewardAndStars ==
    ASSUME NEW t \in Totals, NEW a \in Activities, NEW new \in Nat, NEW old \in Nat \cup {NoOld}, NEW s,
           s = t \/ s = Rewarded(t, a, new, old), NEW u,
           \A l \in Lessons : u.lesson[l].points = s.lesson[l].points,
           \A v \in Levels : u.level[v].points = s.level[v].points, \A v \in Levels : 0 <= t.level[v].points
    PROVE  \A v \in Levels : (v # a => Accrued(t, u, v)) /\ 0 <= u.level[v].points
<1>1. ASSUME NEW v \in Levels PROVE (v # a => Accrued(t, s, v)) /\ 0 <= s.level[v].points
  <2>1. CASE s = t
    <3>1. \A n \in Int : n <= n OBVIOUS
    <3>2. s.level[v].points <= t.level[v].points /\ \A l \in LessonsOf(v) : s.lesson[l].points <= t.lesson[l].points
      BY <2>1, <3>1, TotalsTyped, FewOfEach
    <3>3. QED BY <2>1, <3>2, NothingGained
  <2>2. CASE s = Rewarded(t, a, new, old) /\ a \notin Levels BY <2>2, RewardAccrues
  <2>3. CASE s = Rewarded(t, a, new, old) /\ a \in Levels BY <2>3, OtherLevels
  <2>4. QED BY <2>1, <2>2, <2>3
<1>2. ASSUME NEW v \in Levels, v # a PROVE Accrued(t, u, v) BY <1>1, <1>2, ScoredAccrues
<1>3. QED BY <1>1, <1>2

(* ... an attempt at something not passed, ... *)
LEMMA SubmitAccrues ==
    ASSUME Base, LevelsHold, NEW a \in Attempted, NEW start \in Nat \ {0}, NEW pct \in Percentages, NEW ver \in BOOLEAN,
           Submit(a, start, pct, ver)
    PROVE  StepAccrues /\ LevelsHold'
<1> DEFINE row == NewAttempt(a, start, pct, ver)
<1>1. totals \in Totals /\ RowsTyped(rows) /\ points[a] \in Nat /\ rule \in BOOLEAN /\ a \in Activities
  BY BaseTypes, FewActivities
<1>2. row \in Attempt /\ row.start = start
  <2>1. \E r : r = row OBVIOUS
  <2> HIDE DEF row
  <2>2. QED BY <1>1, <2>1, NewAttemptIs DEF row
<1>3. \A v \in Levels : 0 <= totals.level[v].points BY DEF LevelsHold
<1>4. CASE \E r \in rows[a] : r.start = start
  <2>1. totals' = totals BY <1>4 DEF Submit, Replayed
  <2> DEFINE u == totals'
  <2>2. u = totals BY <2>1
  <2> HIDE DEF u
  <2>3. \A v \in Levels : Accrued(totals, u, v)
    <3>1. ASSUME NEW v \in Levels PROVE Accrued(totals, u, v)
      <4>1. \A n \in Int : n <= n OBVIOUS
      <4>2. u.level[v].points <= totals.level[v].points /\ \A l \in LessonsOf(v) : u.lesson[l].points <= totals.lesson[l].points
        BY <1>1, <2>2, <4>1, TotalsTyped, FewOfEach
      <4>3. QED BY <1>1, <2>2, <4>2, NothingGained
    <3>2. QED BY <3>1
  <2>4. QED BY <1>3, <2>1, <2>3 DEF u, StepAccrues, LevelsHold
<1>5. CASE ~\E r \in rows[a] : r.start = start
  <2>1. Created(a, row) BY <1>5 DEF Submit
  <2> HIDE DEF row
  <2>2. \A r \in rows[a] : r.start # row.start BY <1>2, <1>5
  <2>3. PICK old : old = getoldpoints(a, row.points) OBVIOUS
  <2>4. PICK t : t = IF RewardDue(a, row) THEN Rewarded(totals, a, row.points, old) ELSE totals OBVIOUS
  <2>5. /\ old \in Nat \cup {NoOld} /\ t \in Totals
        /\ totals' = Scored(t, a, row.scores)
        /\ rows'[a] = rows[a] \cup {row}
    BY <1>2, <2>1, <2>2, <2>3, <2>4, CreatedIs
  <2>6. row.points \in Nat /\ row.scores \in Nat /\ row \notin rows[a] BY <1>2, <2>2 DEF Attempt
  <2> DEFINE n == row.points
             m == row.scores
             u == totals'
  <2>7. n \in Nat /\ m \in Nat /\ u = Scored(t, a, m) /\ (t = totals \/ t = Rewarded(totals, a, n, old))
    BY <2>4, <2>5, <2>6
  <2>8. rows'[a] # rows[a] BY <2>5, <2>6
  <2> HIDE DEF n, m, u
  <2>9. /\ \A l \in Lessons : u.lesson[l].points = t.lesson[l].points
        /\ \A v \in Levels : u.level[v].points = t.level[v].points
    BY <2>5, <2>7, ScoredIs DEF Scorelike
  <2>10. \A v \in Levels : (v # a => Accrued(totals, u, v)) /\ 0 <= u.level[v].points
    BY <1>1, <1>3, <2>5, <2>7, <2>9, RewardAndStars
  <2>11. QED BY <2>8, <2>10 DEF u, StepAccrues, LevelsHold
<1>6. QED BY <1>4, <1>5

(* ... a learning report, ... *)
LEMMA LearningAccrues ==
    ASSUME Base, LevelsHold, NEW a \in Learnings, NEW ended \in BOOLEAN, updatelearningprogress(a, ended)
    PROVE  StepAccrues /\ LevelsHold'
<1>1. PICK old : old = LearningOld(a, ended) OBVIOUS
<1>2. PICK t : t = IF old # NoOld \/ (ended /\ learnt'[a].viewed = 1) THEN Rewarded(totals, a, points[a], old) ELSE totals
  OBVIOUS
<1>3. /\ old \in Nat \cup {NoOld} /\ t \in Totals
      /\ totals' = IF ended THEN addstudentscores(t, LessonOf[a], 0) ELSE t
  BY <1>1, <1>2, LearningIs
<1>4. totals \in Totals /\ points[a] \in Nat /\ a \in Activities /\ LessonOf[a] \in Lessons /\ a \notin Levels
  BY BaseTypes, FewActivities, Places
<1>5. \A v \in Levels : 0 <= totals.level[v].points BY DEF LevelsHold
<1> DEFINE n == points[a]
           u == totals'
           l0 == LessonOf[a]
<1>6. n \in Nat /\ (t = totals \/ t = Rewarded(totals, a, n, old)) BY <1>2, <1>4
<1>7. (ended /\ u = addstudentscores(t, l0, 0)) \/ u = t BY <1>3
<1>8. l0 \in Lessons /\ 0 \in Nat BY <1>4
<1> HIDE DEF n, u, l0
<1>9. /\ \A l \in Lessons : u.lesson[l].points = t.lesson[l].points
      /\ \A v \in Levels : u.level[v].points = t.level[v].points
  <2>1. CASE u = t BY <2>1
  <2>2. CASE u = addstudentscores(t, l0, 0)
    <3>1. LessonStarred(t, l0, 0, u) BY <1>3, <1>8, <2>2, LessonStarsAre
    <3>2. QED BY <3>1 DEF LessonStarred, Scorelike
  <2>3. QED BY <1>7, <2>1, <2>2
<1>10. \A v \in Levels : (v # a => Accrued(totals, u, v)) /\ 0 <= u.level[v].points
  BY <1>3, <1>4, <1>5, <1>6, <1>9, RewardAndStars
<1>11. QED BY <1>4, <1>10 DEF u, StepAccrues, LevelsHold

(* A recalculation never adds to a lesson, ... *)
LEMMA ReductionsReduce ==
    ASSUME Base, NEW l \in Lessons
    PROVE  Reduction(l) \in Nat
<1> DEFINE p == totals.lesson[l].points
           r == Rest(l)
           m == Amount(l)
<1>1. p \in Int /\ r \in Nat /\ m \in Nat
  <2>1. totals \in Totals BY BaseTypes
  <2>2. p \in Int BY <2>1, TotalsTyped
  <2>3. QED BY <2>2, AmountsTyped
<1>2. Reduction(l) = IF totals.lesson[l] = NoRow THEN m ELSE Min({m, p - Min({p, r})}) BY DEF Reduction
<1> HIDE DEF p, r, m
<1> DEFINE k == Min({p, r})
<1>3. k \in Int /\ k <= p BY <1>1, MinIs
<1> HIDE DEF k
<1>4. p - k \in Nat BY <1>1, <1>3
<1>5. Min({m, p - k}) \in Nat BY <1>1, <1>4, MinIs
<1>6. QED BY <1>1, <1>2, <1>5 DEF k

(* ... nor to a level or the grade. *)
LEMMA RecalculateAccrues ==
    ASSUME Base, LevelsHold, Recalculate
    PROVE  StepAccrues /\ LevelsHold'
<1> DEFINE u == totals'
<1>1. totals \in Totals /\ u \in Totals BY BaseTypes, RecalculateIs
<1>2. /\ \A l \in Lessons : u.lesson[l] = ReducedLesson(l)
      /\ \A v \in Levels : u.level[v] = Reduced(totals.level[v], Lost(LessonsOf(v)), LevelPoints[v])
  BY RecalculateIs
<1> HIDE DEF u
<1>3. ASSUME NEW l \in Lessons PROVE u.lesson[l].points <= totals.lesson[l].points
  <2> DEFINE p == totals.lesson[l].points
             k == Reduction(l)
             x == u.lesson[l]
  <2>1. p \in Int /\ k \in Nat BY <1>1, TotalsTyped, ReductionsReduce
  <2>2. x = ReducedLesson(l) BY <1>2
  <2> HIDE DEF x
  <2>3. x.points = p \/ x.points = p - k BY <2>2, ReducedLessonIs
  <2> HIDE DEF p, k
  <2>4. x.points <= p BY <2>1, <2>3
  <2>5. QED BY <2>4 DEF x, p
<1>4. ASSUME NEW v \in Levels PROVE u.level[v].points <= totals.level[v].points /\ 0 <= u.level[v].points
  <2> DEFINE row == totals.level[v]
             n == Lost(LessonsOf(v))
             x == u.level[v]
             total == LevelPoints[v]
  <2>1. n \in Nat
    <3> DEFINE f == [l \in Lessons |-> Reduction(l)]
    <3>1. IsFiniteSet(LessonsOf(v)) /\ LessonsOf(v) \subseteq Lessons BY FewOfEach
    <3>2. \A l \in LessonsOf(v) : f[l] \in Nat BY <3>1, ReductionsReduce
    <3>3. n = SumFunctionOnSet(f, LessonsOf(v)) BY DEF Lost
    <3> HIDE DEF f
    <3>4. QED BY <3>1, <3>2, <3>3, SumNat
  <2>2. row \in Row /\ row.points \in Int /\ 0 <= row.points BY <1>1, TotalsTyped DEF LevelsHold
  <2>3. x = Reduced(row, n, total) BY <1>2
  <2> HIDE DEF row, n, x, total
  <2>4. n \in Int BY <2>1
  <2>5. x.points = IF row = NoRow \/ n = 0 THEN row.points ELSE Positive(row.points - n) BY <2>2, <2>3, <2>4, ReducedIs
  <2> DEFINE q == row.points
  <2>6. q \in Int /\ 0 <= q /\ (x.points = q \/ x.points = Positive(q - n)) BY <2>2, <2>5
  <2> HIDE DEF q
  <2>7. x.points <= q /\ 0 <= x.points BY <2>1, <2>6 DEF Positive
  <2>8. QED BY <2>7 DEF q, x, row
<1>5. ASSUME NEW v \in Levels PROVE Accrued(totals, u, v)
  <2>1. \A l \in LessonsOf(v) : u.lesson[l].points <= totals.lesson[l].points BY <1>3, FewOfEach
  <2>2. QED BY <1>1, <1>4, <2>1, NothingGained
<1>6. QED BY <1>4, <1>5 DEF u, StepAccrues, LevelsHold

(* Attempts start within their bound. *)
Starts == \A a \in Attempted : \A r \in rows[a] : r.start <= MaxStart[a]

(* Every step keeps them there: rows keep their start times, and a new one's is within it. *)
LEMMA NextStarts ==
    ASSUME Base, Starts, [RecalcNext]_vars
    PROVE  Starts'
<1> DEFINE Old(a) == \A r \in rows'[a] : \E s \in rows[a] : s.start = r.start
<1>1. \A a \in Attempted : rows'[a] = rows[a] => Old(a) OBVIOUS
<1>2. (\A a \in Attempted : Old(a)) => Starts'
  <2>1. ASSUME NEW a \in Attempted, Old(a), NEW r \in rows'[a] PROVE r.start <= MaxStart[a] BY <2>1 DEF Starts
  <2>2. QED BY <2>1 DEF Starts
<1>3. ASSUME NEW a \in Attempted, PassedAgain(a) PROVE Starts'
  <2>1. PICK old : old = IF rule /\ a \in Quizzes THEN getpassoldpoints(a, points[a]) ELSE getoldpoints(a, points[a])
    OBVIOUS
  <2>2. /\ \A b \in Attempted : b # a => rows'[b] = rows[b]
        /\ \E p \in Passes(a) : rows'[a] = (rows[a] \ {p}) \cup {Repointed(p, points[a])} /\ p \in rows[a] /\ p \in Attempt
    BY <1>3, <2>1, PassedAgainIs
  <2>3. PICK p \in Passes(a) : rows'[a] = (rows[a] \ {p}) \cup {Repointed(p, points[a])} /\ p \in rows[a] /\ p \in Attempt
    BY <2>2
  <2>4. points[a] \in Nat BY BaseTypes, FewActivities
  <2>5. Repointed(p, points[a]).start = p.start BY <2>3, <2>4, RepointedIs
  <2>6. Old(a) BY <2>3, <2>5
  <2>7. QED BY <1>1, <1>2, <2>2, <2>6
<1>4. ASSUME NEW a \in Attempted, NEW start \in 1..MaxStart[a], NEW pct \in Percentages, NEW ver \in MayBeVerified(a),
             Submit(a, start, pct, ver)
      PROVE  Starts'
  <2> DEFINE row == NewAttempt(a, start, pct, ver)
  <2>1. row.start = start BY DEF NewAttempt
  <2>2. start <= MaxStart[a]
    <3>1. MaxStart[a] \in Nat BY ProgressAssumption
    <3>2. QED BY <3>1
  <2> HIDE DEF row
  <2>3. rows' = rows \/ rows' = [rows EXCEPT ![a] = @ \cup {row}] BY <1>4 DEF Submit, Replayed, Created, row
  <2>4. CASE rows' = rows BY <1>1, <1>2, <2>4
  <2>5. CASE rows' = [rows EXCEPT ![a] = @ \cup {row}]
    <3>1. rows \in [Attempted -> SUBSET Attempt] BY BaseTypes DEF RowsTyped
    <3>2. rows'[a] = rows[a] \cup {row} /\ \A b \in Attempted : b # a => rows'[b] = rows[b] BY <2>5, <3>1
    <3>3. QED BY <2>1, <2>2, <3>2 DEF Starts
  <2>6. QED BY <2>3, <2>4, <2>5
<1>5. CASE \/ \E a \in Learnings, ended \in BOOLEAN : updatelearningprogress(a, ended)
           \/ (\E a \in Activities : ImportContent(a)) \/ SwitchRule \/ SwitchRequire \/ UNCHANGED vars
  <2>1. rows' = rows BY <1>5 DEF updatelearningprogress, ImportContent, SwitchRule, SwitchRequire, vars
  <2>2. QED BY <1>1, <1>2, <2>1
<1>6. CASE Recalculate
  <2>1. /\ \A a \in Attempted \ Quizzes : rows'[a] = rows[a]
        /\ \A q \in Quizzes : rows'[q] = IF OnlyUncounted(q) THEN rows[q] ELSE {ZeroedRow(r) : r \in rows[q]}
    BY <1>6, RecalculateIs
  <2>2. ASSUME NEW a \in Attempted, rows'[a] = {ZeroedRow(r) : r \in rows[a]} PROVE Old(a)
    <3>1. \A r \in rows[a] : ZeroedRow(r).start = r.start BY BaseTypes, ZeroedRowIs DEF RowsTyped
    <3>2. QED BY <2>2, <3>1
  <2>3. \A a \in Attempted : Old(a) BY <1>1, <2>1, <2>2
  <2>4. QED BY <1>2, <2>3
<1>7. QED BY <1>3, <1>4, <1>5, <1>6 DEF RecalcNext, Next

(* What may be attempted once is attempted once. *)
LEMMA AtMostOnce ==
    ASSUME Base, Starts, NEW a \in Attempted, MaxStart[a] <= 1
    PROVE  LinedAt(a) /\ \A r \in rows[a] : r.start = 1
<1>1. \A r \in rows[a] : r.start \in Nat \ {0} /\ r.start <= MaxStart[a] BY BaseTypes DEF RowsTyped, Attempt, Starts
<1>2. MaxStart[a] \in Nat BY ProgressAssumption
<1>3. \A r \in rows[a] : r.start = 1 BY <1>1, <1>2
<1>4. QED BY <1>3 DEF LinedAt, Passes

(* The inductive invariant. *)
AccrueIInv == Base /\ LevelsHold /\ Starts /\ (InOrder => Lined)

(* It holds at first, of no rows. *)
LEMMA InitAccrues == Init => AccrueIInv
<1> SUFFICES ASSUME Init PROVE AccrueIInv
  OBVIOUS
<1>1. Base BY InitBase
<1>2. \A v \in Levels : totals.level[v] = NoRow BY DEF Init
<1>3. LevelsHold
  <2>1. NoRow.points = 0 /\ 0 <= 0 BY RowFacts
  <2>2. QED BY <1>2, <2>1 DEF LevelsHold
<1>4. \A a \in Attempted : rows[a] = {} BY DEF Init
<1>5. Starts /\ Lined BY <1>4 DEF Starts, Lined, LinedAt
<1>6. QED BY <1>1, <1>3, <1>5 DEF AccrueIInv

(* Every step accrues and keeps the invariant. *)
LEMMA NextAccrues ==
    ASSUME InOrder \/ \A v \in Levels : MaxStart[v] <= 1, AccrueIInv, [RecalcNext]_vars
    PROVE  AccrueIInv' /\ (RecalcNext => StepAccrues)
<1>1. Base /\ Base' /\ LevelsHold /\ Starts /\ Starts' /\ (InOrder => Lined) BY NextBase, NextStarts DEF AccrueIInv
<1>2. InOrder => Lined' BY <1>1, NextLined
<1>3. ASSUME NEW a \in Levels PROVE LinedAt(a)
  <2>1. a \in Attempted BY FewActivities
  <2>2. QED BY <1>1, <2>1, AtMostOnce DEF Lined
<1>4. \/ StepAccrues /\ LevelsHold'
      \/ totals' = totals
  <2>1. ASSUME NEW a \in Attempted, PassedAgain(a) PROVE StepAccrues /\ LevelsHold'
    BY <1>1, <1>3, <2>1, PassedAgainAccrues
  <2>2. ASSUME NEW a \in Attempted, NEW start \in 1..MaxStart[a], NEW pct \in Percentages, NEW ver \in MayBeVerified(a),
               Submit(a, start, pct, ver)
        PROVE  StepAccrues /\ LevelsHold'
    <3>1. start \in Nat \ {0}
      <4>1. MaxStart[a] \in Nat BY ProgressAssumption
      <4>2. QED BY <4>1
    <3>2. ver \in BOOLEAN BY DEF MayBeVerified
    <3>3. QED BY <1>1, <2>2, <3>1, <3>2, SubmitAccrues
  <2>3. ASSUME NEW a \in Learnings, NEW ended \in BOOLEAN, updatelearningprogress(a, ended)
        PROVE  StepAccrues /\ LevelsHold'
    BY <1>1, <2>3, LearningAccrues
  <2>4. CASE (\E a \in Activities : ImportContent(a)) \/ SwitchRule \/ SwitchRequire BY <1>1, <2>4, EditBase
  <2>5. CASE Recalculate BY <1>1, <2>5, RecalculateAccrues
  <2>6. CASE UNCHANGED vars BY <2>6 DEF vars
  <2>7. QED BY <2>1, <2>2, <2>3, <2>4, <2>5, <2>6 DEF RecalcNext, Next
<1>5. ASSUME totals' = totals PROVE StepAccrues /\ LevelsHold'
  <2> DEFINE u == totals'
  <2>1. u = totals /\ totals \in Totals BY <1>1, <1>5, BaseTypes
  <2> HIDE DEF u
  <2>2. \A v \in Levels : Accrued(totals, u, v)
    <3>1. ASSUME NEW v \in Levels PROVE Accrued(totals, u, v)
      <4>1. \A n \in Int : n <= n OBVIOUS
      <4>2. u.level[v].points <= totals.level[v].points /\ \A l \in LessonsOf(v) : u.lesson[l].points <= totals.lesson[l].points
        BY <2>1, <4>1, TotalsTyped, FewOfEach
      <4>3. QED BY <2>1, <4>2, NothingGained
    <3>2. QED BY <3>1
  <2>3. LevelsHold' BY <1>1, <1>5 DEF LevelsHold
  <2>4. QED BY <2>2, <2>3 DEF StepAccrues, u
<1>6. QED BY <1>1, <1>2, <1>4, <1>5 DEF AccrueIInv

(***************************************************************************)
(* The level accrues what landed on its lessons, also where a lesson is    *)
(* full: no step gives points to one and other points, or none, to the     *)
(* other.  For level quizzes that are attempted in order or once; lesson   *)
(* quizzes and practices may be attempted in any order and any number of   *)
(* times, and content need not fit its lessons.                            *)
(***************************************************************************)
THEOREM LevelAlwaysAccruesWhatLanded ==
    ASSUME InOrder \/ \A v \in Levels : MaxStart[v] <= 1
    PROVE  RecalcSpec => LevelAccruesWhatLanded
<1> DEFINE Step == \A v \in Levels : rows'[v] = rows[v] =>
                      LET onlevel   == PointsOf(totals'.level[v]) - PointsOf(totals.level[v])
                          onlessons == SumFunctionOnSet([l \in Lessons |-> PointsOf(totals'.lesson[l]) - PointsOf(totals.lesson[l])],
                                                        LessonsOf(v))
                      IN  onlevel > 0 \/ onlessons > 0 => onlevel = onlessons
<1>1. Init => AccrueIInv BY InitAccrues
<1>2. AccrueIInv /\ [RecalcNext]_vars => AccrueIInv' BY NextAccrues
<1>3. AccrueIInv /\ [RecalcNext]_vars => [Step]_vars
  <2>1. StepAccrues <=> Step BY DEF StepAccrues, Accrued, PointsOf
  <2>2. QED BY <2>1, NextAccrues
<1>4. QED BY <1>1, <1>2, <1>3, PTL DEF RecalcSpec, LevelAccruesWhatLanded

-----------------------------------------------------------------------------
(* With the pass rule on a pass is credited once. *)

(* The rule stays as it is, and so does the grading requirement. *)
Steady == ~RuleMayChange /\ RequireMayBecome = {}

(* What the rule leaves in the rows of a quiz: failed attempts hold nothing, and one pass at most, which counts. *)
QuizRows(rs) ==
    /\ \A r \in rs : IF r.ispass THEN countedpassclause(r) ELSE r.points = 0
    /\ \A r, s \in rs : r.ispass /\ s.ispass => r = s

Single == \A q \in Quizzes : QuizRows(rows[q])

PassRows(rs) == {r \in rs : r.ispass}

(* The rows that count: every attempt at practice and level quizzes, the pass of a quiz. *)
Counting(rs) == [a \in Attempted |-> IF a \in Quizzes THEN PassRows(rs[a]) ELSE rs[a]]

(* Lessons that fit their content have what the counting rows hold. *)
CreditedBy(t, rs, ln) == \A l \in Lessons : Slack(l) => t.lesson[l].points = Held(rs, ln, l)

Credited == CreditedBy(totals, Counting(rows), learnt)

(* Some of a quiz's rows are rows of a quiz. *)
LEMMA CountingTyped ==
    ASSUME NEW rs, RowsTyped(rs)
    PROVE  /\ RowsTyped(Counting(rs))
           /\ \A a \in Attempted : Counting(rs)[a] = (IF a \in Quizzes THEN PassRows(rs[a]) ELSE rs[a])
           /\ \A a \in Attempted : Counting(rs)[a] \subseteq rs[a]
<1>1. \A a \in Attempted : Counting(rs)[a] = (IF a \in Quizzes THEN PassRows(rs[a]) ELSE rs[a]) BY DEF Counting
<1>2. \A a \in Attempted : Counting(rs)[a] \subseteq rs[a] BY <1>1 DEF PassRows
<1>3. \A a \in Attempted : rs[a] \subseteq Attempt /\ Distinct(rs[a]) BY DEF RowsTyped
<1>4. ASSUME NEW a \in Attempted PROVE Counting(rs)[a] \in SUBSET Attempt /\ Distinct(Counting(rs)[a])
  <2> DEFINE u == Counting(rs)[a]
             w == rs[a]
  <2>1. u \subseteq w /\ w \subseteq Attempt /\ Distinct(w) BY <1>2, <1>3
  <2> HIDE DEF u, w
  <2>2. IsFiniteSet(u) BY <2>1, FS_Subset DEF Distinct
  <2>3. u \in SUBSET Attempt /\ Distinct(u) BY <2>1, <2>2 DEF Distinct
  <2>4. QED BY <2>3 DEF u
<1>5. Counting(rs) = [a \in Attempted |-> Counting(rs)[a]] BY DEF Counting
<1> DEFINE c == Counting(rs)
<1> HIDE DEF c
<1>6. c = [a \in Attempted |-> c[a]] /\ \A a \in Attempted : c[a] \in SUBSET Attempt /\ Distinct(c[a]) BY <1>4, <1>5 DEF c
<1>7. RowsTyped(c) BY <1>6 DEF RowsTyped
<1>8. QED BY <1>1, <1>2, <1>7 DEF c

(* A single row is worth its points. *)
LEMMA WorthOfOne ==
    ASSUME NEW r \in Attempt
    PROVE  Worth({r}) = r.points /\ Worth({}) = 0 /\ Distinct({r}) /\ Newest({r}) = r /\ Oldest({r}) = r
<1>1. Distinct({r}) /\ {r} \subseteq Attempt BY FS_Singleton DEF Distinct
<1>2. Newest({r}) = r /\ Oldest({r}) = r BY <1>1, NewestIs, OldestIs
<1>3. QED BY <1>1, <1>2 DEF Worth

(* The rule's rows of a quiz pass where a row says so. *)
LEMMA PassesOfQuiz ==
    ASSUME Base, Single, NEW q \in Quizzes
    PROVE  /\ Passes(q) = PassRows(rows[q])
           /\ ispass(q) => \E p \in rows[q] : p.ispass /\ p \in Attempt /\ PassRows(rows[q]) = {p}
           /\ ~ispass(q) => PassRows(rows[q]) = {}
<1>1. QuizRows(rows[q]) BY DEF Single
<1>2. rows[q] \subseteq Attempt BY BaseTypes, FewActivities DEF RowsTyped
<1>3. Passes(q) = PassRows(rows[q]) BY <1>1 DEF Passes, PassRows, QuizRows
<1>4. ASSUME NEW p \in PassRows(rows[q]) PROVE PassRows(rows[q]) = {p} /\ p \in rows[q] /\ p.ispass
  BY <1>1, <1>4 DEF PassRows, QuizRows
<1>5. QED BY <1>2, <1>3, <1>4 DEF ispass

(* What the counting rows of a lesson hold is what the property says a lesson is worth. *)
LEMMA CountingHolds ==
    ASSUME Base, Single, NEW l \in Lessons
    PROVE  Held(Counting(rows), learnt, l) =
             HeldByLearning(learnt, In(l, Learnings)) + HeldByAttempts(rows, In(l, Practices)) + PassesHold(l)
<1> DEFINE c == Counting(rows)
           P == In(l, Practices)
           Q == In(l, Quizzes)
           w == HeldByLearning(learnt, In(l, Learnings))
<1>1. RowsTyped(rows) /\ LearntTyped(learnt) BY BaseTypes
<1>2. RowsTyped(c) /\ \A a \in Attempted : c[a] = (IF a \in Quizzes THEN PassRows(rows[a]) ELSE rows[a])
  BY <1>1, CountingTyped
<1>3. /\ P \subseteq Attempted /\ Q \subseteq Attempted /\ P \subseteq Practices /\ Q \subseteq Quizzes
      /\ P \cap Q = {} /\ In(l, Practices \cup Quizzes) = P \cup Q
  <2>1. P \cap Q = {} BY FewActivities, ProgressAssumption
  <2>2. In(l, Practices \cup Quizzes) = P \cup Q BY DEF In
  <2>3. QED BY <2>1, <2>2, FewActivities
<1>4. w \in Nat BY <1>1, LearningHolds, FewActivities
<1> HIDE DEF c, w, P, Q
<1>5. Held(c, learnt, l) = w + HeldByAttempts(c, P \cup Q) BY <1>3 DEF Held, w
<1>6. HeldByAttempts(c, P) = HeldByAttempts(rows, P)
  <2>1. \A a \in P : Worth(c[a]) = Worth(rows[a]) BY <1>2, <1>3, ProgressAssumption
  <2>2. QED BY <1>1, <1>2, <1>3, <2>1, HeldSame
<1>7. HeldByAttempts(c, Q) = PassesHold(l)
  <2> DEFINE f == [a \in Attempted |-> Worth(c[a])]
             g == [q \in Quizzes |-> IF ispass(q) THEN Oldest(Passes(q)).points ELSE 0]
  <2>1. HeldByAttempts(c, Q) = SumFunctionOnSet(f, Q) BY DEF HeldByAttempts, Worth
  <2>2. PassesHold(l) = SumFunctionOnSet(g, Q) BY DEF PassesHold, Q
  <2>3. ASSUME NEW q \in Q PROVE f[q] = g[q]
    <3>1. q \in Quizzes /\ q \in Attempted BY <1>3
    <3>2. f[q] = Worth(PassRows(rows[q])) BY <1>2, <3>1
    <3>3. CASE ispass(q)
      <4>1. PICK p \in rows[q] : p \in Attempt /\ Passes(q) = {p} /\ PassRows(rows[q]) = {p} BY <3>1, <3>3, PassesOfQuiz
      <4>2. QED BY <3>1, <3>2, <3>3, <4>1, WorthOfOne
    <3>4. CASE ~ispass(q)
      <4>1. PassRows(rows[q]) = {} BY <3>1, <3>4, PassesOfQuiz
      <4>2. Worth({}) = 0 BY DEF Worth
      <4>3. QED BY <3>1, <3>2, <3>4, <4>1, <4>2
    <3>5. QED BY <3>3, <3>4
  <2>4. IsFiniteSet(Q)
    <3>1. Q \subseteq Activities BY <1>3, FewActivities
    <3>2. QED BY <3>1, FewActivities
  <2> HIDE DEF f, g
  <2>5. SumFunctionOnSet(f, Q) = SumFunctionOnSet(g, Q) BY <2>3, <2>4, SumSame
  <2>6. QED BY <2>1, <2>2, <2>5
<1> DEFINE y == HeldByAttempts(c, P)
           z == HeldByAttempts(c, Q)
<1>8. y \in Nat /\ z \in Nat BY <1>2, <1>3, AttemptsHold
<1>9. HeldByAttempts(c, P \cup Q) = y + z BY <1>2, <1>3, HeldByBoth
<1>10. Held(c, learnt, l) = w + (y + z) BY <1>5, <1>9
<1>11. y = HeldByAttempts(rows, In(l, Practices)) /\ z = PassesHold(l) BY <1>6, <1>7 DEF P
<1> HIDE DEF y, z
<1>12. w + (y + z) = w + y + z BY <1>4, <1>8
<1>13. QED BY <1>10, <1>11, <1>12 DEF c, w

(* The lesson of an activity holds d points more, the other lessons what they held. *)
LessonHoldsMore(rs, ln, us, un, a, d) ==
    \A l \in Lessons : Held(us, un, l) = Held(rs, ln, l) + (IF a \notin Levels /\ LessonOf[a] = l THEN d ELSE 0)

(* A reward of what the lesson gained, or none where it gained nothing, keeps it credited. *)
LEMMA RewardCredits ==
    ASSUME NEW t \in Totals, NEW a \in Activities, NEW new \in Nat, NEW old \in Nat \cup {NoOld},
           NEW rs, RowsTyped(rs), NEW ln, LearntTyped(ln), NEW us, RowsTyped(us), NEW un, LearntTyped(un),
           CreditedBy(t, rs, ln), NEW d \in Int, LessonHoldsMore(rs, ln, us, un, a, d),
           \A l \in Lessons : Slack(l) => Held(us, un, l) <= TotalPoints[l],
           NEW u, \/ u = t /\ (a \in Levels \/ d = 0)
                  \/ u = Rewarded(t, a, new, old) /\ (a \in Levels \/ d = Delta(new, old))
    PROVE  CreditedBy(u, us, un)
<1>1. ASSUME NEW l \in Lessons, Slack(l) PROVE u.lesson[l].points = Held(us, un, l)
  <2> DEFINE h == Held(rs, ln, l)
             g == Held(us, un, l)
             p == t.lesson[l].points
             k == IF a \notin Levels /\ LessonOf[a] = l THEN d ELSE 0
  <2>1. h \in Nat /\ g \in Nat BY HeldTyped
  <2>2. g = h + k /\ p = h /\ g <= TotalPoints[l] BY <1>1 DEF LessonHoldsMore, CreditedBy
  <2>3. t.lesson \in [Lessons -> Row] BY DEF Totals
  <2>4. CASE k = 0 /\ u.lesson[l] = t.lesson[l]
    <3> HIDE DEF k, h
    <3>1. g = h BY <2>1, <2>2, <2>4
    <3>2. QED BY <2>2, <2>4, <3>1
  <2>5. CASE a \notin Levels /\ LessonOf[a] = l /\ u = Rewarded(t, a, new, old) /\ d = Delta(new, old)
    <3> DEFINE row == t.lesson[l]
               pp == PassingPoints[l]
               tp == TotalPoints[l]
               x == LessonRow(row, d, pp, tp)
    <3>1. u.lesson = [t.lesson EXCEPT ![l] = x] BY <2>5 DEF Rewarded, updateUserReward
    <3>2. u.lesson[l] = x BY <2>3, <3>1
    <3>3. row \in Row /\ tp \in Int /\ row.points = p BY <2>3, Places
    <3>4. k = d BY <2>5
    <3>5. x = LessonRow(row, d, pp, tp) OBVIOUS
    <3> HIDE DEF row, tp, pp, x, h, p, g, k
    <3>6. g = p + d BY <2>2, <3>4
    <3>7. 0 <= row.points + d /\ row.points + d <= tp BY <2>1, <2>2, <3>3, <3>6 DEF tp
    <3>8. LessonRow(row, d, pp, tp).points = row.points + d BY <3>3, <3>7, RewardFits
    <3>9. QED BY <3>2, <3>3, <3>5, <3>6, <3>8 DEF g
  <2>6. CASE u = t /\ d = 0
    <3>1. k = 0 BY <2>6
    <3>2. QED BY <2>4, <2>6, <3>1
  <2>7. CASE u = t /\ a \in Levels BY <2>4, <2>7
  <2>8. CASE u = Rewarded(t, a, new, old) /\ (a \in Levels \/ LessonOf[a] # l)
    <3>1. u.lesson[l] = t.lesson[l] BY <2>8, RewardedIs
    <3>2. QED BY <2>4, <2>8, <3>1
  <2>9. QED BY <2>5, <2>6, <2>7, <2>8
<1>2. QED BY <1>1 DEF CreditedBy

(* Stars change nothing of it. *)
LEMMA StarsCredit ==
    ASSUME NEW t, NEW rs, NEW ln, CreditedBy(t, rs, ln), NEW u, \A l \in Lessons : u.lesson[l].points = t.lesson[l].points
    PROVE  CreditedBy(u, rs, ln)
BY DEF CreditedBy

(* What counts after a step fits, too. *)
LEMMA CountingFits ==
    ASSUME Base'
    PROVE  /\ RowsTyped(rows') /\ RowsTyped(Counting(rows')) /\ LearntTyped(learnt')
           /\ \A l \in Lessons : Slack(l) => Held(Counting(rows'), learnt', l) <= TotalPoints[l]
<1> DEFINE us == rows'
           un == learnt'
           c == Counting(us)
<1>1. RowsTyped(us) /\ LearntTyped(un) BY DEF Base, TypeOK, RowsTyped, LearntTyped, LearntRow
<1>2. /\ \A a \in Attempted : \A r \in us[a] : r.points <= MaxPoints[a]
      /\ \A a \in Learnings : un[a].points <= MaxPoints[a]
  BY DEF Base, Bounded
<1> HIDE DEF us, un
<1>3. RowsTyped(c) /\ \A a \in Attempted : c[a] \subseteq us[a] BY <1>1, CountingTyped
<1>4. \A a \in Attempted : \A r \in c[a] : r.points <= MaxPoints[a] BY <1>2, <1>3
<1> HIDE DEF c
<1>5. \A l \in Lessons : Slack(l) => Held(c, un, l) <= TotalPoints[l] BY <1>1, <1>2, <1>3, <1>4, HeldFits
<1>6. QED BY <1>1, <1>3, <1>5 DEF c, us, un

(* What the rows of an activity that count are worth. *)
CountedWorth(rs, a) == Worth(Counting(rs)[a])

(* A reward of what the counting rows of one activity gained, or none where they gained nothing. *)
LEMMA AttemptCredits ==
    ASSUME NEW t \in Totals, NEW a \in Attempted, NEW rs, RowsTyped(rs), NEW us, RowsTyped(us), NEW ln, LearntTyped(ln),
           CreditedBy(t, Counting(rs), ln), \A b \in Attempted : b # a => us[b] = rs[b],
           \A l \in Lessons : Slack(l) => Held(Counting(us), ln, l) <= TotalPoints[l],
           NEW new \in Nat, NEW old \in Nat \cup {NoOld}, NEW u,
           \/ u = t /\ (a \in Levels \/ CountedWorth(us, a) = CountedWorth(rs, a))
           \/ u = Rewarded(t, a, new, old) /\ (a \in Levels \/ Delta(new, old) = CountedWorth(us, a) - CountedWorth(rs, a))
    PROVE  CreditedBy(u, Counting(us), ln)
<1> DEFINE c == Counting(rs)
           e == Counting(us)
           wc == Worth(c[a])
           we == Worth(e[a])
           d == we - wc
<1>1. RowsTyped(c) /\ RowsTyped(e) BY CountingTyped
<1>2. \A b \in Attempted : b # a => e[b] = c[b] BY CountingTyped
<1> HIDE DEF c, e
<1>3. wc \in Nat /\ we \in Nat BY <1>1, WorthTyped DEF RowsTyped
<1>4. d \in Int /\ (we = wc => d = 0)
  <2>1. d = we - wc OBVIOUS
  <2> HIDE DEF wc, we, d
  <2>2. QED BY <1>3, <2>1
<1>5. wc = CountedWorth(rs, a) /\ we = CountedWorth(us, a) BY DEF CountedWorth, c, e
<1>6. LessonHoldsMore(c, ln, e, ln, a, d)
  <2>1. d = Worth(e[a]) - Worth(c[a]) OBVIOUS
  <2> HIDE DEF d
  <2>2. \A l \in Lessons : Held(e, ln, l) = Held(c, ln, l) + (IF a \notin Levels /\ LessonOf[a] = l THEN d ELSE 0)
    BY <1>1, <1>2, <1>4, <2>1, HeldMoves
  <2>3. QED BY <2>2 DEF LessonHoldsMore
<1>7. \/ u = t /\ (a \in Levels \/ d = 0)
      \/ u = Rewarded(t, a, new, old) /\ (a \in Levels \/ d = Delta(new, old))
  <2>1. d = CountedWorth(us, a) - CountedWorth(rs, a) BY <1>5
  <2>2. CountedWorth(us, a) = CountedWorth(rs, a) => d = 0 BY <1>4, <1>5
  <2> HIDE DEF d
  <2>3. QED BY <2>1, <2>2
<1>8. a \in Activities BY FewActivities
<1>9. CreditedBy(t, c, ln) /\ \A l \in Lessons : Slack(l) => Held(e, ln, l) <= TotalPoints[l] BY DEF c, e
<1> HIDE DEF d
<1>10. CreditedBy(u, e, ln) BY <1>1, <1>4, <1>6, <1>7, <1>8, <1>9, RewardCredits
<1>11. QED BY <1>10 DEF e

(* The quizzes' rows stay what the rule leaves, if they do row by row. *)
LEMMA SingleStep ==
    ASSUME require' = require, \A q \in Quizzes : QuizRows(rows'[q])
    PROVE  Single'
BY DEF Single, QuizRows, countedpassclause

(* What a row that does not hold points is deducted as. *)
LEMMA NothingDeducted ==
    ASSUME NEW n \in Nat, NEW old \in {NoOld, 0}
    PROVE  Delta(n, old) = n
BY DEF Delta

(* A quiz passed again: its one pass moves to what the quiz is worth now. *)
LEMMA QuizPassMoves ==
    ASSUME Base, Single, rule, NEW a \in Quizzes, PassedAgain(a),
           NEW old, old = getpassoldpoints(a, points[a])
    PROVE  /\ QuizRows(rows'[a])
           /\ \/ totals' = totals /\ CountedWorth(rows', a) = CountedWorth(rows, a)
              \/ /\ totals' = Rewarded(totals, a, points[a], old)
                 /\ Delta(points[a], old) = CountedWorth(rows', a) - CountedWorth(rows, a)
<1> DEFINE rs == rows[a]
           us == rows'[a]
           n == points[a]
<1>1. a \in Attempted /\ RowsTyped(rows) /\ n \in Nat /\ ispass(a) BY BaseTypes, FewActivities DEF PassedAgain
<1>2. /\ totals' = IF old # NoOld THEN Rewarded(totals, a, n, old) ELSE totals
      /\ RowsTyped(rows')
      /\ \E p \in Passes(a) : us = (rs \ {p}) \cup {Repointed(p, n)}
  BY <1>1, PassedAgainIs
<1>3. PICK p \in rs : p.ispass /\ p \in Attempt /\ Passes(a) = {p} /\ PassRows(rs) = {p} BY <1>1, PassesOfQuiz
<1> DEFINE q == Repointed(p, n)
<1>4. us = (rs \ {p}) \cup {q} BY <1>2, <1>3
<1>5. q \in Attempt /\ q.points = n /\ (q.ispass <=> p.ispass) /\ (q.verified <=> p.verified) BY <1>1, <1>3, RepointedIs
<1>6. QuizRows(rs) BY DEF Single
<1>7. CountedWorth(rows, a) = Worth(PassRows(rs)) /\ CountedWorth(rows', a) = Worth(PassRows(us))
  BY <1>1, <1>2, CountingTyped DEF CountedWorth
<1>8. old = OldPoints({p}, p, n)
  <2>1. Oldest({p}) = p BY <1>3, WorthOfOne
  <2>2. QED BY <1>3, <2>1 DEF getpassoldpoints
<1> HIDE DEF rs, us, n, q
<1>9. \A r \in rs \ {p} : ~r.ispass BY <1>3 DEF PassRows
<1>10. PassRows(us) = {q} BY <1>3, <1>4, <1>5, <1>9 DEF PassRows
<1>11. QuizRows(us)
  <2>1. \A r \in us : IF r.ispass THEN countedpassclause(r) ELSE r.points = 0
    BY <1>3, <1>4, <1>5, <1>6 DEF QuizRows, countedpassclause
  <2>2. \A r \in us : r.ispass => r = q BY <1>10 DEF PassRows
  <2>3. QED BY <2>1, <2>2 DEF QuizRows
<1>12. Worth(PassRows(rs)) = p.points /\ Worth(PassRows(us)) = n BY <1>3, <1>5, <1>10, WorthOfOne
<1>13. (old # NoOld => Delta(n, old) = n - p.points) /\ (old = NoOld => n = p.points)
  <2>1. p.points \in Nat BY <1>3 DEF Attempt
  <2>2. QED BY <1>1, <1>8, <2>1, OldPointsAre
<1>14. QED BY <1>2, <1>7, <1>11, <1>12, <1>13 DEF us, n

(* A fresh attempt at a quiz not passed: a pass brings what it holds, a failed one holds nothing. *)
LEMMA QuizAttemptMoves ==
    ASSUME Base, Single, rule, NEW a \in Quizzes, ~ispass(a), NEW row \in Attempt,
           IF row.ispass THEN countedpassclause(row) ELSE row.points = 0,
           NEW old, old = getoldpoints(a, row.points),
           NEW t, t = IF RewardDue(a, row) THEN Rewarded(totals, a, row.points, old) ELSE totals,
           NEW us, us = rows[a] \cup {row}
    PROVE  /\ QuizRows(us)
           /\ \/ t = totals /\ Worth(PassRows(us)) = Worth(PassRows(rows[a]))
              \/ /\ t = Rewarded(totals, a, row.points, old)
                 /\ Delta(row.points, old) = Worth(PassRows(us)) - Worth(PassRows(rows[a]))
<1> DEFINE rs == rows[a]
           n == row.points
<1>1. rs \subseteq Attempt /\ Distinct(rs) /\ n \in Nat BY BaseTypes, FewActivities DEF RowsTyped, Attempt
<1>2. PassRows(rs) = {} /\ QuizRows(rs) BY PassesOfQuiz DEF Single
<1>3. \A r \in rs : ~r.ispass /\ r.points = 0 BY <1>2 DEF PassRows, QuizRows
<1>4. QuizRows(us) BY <1>2, <1>3 DEF QuizRows
<1>5. Worth(PassRows(us)) = n /\ Worth(PassRows(rs)) = 0
  <2>1. Worth({}) = 0 BY DEF Worth
  <2>2. CASE row.ispass
    <3>1. PassRows(us) = {row} BY <1>3, <2>2 DEF PassRows
    <3>2. QED BY <1>2, <2>1, <3>1, WorthOfOne
  <2>3. CASE ~row.ispass
    <3>1. PassRows(us) = {} /\ n = 0 BY <1>3, <2>3 DEF PassRows
    <3>2. QED BY <1>2, <2>1, <3>1
  <2>4. QED BY <2>2, <2>3
<1>6. old \in {NoOld, 0} /\ (rs # {} /\ old = NoOld => n = 0)
  <2>1. rs # {} => Newest(rs).points = 0 BY <1>1, <1>3, NewestIs
  <2>2. old = OldPoints(rs, Newest(rs), n) BY DEF getoldpoints
  <2>3. QED BY <1>1, <2>1, <2>2 DEF OldPoints, NoOld
<1>7. Delta(n, old) = n BY <1>1, <1>6, NothingDeducted
<1>8. CASE RewardDue(a, row)
  <2>1. n = n - 0 BY <1>1
  <2>2. QED BY <1>4, <1>5, <1>7, <1>8, <2>1
<1>9. CASE ~RewardDue(a, row)
  <2>1. n = 0
    <3>1. CASE ~row.ispass BY <3>1
    <3>2. CASE row.ispass
      <4>1. ~StaleAttempt(a, row.start, row.ispass) BY <3>2 DEF StaleAttempt
      <4>2. rs # {} /\ old = NoOld BY <1>9, <4>1 DEF RewardDue, hasTried
      <4>3. QED BY <1>6, <4>2
    <3>3. QED BY <3>1, <3>2
  <2>2. QED BY <1>4, <1>5, <1>9, <2>1
<1>10. QED BY <1>8, <1>9

(* Practice whose attempts come in order, or once: its rows count, and the rule does not touch them. *)
PracticesLined == \A p \in Practices : LinedAt(p)

(* An attempt at something passed keeps every lesson credited. *)
LEMMA PassedAgainCredits ==
    ASSUME Base, Base', Single, rule, PracticesLined, Credited, NEW a \in Attempted, PassedAgain(a)
    PROVE  Single' /\ Credited'
<1>1. PICK old : old = IF rule /\ a \in Quizzes THEN getpassoldpoints(a, points[a]) ELSE getoldpoints(a, points[a])
  OBVIOUS
<1>2. /\ old \in Nat \cup {NoOld} /\ RowsTyped(rows') /\ \A b \in Attempted : b # a => rows'[b] = rows[b]
      /\ totals' = Rewarded(totals, a, points[a], old) \/ totals' = totals
  BY <1>1, PassedAgainIs
<1>3. totals \in Totals /\ RowsTyped(rows) /\ LearntTyped(learnt) /\ points[a] \in Nat BY BaseTypes, FewActivities
<1>4. learnt' = learnt /\ require' = require BY DEF PassedAgain
<1>5. a \in Quizzes => QuizRows(rows'[a]) BY <1>1, QuizPassMoves
<1>6. Single'
  <2>1. \A q \in Quizzes : q \in Attempted BY FewActivities
  <2>2. \A q \in Quizzes : QuizRows(rows'[q]) BY <1>2, <1>5, <2>1 DEF Single
  <2>3. QED BY <1>4, <2>2, SingleStep
<1>7. \/ totals' = totals /\ (a \in Levels \/ CountedWorth(rows', a) = CountedWorth(rows, a))
      \/ /\ totals' = Rewarded(totals, a, points[a], old)
         /\ a \in Levels \/ Delta(points[a], old) = CountedWorth(rows', a) - CountedWorth(rows, a)
  <2>1. CASE a \in Levels BY <1>2, <2>1
  <2>2. CASE a \in Quizzes BY <1>1, <2>2, QuizPassMoves
  <2>3. CASE a \in Practices
    <3>1. a \notin Quizzes /\ LinedAt(a) BY <2>3, ProgressAssumption DEF PracticesLined
    <3>2. CountedWorth(rows, a) = Worth(rows[a]) /\ CountedWorth(rows', a) = Worth(rows'[a])
      BY <1>2, <1>3, <3>1, CountingTyped DEF CountedWorth
    <3>3. QED BY <1>1, <3>1, <3>2, PassMoves
  <2>4. QED BY <2>1, <2>2, <2>3 DEF Attempted
<1>8. \A l \in Lessons : Slack(l) => Held(Counting(rows'), learnt', l) <= TotalPoints[l] BY CountingFits
<1> DEFINE us == rows'
           u == totals'
           n == points[a]
<1>9. /\ RowsTyped(us) /\ n \in Nat /\ \A b \in Attempted : b # a => us[b] = rows[b]
      /\ \A l \in Lessons : Slack(l) => Held(Counting(us), learnt, l) <= TotalPoints[l]
      /\ \/ u = totals /\ (a \in Levels \/ CountedWorth(us, a) = CountedWorth(rows, a))
         \/ u = Rewarded(totals, a, n, old) /\ (a \in Levels \/ Delta(n, old) = CountedWorth(us, a) - CountedWorth(rows, a))
  BY <1>2, <1>3, <1>4, <1>7, <1>8
<1> HIDE DEF us, u, n
<1>10. CreditedBy(u, Counting(us), learnt) BY <1>2, <1>3, <1>9, AttemptCredits DEF Credited
<1>11. QED BY <1>4, <1>6, <1>10 DEF Credited, u, us

(* So does an attempt at something not yet passed. *)
LEMMA SubmitCredits ==
    ASSUME Ordered \/ \A p \in Practices : MaxStart[p] <= 1,
           Base, Base', Starts, Single, rule, Credited,
           NEW a \in Attempted, NEW start \in Nat \ {0}, start <= MaxStart[a], NEW pct \in Percentages, NEW ver \in BOOLEAN,
           Submit(a, start, pct, ver)
    PROVE  Single' /\ Credited'
<1> DEFINE row == NewAttempt(a, start, pct, ver)
<1>1. totals \in Totals /\ RowsTyped(rows) /\ LearntTyped(learnt) /\ points[a] \in Nat /\ rule \in BOOLEAN
  BY BaseTypes, FewActivities
<1>2. learnt' = learnt /\ require' = require BY DEF Submit
<1>3. CASE \E r \in rows[a] : r.start = start
  <2>1. rows' = rows /\ totals' = totals BY <1>3 DEF Submit, Replayed
  <2>2. \A q \in Quizzes : QuizRows(rows'[q]) BY <2>1 DEF Single
  <2>3. Single' BY <1>2, <2>2, SingleStep
  <2>4. QED BY <1>2, <2>1, <2>3 DEF Credited
<1>4. CASE ~\E r \in rows[a] : r.start = start
  <2>1. Created(a, row) /\ ~ispass(a) BY <1>4 DEF Submit
  <2>2. /\ row \in Attempt /\ row.start = start /\ (row.verified <=> ver)
        /\ row.ispass <=> pct >= COMPLETED_PERCENTAGE /\ (a \in Practices \/ ~require \/ ver)
        /\ row.points = IF a \in Quizzes /\ rule /\ ~row.ispass THEN 0 ELSE points[a]
    <3>1. \E r : r = row OBVIOUS
    <3> HIDE DEF row
    <3>2. QED BY <1>1, <3>1, NewAttemptIs DEF row
  <2>3. a \in Practices => \A r \in rows[a] : r.start <= start
    <3>1. CASE Ordered BY <3>1 DEF Submit
    <3>2. CASE \A p \in Practices : MaxStart[p] <= 1
      <4>1. ASSUME a \in Practices, NEW r \in rows[a] PROVE r.start <= start
        <5>1. r.start = 1 BY <3>2, <4>1, AtMostOnce
        <5>2. QED BY <5>1
      <4>2. QED BY <4>1
    <3>3. QED BY <3>1, <3>2
  <2> HIDE DEF row
  <2>4. \A r \in rows[a] : r.start # row.start BY <1>4, <2>2
  <2>5. PICK old : old = getoldpoints(a, row.points) OBVIOUS
  <2>6. PICK t : t = IF RewardDue(a, row) THEN Rewarded(totals, a, row.points, old) ELSE totals OBVIOUS
  <2>7. /\ old \in Nat \cup {NoOld} /\ t \in Totals
        /\ totals' = Scored(t, a, row.scores)
        /\ RowsTyped(rows') /\ \A b \in Attempted : b # a => rows'[b] = rows[b]
        /\ rows'[a] = rows[a] \cup {row}
    BY <2>1, <2>2, <2>4, <2>5, <2>6, CreatedIs
  <2>8. ASSUME a \in Quizzes
        PROVE  /\ QuizRows(rows'[a])
               /\ \/ t = totals /\ CountedWorth(rows', a) = CountedWorth(rows, a)
                  \/ /\ t = Rewarded(totals, a, row.points, old)
                     /\ Delta(row.points, old) = CountedWorth(rows', a) - CountedWorth(rows, a)
    <3>1. IF row.ispass THEN countedpassclause(row) ELSE row.points = 0
      <4>1. a \notin Practices BY <2>8, ProgressAssumption
      <4>2. QED BY <2>2, <2>8, <4>1 DEF countedpassclause
    <3>2. CountedWorth(rows, a) = Worth(PassRows(rows[a])) /\ CountedWorth(rows', a) = Worth(PassRows(rows'[a]))
      BY <1>1, <2>7, <2>8, CountingTyped DEF CountedWorth
    <3> DEFINE us == rows'[a]
    <3>3. us = rows[a] \cup {row} BY <2>7
    <3> HIDE DEF us
    <3>4. /\ QuizRows(us)
          /\ \/ t = totals /\ Worth(PassRows(us)) = Worth(PassRows(rows[a]))
             \/ /\ t = Rewarded(totals, a, row.points, old)
                /\ Delta(row.points, old) = Worth(PassRows(us)) - Worth(PassRows(rows[a]))
      BY <2>1, <2>2, <2>5, <2>6, <2>8, <3>1, <3>3, QuizAttemptMoves
    <3>5. QED BY <3>2, <3>4 DEF us
  <2>9. Single'
    <3>1. \A q \in Quizzes : q \in Attempted BY FewActivities
    <3>2. \A q \in Quizzes : QuizRows(rows'[q]) BY <2>7, <2>8, <3>1 DEF Single
    <3>3. QED BY <1>2, <3>2, SingleStep
  <2>10. \/ t = totals /\ (a \in Levels \/ CountedWorth(rows', a) = CountedWorth(rows, a))
         \/ /\ t = Rewarded(totals, a, row.points, old)
            /\ a \in Levels \/ Delta(row.points, old) = CountedWorth(rows', a) - CountedWorth(rows, a)
    <3>1. CASE a \in Levels BY <2>6, <3>1
    <3>2. CASE a \in Quizzes BY <2>8, <3>2
    <3>3. CASE a \in Practices
      <4>1. a \notin Quizzes BY <3>3, ProgressAssumption
      <4>2. CountedWorth(rows, a) = Worth(rows[a]) /\ CountedWorth(rows', a) = Worth(rows'[a])
        BY <1>1, <2>7, <4>1, CountingTyped DEF CountedWorth
      <4>3. \A r \in rows[a] : r.start # row.start /\ r.start <= row.start BY <2>2, <2>3, <2>4, <3>3
      <4>4. QED BY <2>2, <2>5, <2>6, <2>7, <4>2, <4>3, NewestMoves
    <3>4. QED BY <3>1, <3>2, <3>3 DEF Attempted
  <2> DEFINE us == rows'
             n == row.points
             m == row.scores
             u == totals'
  <2>11. n \in Nat /\ m \in Nat /\ u = Scored(t, a, m) BY <2>2, <2>7 DEF Attempt
  <2>12. /\ RowsTyped(us) /\ \A b \in Attempted : b # a => us[b] = rows[b]
         /\ \A l \in Lessons : Slack(l) => Held(Counting(us), learnt, l) <= TotalPoints[l]
         /\ \/ t = totals /\ (a \in Levels \/ CountedWorth(us, a) = CountedWorth(rows, a))
            \/ t = Rewarded(totals, a, n, old) /\ (a \in Levels \/ Delta(n, old) = CountedWorth(us, a) - CountedWorth(rows, a))
    BY <1>2, <2>7, <2>10, CountingFits
  <2> HIDE DEF us, n, m, u
  <2>13. CreditedBy(t, Counting(us), learnt) BY <1>1, <2>7, <2>11, <2>12, AttemptCredits DEF Credited
  <2>14. \A l \in Lessons : u.lesson[l].points = t.lesson[l].points BY <2>7, <2>11, ScoredIs DEF Scorelike
  <2>15. CreditedBy(u, Counting(us), learnt) BY <2>13, <2>14, StarsCredit
  <2>16. QED BY <1>2, <2>9, <2>15 DEF Credited, u, us
<1>5. QED BY <1>3, <1>4

(* So does a learning report. *)
LEMMA LearningCredits ==
    ASSUME Base, Base', Single, Credited, NEW a \in Learnings, NEW ended \in BOOLEAN, updatelearningprogress(a, ended)
    PROVE  Single' /\ Credited'
<1>1. PICK old : old = LearningOld(a, ended) OBVIOUS
<1>2. PICK t : t = IF old # NoOld \/ (ended /\ learnt'[a].viewed = 1) THEN Rewarded(totals, a, points[a], old) ELSE totals
  OBVIOUS
<1>3. /\ old \in Nat \cup {NoOld} /\ t \in Totals
      /\ totals' = IF ended THEN addstudentscores(t, LessonOf[a], 0) ELSE t
      /\ \A b \in Learnings : b # a => learnt'[b] = learnt[b]
  BY <1>1, <1>2, LearningIs
<1>4. /\ totals \in Totals /\ RowsTyped(rows) /\ LearntTyped(learnt) /\ points[a] \in Nat /\ a \in Activities
      /\ LessonOf[a] \in Lessons /\ a \notin Levels /\ rows' = rows /\ require' = require
  BY BaseTypes, FewActivities, Places DEF updatelearningprogress
<1>5. PICK d \in Int : /\ Gains(learnt[a], learnt'[a], d)
                       /\ IF old # NoOld \/ (ended /\ learnt'[a].viewed = 1) THEN d = Delta(points[a], old) ELSE d = 0
  BY <1>1, LearningGains
<1>6. Single'
  <2>1. \A q \in Quizzes : QuizRows(rows'[q]) BY <1>4 DEF Single
  <2>2. QED BY <1>4, <2>1, SingleStep
<1> DEFINE un == learnt'
           n == points[a]
           u == totals'
           c == Counting(rows)
<1>7. /\ LearntTyped(un) /\ Gains(learnt[a], un[a], d) /\ (\A b \in Learnings : b # a => un[b] = learnt[b])
      /\ n \in Nat /\ RowsTyped(c) /\ CreditedBy(totals, c, learnt)
      /\ (t = totals /\ d = 0) \/ (t = Rewarded(totals, a, n, old) /\ d = Delta(n, old))
      /\ \A l \in Lessons : Slack(l) => Held(c, un, l) <= TotalPoints[l]
  BY <1>2, <1>3, <1>4, <1>5, CountingFits, CountingTyped DEF Credited
<1>8. u = (IF ended THEN addstudentscores(t, LessonOf[a], 0) ELSE t) BY <1>3
<1> HIDE DEF un, n, u, c
<1>9. LessonHoldsMore(c, learnt, c, un, a, d)
  <2>1. \A l \in Lessons : Held(c, un, l) = Held(c, learnt, l) + (IF a \notin Levels /\ LessonOf[a] = l THEN d ELSE 0)
    BY <1>4, <1>7, LearntHeldMoves
  <2>2. QED BY <2>1 DEF LessonHoldsMore
<1>10. CreditedBy(t, c, un) BY <1>3, <1>4, <1>7, <1>9, RewardCredits
<1>11. CreditedBy(u, c, un)
  <2>1. CASE ~ended BY <1>8, <1>10, <2>1
  <2>2. CASE ended
    <3> DEFINE l0 == LessonOf[a]
    <3>1. u = addstudentscores(t, l0, 0) /\ l0 \in Lessons /\ 0 \in Nat BY <1>4, <1>8, <2>2
    <3> HIDE DEF l0
    <3>2. LessonStarred(t, l0, 0, u) BY <1>3, <3>1, LessonStarsAre
    <3>3. \A l \in Lessons : u.lesson[l].points = t.lesson[l].points BY <3>2 DEF LessonStarred, Scorelike
    <3>4. QED BY <1>10, <3>3, StarsCredit
  <2>3. QED BY <2>1, <2>2
<1>12. QED BY <1>4, <1>6, <1>11 DEF Credited, u, un, c

(* Under the rule the recalculation finds nothing to take back. *)
LEMMA RecalculateCredits ==
    ASSUME Base, Single, Credited, Recalculate
    PROVE  Single' /\ Credited'
<1>1. /\ \A l \in Lessons : totals'.lesson[l] = ReducedLesson(l)
      /\ RowsTyped(rows')
      /\ \A a \in Attempted \ Quizzes : rows'[a] = rows[a]
      /\ \A q \in Quizzes : rows'[q] = IF OnlyUncounted(q) THEN rows[q] ELSE {ZeroedRow(r) : r \in rows[q]}
  BY RecalculateIs
<1>2. RowsTyped(rows) /\ learnt' = learnt /\ require' = require BY BaseTypes DEF Recalculate
<1>3. ASSUME NEW q \in Quizzes PROVE rows'[q] = rows[q]
  <2>1. rows[q] \subseteq Attempt /\ QuizRows(rows[q]) BY <1>2, FewActivities DEF RowsTyped, Single
  <2>2. ASSUME NEW r \in rows[q] PROVE ZeroedRow(r) = r
    <3>1. r \in Attempt /\ (~r.ispass => r.points = 0) BY <2>1 DEF QuizRows
    <3>2. r.points = 0 => Repointed(r, 0) = r BY <3>1 DEF Repointed, Attempt
    <3>3. QED BY <3>1, <3>2 DEF ZeroedRow
  <2>3. {ZeroedRow(r) : r \in rows[q]} = rows[q] BY <2>2
  <2>4. QED BY <1>1, <2>3
<1>4. rows' = rows
  <2>1. \A a \in Attempted : rows'[a] = rows[a] BY <1>1, <1>3
  <2>2. QED BY <1>1, <1>2, <2>1 DEF RowsTyped
<1>5. Single'
  <2>1. \A q \in Quizzes : QuizRows(rows'[q]) BY <1>4 DEF Single
  <2>2. QED BY <1>2, <2>1, SingleStep
<1>6. ASSUME NEW l \in Lessons PROVE totals'.lesson[l].points = totals.lesson[l].points
  <2> DEFINE as == {q \in In(l, Quizzes) : NoPass(q)}
  <2>1. as \subseteq Quizzes /\ as \subseteq Attempted BY FewActivities
  <2>2. ASSUME NEW q \in as PROVE Worth(rows[q]) = 0
    <3>1. NoPass(q) /\ q \in Quizzes /\ q \in Attempted BY <2>1
    <3>2. \A r \in rows[q] : r.points = 0 BY <3>1 DEF NoPass, Single, QuizRows
    <3>3. rows[q] \subseteq Attempt /\ Distinct(rows[q]) /\ rows[q] # {} BY <1>2, <3>1 DEF RowsTyped, NoPass
    <3>4. QED BY <3>2, <3>3, WorthTyped
  <2>3. Amount(l) = HeldByAttempts(rows, as) BY DEF Amount
  <2> HIDE DEF as
  <2>4. Amount(l) = 0 BY <1>2, <2>1, <2>2, <2>3, HeldSame
  <2>5. PICK u : u = ReducedLesson(l) OBVIOUS
  <2>6. u.points = totals.lesson[l].points BY <2>4, <2>5, ReducedLessonIs
  <2>7. QED BY <1>1, <2>5, <2>6
<1> DEFINE u == totals'
<1>7. CreditedBy(u, Counting(rows), learnt) BY <1>6, StarsCredit DEF Credited
<1>8. QED BY <1>2, <1>4, <1>5, <1>7 DEF Credited

(* The inductive invariant. *)
CreditIInv ==
    /\ Base /\ Starts
    /\ Ordered => Lined
    /\ rule => Single /\ Credited

(* Nothing is credited at first, and nothing held. *)
LEMMA InitCredits == Init => CreditIInv
<1> SUFFICES ASSUME Init PROVE CreditIInv
  OBVIOUS
<1>1. Base BY InitBase
<1>2. (\A a \in Attempted : rows[a] = {}) /\ \A a \in Learnings : learnt[a] = NotSeen BY DEF Init
<1>3. Starts /\ Lined BY <1>2 DEF Starts, Lined, LinedAt, Passes
<1>4. Single BY <1>2, FewActivities DEF Single, QuizRows
<1>5. Credited
  <2> DEFINE c == Counting(rows)
  <2>1. RowsTyped(c) /\ LearntTyped(learnt) /\ \A a \in Attempted : c[a] = {}
    BY <1>1, <1>2, BaseTypes, CountingTyped
  <2> HIDE DEF c
  <2>2. ASSUME NEW l \in Lessons PROVE totals.lesson[l].points = Held(c, learnt, l)
    <3> DEFINE f == [a \in Learnings |-> IF learnt[a].viewed > 0 THEN learnt[a].points ELSE 0]
               R == In(l, Learnings)
               P == In(l, Practices \cup Quizzes)
    <3>1. R \subseteq Learnings /\ IsFiniteSet(R) /\ P \subseteq Attempted BY FewActivities
    <3>2. \A a \in R : f[a] = 0 BY <1>2, <3>1 DEF NotSeen
    <3>3. HeldByLearning(learnt, R) = SumFunctionOnSet(f, R) BY DEF HeldByLearning
    <3>4. Held(c, learnt, l) = HeldByLearning(learnt, R) + HeldByAttempts(c, P) BY DEF Held
    <3> HIDE DEF f, R, P
    <3>5. HeldByLearning(learnt, R) = 0 BY <3>1, <3>2, <3>3, SumZero
    <3>6. \A a \in P : Worth(c[a]) = 0 BY <2>1, <3>1 DEF Worth
    <3>7. HeldByAttempts(c, P) = 0 BY <2>1, <3>1, <3>6, HeldSame
    <3>8. totals.lesson[l] = NoRow /\ NoRow.points = 0 BY RowFacts DEF Init
    <3>9. 0 + 0 = 0 OBVIOUS
    <3>10. QED BY <3>4, <3>5, <3>7, <3>8, <3>9
  <2>3. QED BY <2>2 DEF Credited, CreditedBy, c
<1>6. QED BY <1>1, <1>3, <1>4, <1>5 DEF CreditIInv

(* Every step keeps it. *)
LEMMA NextCredits ==
    ASSUME Steady, Ordered \/ \A p \in Practices : MaxStart[p] <= 1, CreditIInv, [RecalcNext]_vars
    PROVE  CreditIInv'
<1>1. Base /\ Base' /\ Starts /\ Starts' /\ (Ordered => Lined) /\ (rule => Single /\ Credited)
  BY NextBase, NextStarts DEF CreditIInv
<1>2. Ordered => Lined'
  <2>1. Ordered => InOrder BY DEF InOrder, Steady
  <2>2. QED BY <1>1, <2>1, NextLined
<1>3. PracticesLined
  <2>1. ASSUME NEW p \in Practices PROVE LinedAt(p)
    <3>1. p \in Attempted BY FewActivities
    <3>2. QED BY <1>1, <3>1, AtMostOnce DEF Lined
  <2>2. QED BY <2>1 DEF PracticesLined
<1>4. rule' = rule
  <2>1. ~SwitchRule BY DEF Steady, SwitchRule
  <2>2. QED BY <2>1 DEF RecalcNext, Next, PassedAgain, Submit, updatelearningprogress, ImportContent, SwitchRequire,
                        Recalculate, vars
<1>5. ASSUME rule PROVE Single' /\ Credited'
  <2>1. Single /\ Credited BY <1>1, <1>5
  <2>2. ASSUME NEW a \in Attempted, PassedAgain(a) PROVE Single' /\ Credited'
    BY <1>1, <1>3, <1>5, <2>1, <2>2, PassedAgainCredits
  <2>3. ASSUME NEW a \in Attempted, NEW start \in 1..MaxStart[a], NEW pct \in Percentages, NEW ver \in MayBeVerified(a),
               Submit(a, start, pct, ver)
        PROVE  Single' /\ Credited'
    <3>1. start \in Nat \ {0} /\ start <= MaxStart[a]
      <4>1. MaxStart[a] \in Nat BY ProgressAssumption
      <4>2. QED BY <4>1
    <3>2. ver \in BOOLEAN BY DEF MayBeVerified
    <3>3. QED BY <1>1, <1>5, <2>1, <2>3, <3>1, <3>2, SubmitCredits
  <2>4. ASSUME NEW a \in Learnings, NEW ended \in BOOLEAN, updatelearningprogress(a, ended)
        PROVE  Single' /\ Credited'
    BY <1>1, <2>1, <2>4, LearningCredits
  <2>5. CASE (\E a \in Activities : ImportContent(a)) \/ UNCHANGED vars
    <3>1. rows' = rows /\ learnt' = learnt /\ totals' = totals /\ require' = require BY <2>5 DEF ImportContent, vars
    <3>2. \A q \in Quizzes : QuizRows(rows'[q]) BY <2>1, <3>1 DEF Single
    <3>3. QED BY <2>1, <3>1, <3>2, SingleStep DEF Credited
  <2>6. CASE Recalculate BY <1>1, <2>1, <2>6, RecalculateCredits
  <2>7. ~SwitchRule /\ ~SwitchRequire BY DEF Steady, SwitchRule, SwitchRequire
  <2>8. QED BY <2>2, <2>3, <2>4, <2>5, <2>6, <2>7 DEF RecalcNext, Next
<1>6. QED BY <1>1, <1>2, <1>4, <1>5 DEF CreditIInv

(***************************************************************************)
(* Under the pass rule a quiz is worth to its lesson what its one counted  *)
(* pass holds, however failed attempts, late attempts, replays, re-credited*)
(* passes, re-weightings and recalculations are interleaved.  For an       *)
(* organisation whose rule and whose grading requirement stay as they are; *)
(* quizzes may be attempted in any order, practices in order or once.      *)
(***************************************************************************)
THEOREM PassAlwaysCreditedOnce ==
    ASSUME Steady, Ordered \/ \A p \in Practices : MaxStart[p] <= 1
    PROVE  RecalcSpec => []PassCreditedOnce
<1>1. Init => CreditIInv BY InitCredits
<1>2. CreditIInv /\ [RecalcNext]_vars => CreditIInv' BY NextCredits
<1>3. CreditIInv => PassCreditedOnce
  <2>1. ASSUME CreditIInv, rule, NEW l \in Lessons, Slack(l)
        PROVE  totals.lesson[l].points =
                 HeldByLearning(learnt, In(l, Learnings)) + HeldByAttempts(rows, In(l, Practices)) + PassesHold(l)
    <3>1. Base /\ Single /\ Credited BY <2>1 DEF CreditIInv
    <3>2. totals.lesson[l].points = Held(Counting(rows), learnt, l) BY <2>1, <3>1 DEF Credited, CreditedBy
    <3>3. QED BY <2>1, <3>1, <3>2, CountingHolds
  <2>2. QED BY <2>1 DEF PassCreditedOnce, PointsOf
<1>4. QED BY <1>1, <1>2, <1>3, PTL DEF RecalcSpec

(* The tables keep their types. *)
THEOREM TypesAlwaysHold == RecalcSpec => []TypeOK
<1>1. Init => Base BY InitBase
<1>2. Base /\ [RecalcNext]_vars => Base' BY NextBase
<1>3. Base => TypeOK BY DEF Base
<1>4. QED BY <1>1, <1>2, <1>3, PTL DEF RecalcSpec

-----------------------------------------------------------------------------
(* The scoring arithmetic. *)

(* The walk stays inside the range where the lemma applies. *)
LEMMA WalkTypes == WalkSpec => []WalkTypeOK
  <1>1. WalkInit => WalkTypeOK
    BY MaxCountAssumption DEF WalkInit, WalkTypeOK
  <1>2. WalkTypeOK /\ [WalkNext]_walkVars => WalkTypeOK'
    BY MaxCountAssumption DEF WalkTypeOK, WalkNext, OneMoreRight, OneMoreQuestion, walkVars
  <1>3. QED BY <1>1, <1>2, PTL DEF WalkSpec

(***************************************************************************)
(* For every number of questions below 4000 and every number of marks,     *)
(* quizPassResult and practicePassResult pass exactly the attempts with at *)
(* least four fifths of the active questions right: the two-decimal        *)
(* rounding never lifts a failing attempt over the line nor drops a        *)
(* passing one below it, and calculatescore stars exactly the passes.      *)
(***************************************************************************)
THEOREM PassIsExactAlways == WalkSpec => []PassIsExact
  <1>1. WalkTypeOK => PassIsExact
    <2> SUFFICES ASSUME WalkTypeOK PROVE PassIsExact
      OBVIOUS
    <2>1. marks \in Nat /\ active \in Nat /\ active < 4000
      BY MaxCountAssumption DEF WalkTypeOK
    <2>2. CASE active = 0
      <3>1. /\ quizPassResult(marks, active).ispass = FALSE
            /\ quizPassResult(marks, active).percentage = 0
            /\ practicePassResult(marks, active).ispass = TRUE
        BY <2>2 DEF quizPassResult, practicePassResult
      <3>2. /\ (active > 0 /\ 5 * marks >= 4 * active) = FALSE
            /\ (5 * marks >= 4 * active) = TRUE
        BY <2>1, <2>2
      <3>3. (calculatescore(0) > 0) = FALSE
        BY StarsFromEighty
      <3>4. QED BY <3>1, <3>2, <3>3 DEF PassIsExact
    <2>3. CASE active # 0
      <3> DEFINE pct == CapAt100(ToFixed2(marks, active))
      <3>1. 0 < active /\ active > 0 /\ ~(active <= 0)
        BY <2>1, <2>3
      <3>2. (pct >= 8000) <=> (5 * marks >= 4 * active)
        BY <2>1, <3>1, RoundedPassIsExact
      <3>3. /\ quizPassResult(marks, active).ispass = (pct >= 8000)
            /\ quizPassResult(marks, active).percentage = pct
            /\ practicePassResult(marks, active).ispass = (pct >= 8000)
        BY <3>1 DEF quizPassResult, practicePassResult, COMPLETED_PERCENTAGE
      <3>7. pct \in Int
        BY <2>1, <3>1 DEF CapAt100, ToFixed2
      <3> HIDE DEF pct
      <3>4. (pct >= 8000) = (5 * marks >= 4 * active)
        BY <3>2
      <3>5. (active > 0 /\ 5 * marks >= 4 * active) = (5 * marks >= 4 * active)
        BY <3>1
      <3>6. (calculatescore(pct) > 0) = (pct >= 8000)
        BY <3>7, StarsFromEighty
      <3>8. QED BY <3>3, <3>4, <3>5, <3>6 DEF PassIsExact
    <2>4. QED BY <2>2, <2>3
  <1>2. QED BY <1>1, WalkTypes, PTL

(***************************************************************************)
(* For every total below 4000 the `completed` flag of a lesson row without *)
(* its own passing_points says the same as its stored percentage.          *)
(***************************************************************************)
THEOREM CompletedAgreesAlways == WalkSpec => []CompletedAgreesWithProgress
  <1>1. WalkTypeOK => CompletedAgreesWithProgress
    <2> SUFFICES ASSUME WalkTypeOK, active > 0
                 PROVE  LessonCompleted(marks, 0, active)
                          <=> percentCompleted(progressPercent(marks, active))
      BY DEF CompletedAgreesWithProgress
    <2>1. marks \in Nat /\ active \in Nat /\ 0 < active /\ active < 4000
      BY MaxCountAssumption DEF WalkTypeOK
    <2>2. (ToFixed2(marks, active) >= 8000) <=> (5 * marks >= 4 * active)
      BY <2>1, RoundedPassIsExact
    <2> DEFINE mark == (active * 80 + 99) \div 100
    <2>3. lessonPassMark(0, active) = mark
      BY <2>1 DEF lessonPassMark
    <2>4. mark \in Int /\ mark >= 0 /\ (marks >= mark <=> 5 * marks >= 4 * active)
      BY <2>1
    <2>5. LessonCompleted(marks, 0, active) <=> 5 * marks >= 4 * active
      BY <2>3, <2>4 DEF LessonCompleted, Unreachable
    <2>6. QED
      BY <2>2, <2>5 DEF percentCompleted, progressPercent, COMPLETED_PERCENTAGE
  <1>2. QED BY <1>1, WalkTypes, PTL

=============================================================================
