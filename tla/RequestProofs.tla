---------------------------- MODULE RequestProofs ----------------------------
(***************************************************************************)
(* What one request may claim and what one request may see.                *)
(*                                                                         *)
(* GradeSubmission: for any container, any submission and any content      *)
(* import during the request, a verified result counts what the server     *)
(* found right, a required pass is earned, and items sent twice change     *)
(* nothing.                                                                *)
(*                                                                         *)
(* Access: for any rows, tokens, filters and writes, content routes answer *)
(* with the caller's organisation's content, reports stay in their scope,  *)
(* lists and paths agree, and so do the screens that count what is done.   *)
(* The inductive invariant is AccessInv, below.                            *)
(***************************************************************************)
EXTENDS GradeSubmission, Access, NumberProofs

(* GradeSubmission. *)

(* Once scored, the stored verdict is the one of what was read, and nothing changes any more. *)
Scored == phase = "scored" => result = Verdict(kind, mode, require, items, gradedOn, active)

GradeInv == TypeOK /\ Scored

-----------------------------------------------------------------------------
(* Sets of questions are finite, and no larger than the container. *)
LEMMA Subsets ==
    ASSUME NEW S, S \subseteq Questions
    PROVE  /\ IsFiniteSet(S) /\ Cardinality(S) \in Nat /\ Cardinality(S) <= Cardinality(Questions)
           /\ Cardinality(S) = 0 <=> S = {}
  BY GradeAssumption, FS_Subset, FS_CardinalityType, FS_EmptySet

(* A percentage, in hundredths, and a number of questions. *)
Hundredths == 0..10000
Counts == 0..Cardinality(Questions)

(* The percentage of n > 0 questions is between 0 and 100. *)
LEMMA PercentageRange ==
    ASSUME NEW m \in Nat, NEW n \in Nat, n > 0
    PROVE  quizPassResult(m, n).percentage \in Hundredths /\ practicePassResult(m, n).percentage \in Hundredths
<1> DEFINE a == 20000 * m + n
           d == 2 * n
<1>1. a \in Nat /\ d \in Nat /\ d > 0 OBVIOUS
<1> HIDE DEF a, d
<1>2. a \div d >= 0 BY <1>1, DivAtLeast
<1>3. a \div d \in Int BY <1>1
<1>4. ToFixed2(m, n) = a \div d BY DEF ToFixed2, a, d
<1> DEFINE p == ToFixed2(m, n)
<1>5. p \in Int /\ p >= 0 BY <1>2, <1>3, <1>4
<1> HIDE DEF p
<1>6. CapAt100(p) \in Hundredths BY ONLY <1>5 DEF CapAt100, Hundredths
<1>7. quizPassResult(m, n).percentage = CapAt100(p) /\ practicePassResult(m, n).percentage = CapAt100(p)
  BY DEF quizPassResult, practicePassResult, p
<1>8. QED BY <1>6, <1>7

(* What the four scorers return. *)
LEMMA ScoreTyped ==
    ASSUME NEW k, NEW m, NEW s, NEW known, NEW activeids, activeids \subseteq Questions
    PROVE  /\ score(k, m, s, known, activeids).marks \in Counts
           /\ score(k, m, s, known, activeids).percentage \in Hundredths
           /\ score(k, m, s, known, activeids).marks = Cardinality(CorrectQuestions(m, s, known, activeids))
<1> DEFINE C == CorrectQuestions(m, s, known, activeids)
           marks == Cardinality(C)
           n == Cardinality(activeids)
<1>1. C \subseteq activeids BY DEF CorrectQuestions
<1>2. marks \in 0..Cardinality(Questions) /\ marks \in Nat /\ n \in Nat BY <1>1, Subsets
<1>3. n = 0 => marks = 0 BY <1>1, Subsets
<1>4. score(k, m, s, known, activeids) = IF k = "practice" THEN practicePassResult(marks, n) ELSE quizPassResult(marks, n)
  BY DEF score
<1> HIDE DEF C, marks, n
<1>5. n > 0 => quizPassResult(marks, n).percentage \in Hundredths /\ practicePassResult(marks, n).percentage \in Hundredths
  BY <1>2, PercentageRange
<1>6. n = 0 => /\ quizPassResult(marks, n) = [marks |-> 0, percentage |-> 0, ispass |-> FALSE]
               /\ practicePassResult(marks, n) = [marks |-> marks, percentage |-> 10000, ispass |-> TRUE]
  BY DEF quizPassResult, practicePassResult
<1>7. n > 0 => quizPassResult(marks, n).marks = marks /\ practicePassResult(marks, n).marks = marks
  BY <1>2 DEF quizPassResult, practicePassResult
<1>8. Cardinality(Questions) \in Nat BY Subsets
<1>9. 0 \in Hundredths /\ 10000 \in Hundredths BY DEF Hundredths
<1>10. n = 0 \/ n > 0 BY <1>2
<1>11. score(k, m, s, known, activeids).percentage \in Hundredths BY <1>4, <1>5, <1>6, <1>9, <1>10
<1>12. score(k, m, s, known, activeids).marks = marks BY <1>3, <1>4, <1>6, <1>7, <1>10
<1>13. QED BY <1>2, <1>11, <1>12 DEF marks, C, Counts

-----------------------------------------------------------------------------
(* Confining keeps a sequence of items, no longer than what was sent. *)
LEMMA Confining ==
    ASSUME NEW S, NEW s \in Seq(S), NEW ids
    PROVE  keptItems(s, ids) \in Seq(S) /\ Len(keptItems(s, ids)) <= Len(s)
<1> DEFINE D(f, n) == [i \in 0..n |-> IF i = 0 THEN <<>> ELSE IF s[i].q \in ids THEN Append(f[i-1], s[i]) ELSE f[i-1]]
           kept == CHOOSE f : f = D(f, Len(s))
<1>1. \E f : f = D(f, Len(s))
  <2> DEFINE T == {n \in 0..Len(s) : ~\E f : f = D(f, n)}
  <2>0. Len(s) \in 0..Len(s) /\ T \subseteq Nat OBVIOUS
  <2>1. SUFFICES ASSUME T # {} PROVE FALSE
    <3>1. T = {} => Len(s) \notin T OBVIOUS
    <3>2. QED BY <2>0, <3>1
  <2>2. PICK n \in T : \A m \in T : n <= m
    <3> HIDE DEF T
    <3>1. QED BY <2>0, <2>1, LeastNumber
  <2>3. n # 0
    <3>1. [i \in 0..0 |-> <<>>] = D([i \in 0..0 |-> <<>>], 0) OBVIOUS
    <3>2. (\E f : f = D(f, 0)) BY <3>1
    <3>3. 0 \notin T BY <3>2
    <3>4. QED BY <2>2, <3>3
  <2>4. PICK f : f = D(f, n-1)
    <3>1. n \in 0..Len(s) BY <2>2
    <3>2. n-1 \in 0..Len(s) BY <2>3, <3>1
    <3>3. n-1 \notin T
      <4> HIDE DEF T
      <4>1. QED BY <2>2, <3>1
    <3>4. QED BY <3>2, <3>3
  <2> DEFINE g == [i \in 0..n |-> IF i < n THEN f[i] ELSE IF s[n].q \in ids THEN Append(f[n-1], s[n]) ELSE f[n-1]]
  <2>5. \A i \in 0..n : g[i] = D(g, n)[i]
    <3> SUFFICES ASSUME NEW i \in 0..n PROVE g[i] = D(g, n)[i] OBVIOUS
    <3>1. CASE i = n BY <2>3, <3>1
    <3>2. CASE i < n
      <4>1. g[i] = f[i] BY <3>2
      <4>2. f[i] = D(f, n-1)[i] BY <2>4
      <4>3. i # 0 => g[i-1] = f[i-1] BY <3>2
      <4>4. QED BY <3>2, <4>1, <4>2, <4>3
    <3>3. QED BY <3>1, <3>2
  <2>6. g = D(g, n) BY <2>5
  <2> HIDE DEF g
  <2>7. QED BY <2>2, <2>6
<1>2. kept = D(kept, Len(s)) BY <1>1
<1>3. keptItems(s, ids) = kept[Len(s)] BY DEF keptItems
<1> HIDE DEF kept
<1>4. \A n \in 0..Len(s) : kept[n] \in Seq(S) /\ Len(kept[n]) <= n
  <2> DEFINE T == {n \in 0..Len(s) : ~(kept[n] \in Seq(S) /\ Len(kept[n]) <= n)}
  <2>0. T \subseteq Nat OBVIOUS
  <2>1. SUFFICES ASSUME T # {} PROVE FALSE OBVIOUS
  <2>2. PICK n \in T : \A m \in T : n <= m
    <3> HIDE DEF T
    <3>1. QED BY <2>0, <2>1, LeastNumber
  <2>3. kept[n] = IF n = 0 THEN <<>> ELSE IF s[n].q \in ids THEN Append(kept[n-1], s[n]) ELSE kept[n-1]
    BY <1>2
  <2>4. CASE n = 0
    <3>1. kept[n] = <<>> BY <2>3, <2>4
    <3>2. <<>> \in Seq(S) /\ Len(<<>>) = 0 OBVIOUS
    <3>3. QED BY <2>2, <2>4, <3>1, <3>2
  <2>5. CASE n # 0
    <3>1. kept[n-1] \in Seq(S) /\ Len(kept[n-1]) <= n-1 BY <2>2, <2>5
    <3>2. s[n] \in S BY <2>2, <2>5
    <3> DEFINE k == kept[n-1]
               r == kept[n]
    <3>3. r = Append(k, s[n]) \/ r = k BY <2>3, <2>5
    <3>4. k \in Seq(S) /\ Len(k) <= n-1 BY <3>1
    <3>5. n \in Nat BY <2>2
    <3> HIDE DEF k, r
    <3>6. r \in Seq(S) /\ Len(r) <= n BY ONLY <3>2, <3>3, <3>4, <3>5
    <3>7. QED BY <2>2, <3>6 DEF r
  <2>6. QED BY <2>4, <2>5
<1>5. QED BY <1>3, <1>4
-----------------------------------------------------------------------------
(* Before anything is read. *)
LEMMA GradeInvInit == Init => GradeInv
  BY Subsets, GradeAssumption DEF Init, GradeInv, TypeOK, Scored, NoResult

(* Every step of the request, and an import meanwhile, keeps the types and the verdict. *)
LEMMA GradeInvKept == GradeInv /\ [Next]_vars => GradeInv'
<1> SUFFICES ASSUME GradeInv, [Next]_vars PROVE GradeInv' OBVIOUS
<1>1. CASE AddItem
  <2>1. items' \in Seq(Item) /\ Len(items') <= MaxItems BY <1>1, GradeAssumption DEF AddItem, GradeInv, TypeOK
  <2>2. QED BY <1>1, <2>1 DEF AddItem, content, config, GradeInv, TypeOK, Scored
<1>2. CASE confineToContainer
  <2>1. keptItems(items, own) \in Seq(Item) /\ Len(keptItems(items, own)) <= Len(items)
    BY Confining DEF GradeInv, TypeOK
  <2>2. Len(keptItems(items, own)) <= MaxItems BY <2>1, GradeAssumption DEF GradeInv, TypeOK
  <2>3. QED BY <1>2, <2>1, <2>2 DEF confineToContainer, content, config, GradeInv, TypeOK, Scored
<1>3. CASE ReadGradable BY <1>3 DEF ReadGradable, content, config, GradeInv, TypeOK, Scored
<1>4. CASE ScoreAndStore
  <2>1. Scored' BY <1>4 DEF ScoreAndStore, content, config, Scored
  <2>2. result' = Verdict(kind, mode, require, items, gradedOn, active) BY <1>4 DEF ScoreAndStore
  <2>3. result'.marks \in 0..Cardinality(Questions) /\ result'.percentage \in 0..10000
    <3>1. active \subseteq Questions BY DEF GradeInv, TypeOK
    <3> DEFINE sc == score(kind, mode, items, gradedOn, active)
    <3>2. sc.marks \in Counts /\ sc.percentage \in Hundredths BY <3>1, ScoreTyped
    <3>3. result'.marks = sc.marks /\ result'.percentage = sc.percentage BY <2>2 DEF Verdict
    <3> HIDE DEF sc
    <3>4. QED BY <3>2, <3>3 DEF Counts, Hundredths
  <2>4. UNCHANGED <<kind, mode, require, own, active, imports, items, gradedOn>> /\ phase' = "scored"
    BY <1>4 DEF ScoreAndStore, content, config
  <2>5. TypeOK' BY <2>3, <2>4 DEF GradeInv, TypeOK
  <2>6. QED BY <2>1, <2>5 DEF GradeInv
<1>5. CASE ImportContent BY <1>5, GradeAssumption DEF ImportContent, config, GradeInv, TypeOK, Scored
<1>6. CASE UNCHANGED vars BY <1>6 DEF vars, GradeInv, TypeOK, Scored
<1>7. QED BY <1>1, <1>2, <1>3, <1>4, <1>5, <1>6 DEF Next

(* The invariant holds throughout. *)
LEMMA GradeInvariant == Spec => []GradeInv
  BY GradeInvInit, GradeInvKept, PTL DEF Spec

(* The types, and an active set among the container's own, whatever an import does meanwhile. *)
THEOREM GradeTypes == Spec => []TypeOK
<1>1. GradeInv => TypeOK BY DEF GradeInv
<1>2. QED BY GradeInvariant, <1>1, PTL

-----------------------------------------------------------------------------
(* One item per question counts. *)
LEMMA FirstIsOne ==
    ASSUME NEW s \in Seq(Item), NEW i \in FirstItems(s), NEW k \in FirstItems(s), s[i].q = s[k].q
    PROVE  i = k
<1>1. i \in 1..Len(s) /\ k \in 1..Len(s) BY DEF FirstItems
<1>2. ~(i < k) /\ ~(k < i) BY <1>1 DEF FirstItems
<1>3. QED BY <1>1, <1>2

(* On a verified result what counts as correct is what the server found right. *)
LEMMA VerifiedCountsRight ==
    ASSUME NEW s \in Seq(Item), NEW known, verified("enforce", s, known)
    PROVE  CorrectQuestions("enforce", s, known, known)
             = {q \in known : \E i \in FirstItems(s) : s[i].q = q /\ s[i].answer = "right"}
<1>1. ASSUME NEW q \in known, NEW i \in FirstItems(s), s[i].q = q
      PROVE  answerrow("enforce", s[i], known).iscorrect <=> s[i].answer = "right"
  <2>1. PICK k \in FirstItems(s) : s[k].q = q /\ classify(s[k], known) = "gradable" BY DEF verified
  <2>2. classify(s[i], known) = "gradable" BY <1>1, <2>1, FirstIsOne
  <2>3. effectiveIscorrect("enforce", s[i], "gradable") = (s[i].answer = "right") BY DEF effectiveIscorrect
  <2>4. answerrow("enforce", s[i], known).iscorrect = effectiveIscorrect("enforce", s[i], "gradable")
    BY <2>2 DEF answerrow
  <2>5. QED BY <2>3, <2>4
<1>2. scoringItems("enforce", s) = FirstItems(s) BY DEF scoringItems
<1>3. QED BY <1>1, <1>2 DEF CorrectQuestions

EarnedAt == {q \in active : EarnedOn(q)}

(* A verified result was graded by the server, and counts what it found right. *)
LEMMA VerifiedResult ==
    ASSUME GradeInv, phase = "scored", result.verified, gradedOn = active
    PROVE  mode = "enforce" /\ CorrectQuestions(mode, items, gradedOn, active) = EarnedAt
<1>1. result = Verdict(kind, mode, require, items, gradedOn, active) BY DEF GradeInv, Scored
<1>2. verified(mode, items, gradedOn) BY <1>1 DEF Verdict
<1>3. mode = "enforce" BY <1>2 DEF verified
<1>4. items \in Seq(Item) BY DEF GradeInv, TypeOK
<1>5. QED BY <1>2, <1>3, <1>4, VerifiedCountsRight DEF EarnedAt, EarnedOn

(***************************************************************************)
(* Whatever the client claims, repeats or malforms, the marks of a verified*)
(* result are the number of questions the server itself found right.       *)
(***************************************************************************)
THEOREM MarksAreEarned == Spec => []VerifiedMarksAreEarned
<1>1. ASSUME GradeInv, phase = "scored", result.verified, gradedOn = active
      PROVE  result.marks = Cardinality(EarnedAt)
  <2>1. result = Verdict(kind, mode, require, items, gradedOn, active) BY <1>1 DEF GradeInv, Scored
  <2>2. active \subseteq Questions BY <1>1 DEF GradeInv, TypeOK
  <2> DEFINE sc == score(kind, mode, items, gradedOn, active)
  <2>3. sc.marks = Cardinality(CorrectQuestions(mode, items, gradedOn, active)) BY <2>2, ScoreTyped
  <2>4. result.marks = sc.marks BY <2>1 DEF Verdict
  <2> HIDE DEF sc
  <2>5. QED BY <1>1, <2>3, <2>4, VerifiedResult
<1>2. GradeInv => VerifiedMarksAreEarned BY <1>1 DEF VerifiedMarksAreEarned, EarnedAt
<1>3. QED BY GradeInvariant, <1>2, PTL

(* The range in which a rounded percentage models toFixed and decides exactly. *)
SmallActivity == Cardinality(Questions) < 4000

(***************************************************************************)
(* Where the server requires graded answers, a quiz is passed only with    *)
(* four fifths of its active questions right by the server's own grading:  *)
(* neither the client's claims nor the rounding make a pass.               *)
(***************************************************************************)
THEOREM RequiredPassesAreEarned ==
    ASSUME SmallActivity
    PROVE  Spec => []RequiredPassIsEarned
<1>1. ASSUME GradeInv, phase = "scored", mode = "enforce", require, kind = "quiz", gradedOn = active, result.ispass
      PROVE  active # {} /\ 5 * Cardinality(EarnedAt) >= 4 * Cardinality(active)
  <2>1. result = Verdict(kind, mode, require, items, gradedOn, active) BY <1>1 DEF GradeInv, Scored
  <2>2. active \subseteq Questions BY <1>1 DEF GradeInv, TypeOK
  <2> DEFINE sc == score(kind, mode, items, gradedOn, active)
             v == verified(mode, items, gradedOn)
             m == Cardinality(EarnedAt)
             n == Cardinality(active)
  <2>3. result.ispass = GatedPass(kind, mode, require, v, sc.ispass) /\ result.verified = v BY <2>1 DEF Verdict
  <2>4. v /\ sc.ispass
    <3>1. kind # "practice" /\ mode = "enforce" /\ require BY <1>1
    <3>2. result.ispass = IF ~v THEN FALSE ELSE sc.ispass BY <2>3, <3>1 DEF GatedPass
    <3> HIDE DEF sc, v
    <3>3. QED BY <1>1, <3>2
  <2>5. CorrectQuestions(mode, items, gradedOn, active) = EarnedAt BY <1>1, <2>3, <2>4, VerifiedResult
  <2>6. sc = quizPassResult(m, n) BY <1>1, <2>5 DEF score
  <2>7. m \in Nat /\ n \in Nat /\ n < 4000
    <3>1. EarnedAt \subseteq Questions BY <2>2 DEF EarnedAt
    <3>2. Cardinality(Questions) \in Nat BY Subsets
    <3>3. QED BY <2>2, <3>1, <3>2, Subsets DEF SmallActivity
  <2> HIDE DEF sc, v, m, n
  <2>8. n > 0 BY <2>4, <2>6, <2>7 DEF quizPassResult
  <2>9. 5 * m >= 4 * n
    <3> DEFINE pct == CapAt100(ToFixed2(m, n))
               passes == pct >= 8000
    <3>1. 0 < n /\ ~(n <= 0) BY <2>7, <2>8
    <3>2. passes <=> (5 * m >= 4 * n) BY <2>7, <3>1, RoundedPassIsExact
    <3>3. quizPassResult(m, n).ispass = passes BY <3>1 DEF quizPassResult, COMPLETED_PERCENTAGE
    <3>4. quizPassResult(m, n).ispass BY <2>4, <2>6
    <3> HIDE DEF pct, passes
    <3>5. passes BY <3>3, <3>4
    <3>6. QED BY <3>2, <3>5
  <2>10. active # {} BY <2>2, <2>8, Subsets DEF n
  <2>11. QED BY <2>9, <2>10 DEF m, n
<1>2. GradeInv => RequiredPassIsEarned BY <1>1 DEF RequiredPassIsEarned, EarnedAt
<1>3. QED BY GradeInvariant, <1>2, PTL

(***************************************************************************)
(* Where the server grades, an item for a question that has one already    *)
(* changes neither marks nor pass nor `verified`.                          *)
(***************************************************************************)
THEOREM DuplicatesAreInert == Spec => DuplicateItemsAreInert
<1> DEFINE Same(x, y) == x.marks = y.marks /\ x.ispass = y.ispass /\ x.verified = y.verified
           Before == Verdict(kind, mode, require, items, active, active)
           After == Verdict(kind, mode, require, items', active, active)
           Again == AddItem /\ mode = "enforce" /\ \E i \in DOMAIN items : items[i].q = items'[Len(items')].q
<1>1. ASSUME GradeInv, Again PROVE Same(After, Before)
  <2>1. PICK it \in Item : items' = Append(items, it) BY <1>1 DEF AddItem
  <2>2. items \in Seq(Item) BY <1>1 DEF GradeInv, TypeOK
  <2>3. DOMAIN items = 1..Len(items) /\ DOMAIN items' = 1..(Len(items) + 1) /\ Len(items') = Len(items) + 1
    BY <2>1, <2>2
  <2>4. \A i \in DOMAIN items : items'[i] = items[i] BY <2>1, <2>2
  <2>5. PICK d \in 1..Len(items) : items[d].q = items'[Len(items) + 1].q BY <1>1, <2>3
  <2>6. Len(items) \in Nat BY <2>2
  <2>7. FirstItems(items') = FirstItems(items)
    <3>1. Len(items) + 1 \notin FirstItems(items') BY <2>3, <2>4, <2>5, <2>6 DEF FirstItems
    <3>2. \A i \in 1..Len(items) : i \in FirstItems(items') <=> i \in FirstItems(items)
      BY <2>3, <2>4, <2>6 DEF FirstItems
    <3>3. QED BY <2>3, <2>6, <3>1, <3>2 DEF FirstItems
  <2>8. \A i \in FirstItems(items) : items'[i] = items[i] BY <2>4 DEF FirstItems
  <2>9. mode = "enforce" BY <1>1
  <2>10. CorrectQuestions(mode, items', active, active) = CorrectQuestions(mode, items, active, active)
    BY <2>7, <2>8, <2>9 DEF CorrectQuestions, scoringItems
  <2>11. verified(mode, items', active) = verified(mode, items, active) BY <2>7, <2>8 DEF verified
  <2>12. score(kind, mode, items', active, active) = score(kind, mode, items, active, active) BY <2>10 DEF score
  <2>13. QED BY <2>11, <2>12 DEF Verdict
<1>2. GradeInv /\ [Next]_vars => [Again => Same(After, Before)]_vars BY <1>1
<1>3. QED BY GradeInvariant, <1>2, PTL DEF Spec, DuplicateItemsAreInert

-----------------------------------------------------------------------------
(* Access. *)

(* The tables with their ids, and the ids in their rows. *)
LEMMA Tables ==
    ASSUME db \in Database
    PROVE  /\ DOMAIN db.organisations = Orgs /\ DOMAIN db.schools = Schools
           /\ DOMAIN db.curriculums = Curricula /\ DOMAIN db.grades = Grades /\ DOMAIN db.levels = Levels
           /\ DOMAIN db.lessons = Lessons /\ DOMAIN db.lessonlearnings = Learnings
           /\ DOMAIN db.lessonlearningdocuments = Links /\ DOMAIN db.lessonplans = Plans
           /\ DOMAIN db.lessonpractices = Practices /\ DOMAIN db.lessonquizzes = Quizzes
           /\ DOMAIN db.curriculumbaseline = Baselines /\ DOMAIN db.documents = Documents
           /\ DOMAIN db.lessonpracticequestions = PracticeQuestions
           /\ DOMAIN db.lessonquizquestions = QuizQuestions /\ DOMAIN db.levelquizquestions = LevelQuestions
           /\ DOMAIN db.baselinequestion = BaselineQuestions /\ DOMAIN db.standards = Classes
           /\ DOMAIN db.students = Learners /\ DOMAIN db.schoolusers = Logins
  BY DEF Database

LEMMA Ids ==
    ASSUME db \in Database
    PROVE  /\ \A c \in Curricula : db.curriculums[c].organisationid \in Orgs
           /\ \A g \in Grades : db.grades[g].curriculumid \in Curricula
           /\ \A v \in Levels : db.levels[v].gradeid \in Grades
           /\ \A l \in Lessons : db.lessons[l].levelid \in Levels
           /\ \A n \in Learnings : db.lessonlearnings[n].lessonid \in Lessons
           /\ \A p \in Plans : db.lessonplans[p].lessonid \in Lessons
           /\ \A p \in Practices : db.lessonpractices[p].lessonid \in Lessons
           /\ \A q \in Quizzes : db.lessonquizzes[q].lessonid \in Lessons
           /\ \A b \in Baselines : db.curriculumbaseline[b].curriculumid \in Curricula
           /\ \A q \in PracticeQuestions : db.lessonpracticequestions[q].lessonpracticeid \in Practices
           /\ \A q \in QuizQuestions : db.lessonquizquestions[q].lessonquizid \in Quizzes
           /\ \A q \in LevelQuestions : db.levelquizquestions[q].levelid \in Levels
           /\ \A q \in BaselineQuestions : db.baselinequestion[q].curriculumbaselineid \in Baselines
<1>1. \A c \in Curricula : db.curriculums[c].organisationid \in Orgs BY DEF Database, CurriculumRow
<1>2. \A g \in Grades : db.grades[g].curriculumid \in Curricula BY DEF Database, GradeRow
<1>3. \A v \in Levels : db.levels[v].gradeid \in Grades BY DEF Database, LevelRow
<1>4. \A l \in Lessons : db.lessons[l].levelid \in Levels BY DEF Database, LessonRow
<1>5. \A n \in Learnings : db.lessonlearnings[n].lessonid \in Lessons BY DEF Database, LearningRow
<1>6. \A p \in Plans : db.lessonplans[p].lessonid \in Lessons BY DEF Database, PlanRow
<1>7. \A p \in Practices : db.lessonpractices[p].lessonid \in Lessons BY DEF Database, PracticeRow
<1>8. \A q \in Quizzes : db.lessonquizzes[q].lessonid \in Lessons BY DEF Database, QuizRow
<1>9. \A b \in Baselines : db.curriculumbaseline[b].curriculumid \in Curricula BY DEF Database, BaselineRow
<1>10. \A q \in PracticeQuestions : db.lessonpracticequestions[q].lessonpracticeid \in Practices
  BY DEF Database, PracticeQuestionRow
<1>11. \A q \in QuizQuestions : db.lessonquizquestions[q].lessonquizid \in Quizzes BY DEF Database, QuizQuestionRow
<1>12. \A q \in LevelQuestions : db.levelquizquestions[q].levelid \in Levels BY DEF Database, LevelQuestionRow
<1>13. \A q \in BaselineQuestions : db.baselinequestion[q].curriculumbaselineid \in Baselines
  BY DEF Database, BaselineQuestionRow
<1>14. QED
  BY <1>1, <1>2, <1>3, <1>4, <1>5, <1>6, <1>7, <1>8, <1>9, <1>10, <1>11, <1>12, <1>13

(* The curriculum of a tier. *)
CurriculumOfLevel(v)  == db.grades[db.levels[v].gradeid].curriculumid
CurriculumOfLesson(l) == CurriculumOfLevel(db.lessons[l].levelid)

(* A lesson whose level is switched on. *)
Live(l) == db.levels[db.lessons[l].levelid].status

Activities == {"lessonlearning", "lessonplan", "lessonpractice", "lessonquiz"}

Has(what) == DOMAIN db[ActivityTable[what]]
LessonOf(what, a) == db[ActivityTable[what]][a].lessonid

(***************************************************************************)
(* Every tier has one curriculum, and none when only what is live counts   *)
(* and its level is switched off.                                          *)
(***************************************************************************)
LEMMA TierCurricula ==
    ASSUME db \in Database, NEW live \in BOOLEAN
    PROVE  /\ \A c \in Curricula : curriculumIdsOf("curriculum", c, live) = {c}
           /\ \A g \in Grades : curriculumIdsOf("grade", g, live) = {db.grades[g].curriculumid}
           /\ \A v \in Levels : curriculumOfLevel(v, live) =
                 IF live => db.levels[v].status THEN {CurriculumOfLevel(v)} ELSE {}
           /\ \A l \in Lessons : curriculumOfLesson(l, live) = IF live => Live(l) THEN {CurriculumOfLesson(l)} ELSE {}
           /\ \A v : curriculumIdsOf("level", v, live) = curriculumOfLevel(v, live)
           /\ \A l : curriculumIdsOf("lesson", l, live) = curriculumOfLesson(l, live)
           /\ \A b \in Baselines : curriculumIdsOf("baseline", b, live) = {db.curriculumbaseline[b].curriculumid}
<1>1. \A c \in Curricula : curriculumIdsOf("curriculum", c, live) = {c} BY DEF curriculumIdsOf, ActivityTable
<1>2. \A g \in Grades : curriculumOfGrade(g) = {db.grades[g].curriculumid}
  <2>1. TAKE g \in Grades
  <2>2. Find("grades", g) = {db.grades[g]} BY Tables DEF Find
  <2>3. QED BY <2>2 DEF curriculumOfGrade
<1>3. \A v \in Levels : curriculumOfLevel(v, live) = IF live => db.levels[v].status THEN {CurriculumOfLevel(v)} ELSE {}
  <2>1. TAKE v \in Levels
  <2>2. Find("levels", v) = {db.levels[v]} BY Tables DEF Find
  <2>3. curriculumOfGrade(db.levels[v].gradeid) = {CurriculumOfLevel(v)} BY <1>2, Ids DEF CurriculumOfLevel
  <2>4. CASE live => db.levels[v].status
    <3>1. {r \in Find("levels", v) : live => r.status} = {db.levels[v]} BY <2>2, <2>4
    <3>2. QED BY <2>3, <2>4, <3>1 DEF curriculumOfLevel
  <2>5. CASE ~(live => db.levels[v].status)
    <3>1. {r \in Find("levels", v) : live => r.status} = {} BY <2>2, <2>5
    <3>2. QED BY <2>5, <3>1 DEF curriculumOfLevel
  <2>6. QED BY <2>4, <2>5
<1>4. \A l \in Lessons : curriculumOfLesson(l, live) = IF live => Live(l) THEN {CurriculumOfLesson(l)} ELSE {}
  <2>1. TAKE l \in Lessons
  <2>2. Find("lessons", l) = {db.lessons[l]} BY Tables DEF Find
  <2>3. curriculumOfLesson(l, live) = curriculumOfLevel(db.lessons[l].levelid, live) BY <2>2 DEF curriculumOfLesson
  <2>4. QED BY <1>3, <2>3, Ids DEF Live, CurriculumOfLesson
<1>5. \A g : curriculumIdsOf("grade", g, live) = curriculumOfGrade(g) BY DEF curriculumIdsOf, ActivityTable
<1>6. \A v : curriculumIdsOf("level", v, live) = curriculumOfLevel(v, live) BY DEF curriculumIdsOf, ActivityTable
<1>7. \A l : curriculumIdsOf("lesson", l, live) = curriculumOfLesson(l, live) BY DEF curriculumIdsOf, ActivityTable
<1>8. ASSUME NEW b \in Baselines PROVE curriculumIdsOf("baseline", b, live) = {db.curriculumbaseline[b].curriculumid}
  <2>1. Find("curriculumbaseline", b) = {db.curriculumbaseline[b]} BY Tables DEF Find
  <2>2. curriculumIdsOf("baseline", b, live) = curriculumOfBaseline(b) BY DEF curriculumIdsOf, ActivityTable
  <2>3. QED BY <2>1, <2>2 DEF curriculumOfBaseline
<1>9. QED BY <1>1, <1>2, <1>3, <1>4, <1>5, <1>6, <1>7, <1>8

(* An activity is where its lesson is. *)
LEMMA ActivityCurricula ==
    ASSUME db \in Database, NEW live \in BOOLEAN, NEW what \in Activities, NEW a \in Has(what)
    PROVE  /\ LessonOf(what, a) \in Lessons
           /\ curriculumIdsOf(what, a, live) = curriculumOfLesson(LessonOf(what, a), live)
<1>1. what \in DOMAIN ActivityTable /\ what \notin {"curriculum", "grade", "level", "lesson", "baseline", "document",
          "lessonpracticequestion", "lessonquizquestion", "levelquizquestion", "baselinequestion"}
  BY DEF ActivityTable, Activities
<1>2. curriculumIdsOf(what, a, live) = UNION {curriculumOfLesson(r.lessonid, live) : r \in Find(ActivityTable[what], a)}
  BY <1>1 DEF curriculumIdsOf
<1>3. Find(ActivityTable[what], a) = {db[ActivityTable[what]][a]} BY DEF Find, Has
<1>4. LessonOf(what, a) \in Lessons
  BY Tables, Ids DEF LessonOf, Has, Activities, ActivityTable
<1>5. QED BY <1>2, <1>3, <1>4 DEF LessonOf

(* A question is where its container is. *)
LEMMA QuestionCurricula ==
    ASSUME db \in Database, NEW live \in BOOLEAN
    PROVE  /\ \A q \in PracticeQuestions : curriculumIdsOf("lessonpracticequestion", q, live)
                 = curriculumOfLesson(db.lessonpractices[db.lessonpracticequestions[q].lessonpracticeid].lessonid, live)
           /\ \A q \in QuizQuestions : curriculumIdsOf("lessonquizquestion", q, live)
                 = curriculumOfLesson(db.lessonquizzes[db.lessonquizquestions[q].lessonquizid].lessonid, live)
           /\ \A q \in LevelQuestions : curriculumIdsOf("levelquizquestion", q, live)
                 = curriculumOfLevel(db.levelquizquestions[q].levelid, live)
           /\ \A q \in BaselineQuestions : curriculumIdsOf("baselinequestion", q, live)
                 = {db.curriculumbaseline[db.baselinequestion[q].curriculumbaselineid].curriculumid}
<1>1. ASSUME NEW q \in PracticeQuestions
      PROVE  curriculumIdsOf("lessonpracticequestion", q, live)
                 = curriculumOfLesson(db.lessonpractices[db.lessonpracticequestions[q].lessonpracticeid].lessonid, live)
  <2> DEFINE p == db.lessonpracticequestions[q].lessonpracticeid
  <2>1. Find("lessonpracticequestions", q) = {db.lessonpracticequestions[q]} BY Tables DEF Find
  <2>2. Find("lessonpractices", p) = {db.lessonpractices[p]} BY Tables, Ids DEF Find
  <2>3. curriculumIdsOf("lessonpracticequestion", q, live) =
          UNION {UNION {curriculumOfLesson(a.lessonid, live) : a \in Find("lessonpractices", r.lessonpracticeid)} :
                      r \in Find("lessonpracticequestions", q)}
    BY DEF curriculumIdsOf, ActivityTable
  <2>4. {curriculumOfLesson(a.lessonid, live) : a \in Find("lessonpractices", p)} = {curriculumOfLesson(db.lessonpractices[p].lessonid, live)}
    BY <2>2
  <2>5. UNION {curriculumOfLesson(a.lessonid, live) : a \in Find("lessonpractices", p)} = curriculumOfLesson(db.lessonpractices[p].lessonid, live)
    BY <2>4
  <2>6. curriculumIdsOf("lessonpracticequestion", q, live) = UNION {UNION {curriculumOfLesson(a.lessonid, live) : a \in Find("lessonpractices", p)}}
    BY <2>1, <2>3
  <2>7. QED BY <2>5, <2>6
<1>2. ASSUME NEW q \in QuizQuestions
      PROVE  curriculumIdsOf("lessonquizquestion", q, live)
                 = curriculumOfLesson(db.lessonquizzes[db.lessonquizquestions[q].lessonquizid].lessonid, live)
  <2> DEFINE p == db.lessonquizquestions[q].lessonquizid
  <2>1. Find("lessonquizquestions", q) = {db.lessonquizquestions[q]} BY Tables DEF Find
  <2>2. Find("lessonquizzes", p) = {db.lessonquizzes[p]} BY Tables, Ids DEF Find
  <2>3. curriculumIdsOf("lessonquizquestion", q, live) =
          UNION {UNION {curriculumOfLesson(a.lessonid, live) : a \in Find("lessonquizzes", r.lessonquizid)} :
                      r \in Find("lessonquizquestions", q)}
    BY DEF curriculumIdsOf, ActivityTable
  <2>4. {curriculumOfLesson(a.lessonid, live) : a \in Find("lessonquizzes", p)} = {curriculumOfLesson(db.lessonquizzes[p].lessonid, live)}
    BY <2>2
  <2>5. UNION {curriculumOfLesson(a.lessonid, live) : a \in Find("lessonquizzes", p)} = curriculumOfLesson(db.lessonquizzes[p].lessonid, live)
    BY <2>4
  <2>6. curriculumIdsOf("lessonquizquestion", q, live) = UNION {UNION {curriculumOfLesson(a.lessonid, live) : a \in Find("lessonquizzes", p)}}
    BY <2>1, <2>3
  <2>7. QED BY <2>5, <2>6
<1>3. ASSUME NEW q \in LevelQuestions
      PROVE  curriculumIdsOf("levelquizquestion", q, live) = curriculumOfLevel(db.levelquizquestions[q].levelid, live)
  <2>1. Find("levelquizquestions", q) = {db.levelquizquestions[q]} BY Tables DEF Find
  <2>2. curriculumIdsOf("levelquizquestion", q, live) =
          UNION {curriculumOfLevel(r.levelid, live) : r \in Find("levelquizquestions", q)}
    BY DEF curriculumIdsOf, ActivityTable
  <2>3. {curriculumOfLevel(r.levelid, live) : r \in Find("levelquizquestions", q)}
          = {curriculumOfLevel(db.levelquizquestions[q].levelid, live)}
    BY <2>1
  <2>4. QED BY <2>2, <2>3
<1>4. ASSUME NEW q \in BaselineQuestions
      PROVE  curriculumIdsOf("baselinequestion", q, live)
                 = {db.curriculumbaseline[db.baselinequestion[q].curriculumbaselineid].curriculumid}
  <2> DEFINE b == db.baselinequestion[q].curriculumbaselineid
  <2>1. Find("baselinequestion", q) = {db.baselinequestion[q]} BY Tables DEF Find
  <2>2. Find("curriculumbaseline", b) = {db.curriculumbaseline[b]} BY Tables, Ids DEF Find
  <2>3. curriculumIdsOf("baselinequestion", q, live) =
          UNION {curriculumOfBaseline(r.curriculumbaselineid) : r \in Find("baselinequestion", q)}
    BY DEF curriculumIdsOf, ActivityTable
  <2>4. QED BY <2>1, <2>2, <2>3 DEF curriculumOfBaseline
<1>5. QED BY <1>1, <1>2, <1>3, <1>4

-----------------------------------------------------------------------------
(* What the lists of the tiers hold. *)
LEMMA TierLists ==
    ASSUME db \in Database
    PROVE  /\ \A c, g : g \in GradesOf(c) <=> g \in Grades /\ db.grades[g].curriculumid = c /\ Shown(db.grades[g])
           /\ \A g, v : v \in LevelsOf(g) <=> v \in Levels /\ db.levels[v].gradeid = g /\ Shown(db.levels[v])
           /\ \A v, l : l \in LessonsOf(v) <=> l \in Lessons /\ db.lessons[l].levelid = v /\ Shown(db.lessons[l])
           /\ \A l : ShownLesson(l) = IF l \in Lessons /\ Shown(db.lessons[l]) THEN {l} ELSE {}
           /\ \A what \in Activities : \A ls, a :
                 a \in ActiveIn(ActivityTable[what], ls)
                    <=> a \in Has(what) /\ LessonOf(what, a) \in ls /\ db[ActivityTable[what]][a].status
<1>1. \A c, g : g \in GradesOf(c) <=> g \in Grades /\ db.grades[g].curriculumid = c /\ Shown(db.grades[g])
  BY Tables DEF GradesOf, FindAll
<1>2. \A g, v : v \in LevelsOf(g) <=> v \in Levels /\ db.levels[v].gradeid = g /\ Shown(db.levels[v])
  BY Tables DEF LevelsOf, FindAll
<1>3. \A v, l : l \in LessonsOf(v) <=> l \in Lessons /\ db.lessons[l].levelid = v /\ Shown(db.lessons[l])
  BY Tables DEF LessonsOf, FindAll
<1>4. \A l : ShownLesson(l) = IF l \in Lessons /\ Shown(db.lessons[l]) THEN {l} ELSE {} BY DEF ShownLesson
<1>5. \A what \in Activities : \A ls, a :
          a \in ActiveIn(ActivityTable[what], ls)
             <=> a \in Has(what) /\ LessonOf(what, a) \in ls /\ db[ActivityTable[what]][a].status
  BY DEF ActiveIn, FindAll, Has, LessonOf
<1>6. QED BY <1>1, <1>2, <1>3, <1>4, <1>5

(* A row of the curriculum c, which can be opened if `live`; documents apart. *)
Inside(row, c, live) ==
    /\ row[1] # "document"
    /\ curriculumIdsOf(row[1], row[2], FALSE) = {c}
    /\ live => curriculumIdsOf(row[1], row[2], TRUE) = {c}

AllInside(rows, c, live) == \A row \in rows : Inside(row, c, live)

LEMMA RowsInside ==
    ASSUME NEW what, NEW ids, NEW c, NEW live \in BOOLEAN, \A x \in ids : Inside(<<what, x>>, c, live)
    PROVE  AllInside(Rows(what, ids), c, live)
<1>1. ASSUME NEW row \in Rows(what, ids) PROVE Inside(row, c, live)
  <2>1. PICK x \in ids : row = <<what, x>> BY DEF Rows
  <2>2. QED BY <2>1
<1>2. QED BY <1>1 DEF AllInside

LEMMA UnionInside ==
    ASSUME NEW A, NEW B, NEW c, NEW live, AllInside(A, c, live), AllInside(B, c, live)
    PROVE  AllInside(A \cup B, c, live)
  BY DEF AllInside

(* Where the tiers, the activities and the questions are. *)
LEMMA TiersInside ==
    ASSUME db \in Database, NEW live \in BOOLEAN
    PROVE  /\ \A c \in Curricula : Inside(<<"curriculum", c>>, c, live)
           /\ \A g \in Grades : Inside(<<"grade", g>>, db.grades[g].curriculumid, live)
           /\ \A v \in Levels : (live => db.levels[v].status) => Inside(<<"level", v>>, CurriculumOfLevel(v), live)
           /\ \A l \in Lessons : (live => Live(l)) => Inside(<<"lesson", l>>, CurriculumOfLesson(l), live)
           /\ \A b \in Baselines : Inside(<<"baseline", b>>, db.curriculumbaseline[b].curriculumid, live)
  BY TierCurricula DEF Inside

LEMMA ActivitiesInside ==
    ASSUME db \in Database, NEW live \in BOOLEAN, NEW what \in Activities, NEW a \in Has(what),
           live => Live(LessonOf(what, a))
    PROVE  Inside(<<what, a>>, CurriculumOfLesson(LessonOf(what, a)), live)
<1> DEFINE l == LessonOf(what, a)
<1>1. l \in Lessons /\ curriculumIdsOf(what, a, FALSE) = curriculumOfLesson(l, FALSE)
      /\ curriculumIdsOf(what, a, TRUE) = curriculumOfLesson(l, TRUE)
  BY ActivityCurricula
<1> HIDE DEF l
<1>2. curriculumOfLesson(l, FALSE) = {CurriculumOfLesson(l)} BY <1>1, TierCurricula
<1>3. Live(l) => curriculumOfLesson(l, TRUE) = {CurriculumOfLesson(l)} BY <1>1, TierCurricula
<1>4. what # "document" BY DEF Activities
<1>5. QED BY <1>1, <1>2, <1>3, <1>4 DEF Inside, l

LEMMA QuestionsInside ==
    ASSUME db \in Database, NEW live \in BOOLEAN
    PROVE  /\ \A q \in PracticeQuestions :
                 LET l == db.lessonpractices[db.lessonpracticequestions[q].lessonpracticeid].lessonid
                 IN  (live => Live(l)) => Inside(<<"lessonpracticequestion", q>>, CurriculumOfLesson(l), live)
           /\ \A q \in QuizQuestions :
                 LET l == db.lessonquizzes[db.lessonquizquestions[q].lessonquizid].lessonid
                 IN  (live => Live(l)) => Inside(<<"lessonquizquestion", q>>, CurriculumOfLesson(l), live)
           /\ \A q \in LevelQuestions :
                 LET v == db.levelquizquestions[q].levelid
                 IN  (live => db.levels[v].status) => Inside(<<"levelquizquestion", q>>, CurriculumOfLevel(v), live)
           /\ \A q \in BaselineQuestions :
                 LET b == db.baselinequestion[q].curriculumbaselineid
                 IN  Inside(<<"baselinequestion", q>>, db.curriculumbaseline[b].curriculumid, live)
<1>1. ASSUME NEW q \in PracticeQuestions
      PROVE  LET l == db.lessonpractices[db.lessonpracticequestions[q].lessonpracticeid].lessonid
             IN  (live => Live(l)) => Inside(<<"lessonpracticequestion", q>>, CurriculumOfLesson(l), live)
  BY TierCurricula, QuestionCurricula, Ids DEF Inside
<1>2. ASSUME NEW q \in QuizQuestions
      PROVE  LET l == db.lessonquizzes[db.lessonquizquestions[q].lessonquizid].lessonid
             IN  (live => Live(l)) => Inside(<<"lessonquizquestion", q>>, CurriculumOfLesson(l), live)
  BY TierCurricula, QuestionCurricula, Ids DEF Inside
<1>3. ASSUME NEW q \in LevelQuestions
      PROVE  LET v == db.levelquizquestions[q].levelid
             IN  (live => db.levels[v].status) => Inside(<<"levelquizquestion", q>>, CurriculumOfLevel(v), live)
  BY TierCurricula, QuestionCurricula, Ids DEF Inside
<1>4. ASSUME NEW q \in BaselineQuestions
      PROVE  LET b == db.baselinequestion[q].curriculumbaselineid
             IN  Inside(<<"baselinequestion", q>>, db.curriculumbaseline[b].curriculumid, live)
  BY TierCurricula, QuestionCurricula, Ids DEF Inside
<1>5. QED BY <1>1, <1>2, <1>3, <1>4

-----------------------------------------------------------------------------
(* Routes with a path, by the kind of content it names. *)
LEMMA UnderCurriculum ==
    ASSUME db \in Database, NEW c \in Curricula, NEW user
    PROVE  /\ AllInside(findcurriculum(c), c, TRUE)
           /\ AllInside(findcurriculumgrades(c), c, TRUE)
           /\ AllInside(BaselineHandler(user, c), c, TRUE)
           /\ AllInside(getgradesbycurriculumid(c), c, TRUE)
           /\ AllInside(getusergradesprogess(c), c, TRUE)
<1>1. AllInside(findcurriculum(c), c, TRUE) BY TiersInside, RowsInside DEF findcurriculum
<1>2. AllInside(Rows("grade", GradesOf(c)), c, TRUE)
  <2>1. \A g \in GradesOf(c) : g \in Grades /\ db.grades[g].curriculumid = c BY TierLists
  <2>2. \A g \in GradesOf(c) : Inside(<<"grade", g>>, c, TRUE) BY <2>1, TiersInside
  <2>3. QED BY <2>2, RowsInside
<1>3. AllInside(BaselineHandler(user, c), c, TRUE)
  <2>1. ASSUME NEW row \in BaselineHandler(user, c)
        PROVE  Inside(row, c, TRUE)
    <3>1. PICK b \in Baselines : row = <<"baseline", b>> /\ db.curriculumbaseline[b].curriculumid = c
      BY DEF BaselineHandler, getCurriculumBaseline
    <3>2. QED BY <3>1, TiersInside
  <2>2. QED BY <2>1 DEF AllInside
<1>4. AllInside(findcurriculumgrades(c), c, TRUE)
  <2> DEFINE ls == UNION {UNION {LessonsOf(v) : v \in LevelsOf(g)} : g \in GradesOf(c)}
             vs == {db.lessons[l].levelid : l \in ls}
             gs == {db.levels[v].gradeid : v \in vs}
             cs == {<<"curriculum", c>> : l \in ls}
  <2>1. \A l \in ls : /\ l \in Lessons /\ db.lessons[l].levelid \in Levels /\ Live(l)
                      /\ db.levels[db.lessons[l].levelid].gradeid \in Grades
                      /\ CurriculumOfLesson(l) = c
    BY TierLists DEF CurriculumOfLesson, CurriculumOfLevel, Live, Shown
  <2> HIDE DEF ls
  <2>2. AllInside(Rows("lesson", ls), c, TRUE) BY <2>1, TiersInside, RowsInside
  <2>3. \A v \in vs : v \in Levels /\ db.levels[v].status /\ CurriculumOfLevel(v) = c /\ db.levels[v].gradeid \in Grades
    BY <2>1 DEF Live, CurriculumOfLesson
  <2> HIDE DEF vs
  <2>4. AllInside(Rows("level", vs), c, TRUE) BY <2>3, TiersInside, RowsInside
  <2>5. \A g \in gs : g \in Grades /\ db.grades[g].curriculumid = c BY <2>3 DEF CurriculumOfLevel
  <2> HIDE DEF gs
  <2>6. AllInside(Rows("grade", gs), c, TRUE) BY <2>5, TiersInside, RowsInside
  <2>7. AllInside(cs, c, TRUE) BY TiersInside DEF AllInside
  <2> HIDE DEF cs
  <2>8. AllInside(Rows("lesson", ls) \cup Rows("level", vs) \cup Rows("grade", gs) \cup cs, c, TRUE)
    BY <2>2, <2>4, <2>6, <2>7 DEF AllInside
  <2>9. AllInside({}, c, TRUE) BY DEF AllInside
  <2>10. QED BY <2>8, <2>9 DEF findcurriculumgrades, ls, vs, gs, cs
<1>5. QED BY <1>1, <1>2, <1>3, <1>4 DEF getgradesbycurriculumid, getusergradesprogess

LEMMA UnderGrade ==
    ASSUME db \in Database, NEW g \in Grades, NEW c, c = db.grades[g].curriculumid
    PROVE  AllInside(getlevelsbygradeid(g), c, TRUE) /\ AllInside(getuserlevelsprogress(g), c, TRUE)
<1>1. \A v \in LevelsOf(g) : v \in Levels /\ db.levels[v].status /\ CurriculumOfLevel(v) = c
  BY TierLists DEF Shown, CurriculumOfLevel
<1>2. AllInside(Rows("level", LevelsOf(g)), c, TRUE) BY <1>1, TiersInside, RowsInside
<1>3. QED BY <1>2 DEF getlevelsbygradeid, getuserlevelsprogress

(* The activities of lessons of one curriculum. *)
LEMMA ActivitiesOfLessons ==
    ASSUME db \in Database, NEW ls, ls \subseteq Lessons, NEW c, NEW live \in BOOLEAN,
           \A l \in ls : CurriculumOfLesson(l) = c /\ (live => Live(l))
    PROVE  /\ \A what \in Activities : AllInside(Rows(what, ActiveIn(ActivityTable[what], ls)), c, live)
           /\ AllInside(getactivitiesprogressforlessons(ls), c, live)
           /\ AllInside(Rows("lesson", ls), c, live)
<1>1. ASSUME NEW what \in Activities PROVE AllInside(Rows(what, ActiveIn(ActivityTable[what], ls)), c, live)
  <2> DEFINE A == ActiveIn(ActivityTable[what], ls)
  <2>1. \A a \in A : a \in Has(what) /\ CurriculumOfLesson(LessonOf(what, a)) = c /\ (live => Live(LessonOf(what, a)))
    BY TierLists
  <2> HIDE DEF A
  <2>2. \A a \in A : Inside(<<what, a>>, c, live) BY <2>1, ActivitiesInside
  <2>3. QED BY <2>2, RowsInside DEF A
<1>2. AllInside(getactivitiesprogressforlessons(ls), c, live)
  <2>1. /\ AllInside(Rows("lessonlearning", ActiveIn("lessonlearnings", ls)), c, live)
        /\ AllInside(Rows("lessonpractice", ActiveIn("lessonpractices", ls)), c, live)
        /\ AllInside(Rows("lessonquiz", ActiveIn("lessonquizzes", ls)), c, live)
    BY <1>1 DEF Activities, ActivityTable
  <2>2. QED BY <2>1 DEF getactivitiesprogressforlessons, AllInside
<1>3. AllInside(Rows("lesson", ls), c, live) BY TiersInside, RowsInside
<1>4. QED BY <1>1, <1>2, <1>3

LEMMA UnderLevel ==
    ASSUME db \in Database, NEW v \in Levels, NEW c, c = CurriculumOfLevel(v),
           NEW live \in BOOLEAN, live => db.levels[v].status, NEW user
    PROVE  /\ AllInside(getlessonsbylevelid(v), c, live) /\ AllInside(getuserlessonsprogress(v), c, live)
           /\ AllInside(getlevelactivitiesprogress(v), c, live)
           /\ AllInside(getlevelquestions(v), c, live) /\ AllInside(getlevelquestionsanswers(v, user), c, live)
<1> DEFINE ls == LessonsOf(v)
<1>1. ls \subseteq Lessons /\ \A l \in ls : CurriculumOfLesson(l) = c /\ (live => Live(l))
  BY TierLists DEF CurriculumOfLesson, Live
<1> HIDE DEF ls
<1>2. AllInside(Rows("lesson", ls), c, live) /\ AllInside(getactivitiesprogressforlessons(ls), c, live)
  BY <1>1, ActivitiesOfLessons
<1>3. Inside(<<"level", v>>, c, live) BY TiersInside
<1>4. AllInside(LevelWithQuiz(v), c, live) BY <1>3 DEF LevelWithQuiz, AllInside
<1>5. AllInside(getlevelquestions(v), c, live)
  <2> DEFINE qs == FindAll("levelquizquestions", LAMBDA q : q.levelid = v /\ q.status /\ db.levels[v].status)
  <2>1. \A q \in qs : q \in LevelQuestions /\ db.levelquizquestions[q].levelid = v BY Tables DEF FindAll
  <2>2. getlevelquestions(v) = Rows("levelquizquestion", qs) \cup {<<"level", v>> : q \in qs} BY DEF getlevelquestions
  <2> HIDE DEF qs
  <2>3. \A q \in qs : Inside(<<"levelquizquestion", q>>, c, live) BY <2>1, QuestionsInside
  <2>4. AllInside(Rows("levelquizquestion", qs), c, live) BY <2>3, RowsInside
  <2>5. AllInside({<<"level", v>> : q \in qs}, c, live) BY <1>3 DEF AllInside
  <2>6. QED BY <2>2, <2>4, <2>5, UnionInside
<1>6. AllInside(getlevelquestionsanswers(v, user), c, live) BY <1>5 DEF getlevelquestionsanswers, AllInside
<1>7. AllInside(Rows("lesson", ls) \cup LevelWithQuiz(v), c, live) BY <1>2, <1>4, UnionInside
<1>8. AllInside(Rows("lesson", ls) \cup getactivitiesprogressforlessons(ls), c, live) BY <1>2, UnionInside
<1>9. QED BY <1>5, <1>6, <1>7, <1>8 DEF getlessonsbylevelid, getuserlessonsprogress, getlevelactivitiesprogress, ls

LEMMA UnderActivity ==
    ASSUME db \in Database, NEW c, NEW live \in BOOLEAN
    PROVE  /\ \A ps : (\A p \in ps : /\ p \in Practices
                                     /\ CurriculumOfLesson(db.lessonpractices[p].lessonid) = c
                                     /\ live => Live(db.lessonpractices[p].lessonid))
                          => AllInside(getpracticequestions(ps), c, live)
           /\ \A qs : (\A q \in qs : /\ q \in Quizzes
                                     /\ CurriculumOfLesson(db.lessonquizzes[q].lessonid) = c
                                     /\ live => Live(db.lessonquizzes[q].lessonid))
                          => AllInside(getquizquestions(qs), c, live)
<1>1. ASSUME NEW ps, \A p \in ps : /\ p \in Practices
                                   /\ CurriculumOfLesson(db.lessonpractices[p].lessonid) = c
                                   /\ live => Live(db.lessonpractices[p].lessonid)
      PROVE  AllInside(getpracticequestions(ps), c, live)
  <2> DEFINE asked == FindAll("lessonpracticequestions", LAMBDA q : q.lessonpracticeid \in ps /\ q.status)
  <2>1. \A q \in asked : q \in PracticeQuestions /\ db.lessonpracticequestions[q].lessonpracticeid \in ps
    BY Tables DEF FindAll
  <2>2. getpracticequestions(ps) = Rows("lessonpracticequestion", asked) BY DEF getpracticequestions
  <2> HIDE DEF asked
  <2>3. \A q \in asked : Inside(<<"lessonpracticequestion", q>>, c, live) BY <1>1, <2>1, QuestionsInside
  <2>4. QED BY <2>2, <2>3, RowsInside
<1>2. ASSUME NEW qs, \A q \in qs : /\ q \in Quizzes
                                   /\ CurriculumOfLesson(db.lessonquizzes[q].lessonid) = c
                                   /\ live => Live(db.lessonquizzes[q].lessonid)
      PROVE  AllInside(getquizquestions(qs), c, live)
  <2> DEFINE asked == FindAll("lessonquizquestions", LAMBDA q : q.lessonquizid \in qs /\ q.status)
  <2>1. \A q \in asked : q \in QuizQuestions /\ db.lessonquizquestions[q].lessonquizid \in qs
    BY Tables DEF FindAll
  <2>2. getquizquestions(qs) = Rows("lessonquizquestion", asked) BY DEF getquizquestions
  <2> HIDE DEF asked
  <2>3. \A q \in asked : Inside(<<"lessonquizquestion", q>>, c, live) BY <1>2, <2>1, QuestionsInside
  <2>4. QED BY <2>2, <2>3, RowsInside
<1>3. QED BY <1>1, <1>2

LEMMA UnderBaseline ==
    ASSUME db \in Database, NEW b \in Baselines, NEW c, c = db.curriculumbaseline[b].curriculumid
    PROVE  AllInside(getbaselinequestions(b), c, TRUE)
<1> DEFINE qs == FindAll("baselinequestion", LAMBDA q :
                     q.curriculumbaselineid = b /\ q.status /\ db.curriculumbaseline[b].status)
<1>1. \A q \in qs : q \in BaselineQuestions /\ db.baselinequestion[q].curriculumbaselineid = b BY Tables DEF FindAll
<1>2. getbaselinequestions(b) = Rows("baselinequestion", qs) \cup {<<"baseline", b>> : q \in qs} BY DEF getbaselinequestions
<1> HIDE DEF qs
<1>3. \A q \in qs : Inside(<<"baselinequestion", q>>, c, TRUE) BY <1>1, QuestionsInside
<1>4. AllInside(Rows("baselinequestion", qs), c, TRUE) BY <1>3, RowsInside
<1>5. AllInside({<<"baseline", b>> : q \in qs}, c, TRUE) BY TiersInside DEF AllInside
<1>6. QED BY <1>2, <1>4, <1>5 DEF AllInside

-----------------------------------------------------------------------------
(* The lessons that use a document. *)
LEMMA UsedByLessons ==
    ASSUME db \in Database
    PROVE  /\ \A n \in Learnings : db.lessonlearnings[n].lessonid \in LessonsUsing(db.lessonlearnings[n].documentid)
           /\ \A p \in Plans : db.lessonplans[p].lessonid \in LessonsUsing(db.lessonplans[p].documentid)
           /\ \A k \in Links : LET row == db.lessonlearningdocuments[k]
                               IN  /\ row.lessonlearningid \in Learnings /\ row.documentid \in Documents
                                   /\ db.lessonlearnings[row.lessonlearningid].lessonid \in LessonsUsing(row.documentid)
<1>1. ASSUME NEW n \in Learnings
      PROVE  db.lessonlearnings[n].lessonid \in LessonsUsing(db.lessonlearnings[n].documentid)
  <2> DEFINE d == db.lessonlearnings[n].documentid
  <2>1. n \in FindAll("lessonlearnings", LAMBDA r : r.documentid = d) BY Tables DEF FindAll
  <2>2. QED BY <2>1 DEF LessonsUsing
<1>2. ASSUME NEW p \in Plans
      PROVE  db.lessonplans[p].lessonid \in LessonsUsing(db.lessonplans[p].documentid)
  <2> DEFINE d == db.lessonplans[p].documentid
  <2>1. p \in FindAll("lessonplans", LAMBDA r : r.documentid = d) BY Tables DEF FindAll
  <2>2. QED BY <2>1 DEF LessonsUsing
<1>3. ASSUME NEW k \in Links
      PROVE  LET row == db.lessonlearningdocuments[k]
             IN  /\ row.lessonlearningid \in Learnings /\ row.documentid \in Documents
                 /\ db.lessonlearnings[row.lessonlearningid].lessonid \in LessonsUsing(row.documentid)
  <2> DEFINE row == db.lessonlearningdocuments[k]
             d   == row.documentid
             linked == {r.lessonlearningid : r \in {db.lessonlearningdocuments[x] : x \in Links} \cap
                                                    [lessonlearningid : Learnings, documentid : {d}]}
  <2>1. row \in [lessonlearningid : Learnings, documentid : Documents] BY DEF Database, LinkRow
  <2>2. row \in [lessonlearningid : Learnings, documentid : {d}] BY <2>1
  <2>3. row.lessonlearningid \in linked BY <2>2
  <2>4. linked \subseteq Learnings OBVIOUS
  <2>5. db.lessonlearnings[row.lessonlearningid].lessonid \in LessonsUsing(d) BY <2>3 DEF LessonsUsing
  <2>6. QED BY <2>1, <2>5
<1>4. QED BY <1>1, <1>2, <1>3

OrganisationOfLesson(l) == db.curriculums[CurriculumOfLesson(l)].organisationid

(* A document that a lesson of the curriculum c uses, of the organisation itself. *)
Carried(d, c, live, org) ==
    /\ d \in Documents /\ db.documents[d].organisationid = org
    /\ \E l \in LessonsUsing(d) : l \in Lessons /\ CurriculumOfLesson(l) = c /\ (live => Live(l))

(* What an answer of the curriculum c may hold. *)
Proper(rows, c, live, org) ==
    \A row \in rows : Inside(row, c, live) \/ (row[1] = "document" /\ Carried(row[2], c, live, org))

(* The primary document of an item belongs to the organisation whose content the item is. *)
OwnDocuments ==
    /\ \A n \in Learnings : LET row == db.lessonlearnings[n]
                            IN  row.documentid # None =>
                                    db.documents[row.documentid].organisationid = OrganisationOfLesson(row.lessonid)
    /\ \A p \in Plans : LET row == db.lessonplans[p]
                        IN  row.documentid # None =>
                                db.documents[row.documentid].organisationid = OrganisationOfLesson(row.lessonid)

LEMMA InsideIsProper ==
    ASSUME NEW rows, NEW c, NEW live \in BOOLEAN, NEW org, AllInside(rows, c, live)
    PROVE  Proper(rows, c, live, org)
  BY DEF AllInside, Proper

LEMMA CarriedRows ==
    ASSUME NEW ds, NEW c, NEW live \in BOOLEAN, NEW org, \A d \in ds : Carried(d, c, live, org)
    PROVE  Proper(Rows("document", ds), c, live, org)
<1>1. ASSUME NEW row \in Rows("document", ds) PROVE row[1] = "document" /\ Carried(row[2], c, live, org)
  BY DEF Rows
<1>2. QED BY <1>1 DEF Proper

(* The documents of learning items and of plans. *)
LEMMA PrimaryDocuments ==
    ASSUME db \in Database, OwnDocuments, NEW c, NEW live \in BOOLEAN, NEW org, org = db.curriculums[c].organisationid
    PROVE  /\ \A n \in Learnings : LET row == db.lessonlearnings[n]
                                   IN  /\ row.documentid # None
                                       /\ CurriculumOfLesson(row.lessonid) = c /\ (live => Live(row.lessonid))
                                       => Carried(row.documentid, c, live, org)
           /\ \A p \in Plans : LET row == db.lessonplans[p]
                               IN  /\ row.documentid # None
                                   /\ CurriculumOfLesson(row.lessonid) = c /\ (live => Live(row.lessonid))
                                   => Carried(row.documentid, c, live, org)
<1>1. ASSUME NEW n \in Learnings, db.lessonlearnings[n].documentid # None,
             CurriculumOfLesson(db.lessonlearnings[n].lessonid) = c, live => Live(db.lessonlearnings[n].lessonid)
      PROVE  Carried(db.lessonlearnings[n].documentid, c, live, org)
  <2>1. db.lessonlearnings[n] \in LearningRow BY DEF Database
  <2>2. db.lessonlearnings[n].documentid \in Documents BY <1>1, <2>1 DEF LearningRow
  <2>3. QED BY <1>1, <2>2, UsedByLessons, Ids DEF Carried, OwnDocuments, OrganisationOfLesson
<1>2. ASSUME NEW p \in Plans, db.lessonplans[p].documentid # None,
             CurriculumOfLesson(db.lessonplans[p].lessonid) = c, live => Live(db.lessonplans[p].lessonid)
      PROVE  Carried(db.lessonplans[p].documentid, c, live, org)
  <2>1. db.lessonplans[p] \in PlanRow BY DEF Database
  <2>2. db.lessonplans[p].documentid \in Documents BY <1>2, <2>1 DEF PlanRow
  <2>3. QED BY <1>2, <2>2, UsedByLessons, Ids DEF Carried, OwnDocuments, OrganisationOfLesson
<1>3. QED BY <1>1, <1>2

LEMMA UnderLesson ==
    ASSUME db \in Database, OwnDocuments, NEW l \in Lessons, NEW c, c = CurriculumOfLesson(l),
           NEW live \in BOOLEAN, live => Live(l), NEW user, NEW org, org = db.curriculums[c].organisationid
    PROVE  /\ AllInside(getuserlessonprogress(l), c, live) /\ AllInside(getlessonactivitiesprogress(l), c, live)
           /\ AllInside(getlessonbricks(l, user), c, live)
           /\ Proper(getlessonquestions(l), c, live, org)
<1> DEFINE ls == ShownLesson(l)
           learnings == ActiveIn("lessonlearnings", ls)
<1>1. ls \subseteq {l} /\ l \in Lessons BY TierLists
<1>2. \A k \in ls : CurriculumOfLesson(k) = c /\ (live => Live(k)) BY <1>1
<1>3. /\ \A what \in Activities : AllInside(Rows(what, ActiveIn(ActivityTable[what], ls)), c, live)
      /\ AllInside(getactivitiesprogressforlessons(ls), c, live)
      /\ AllInside(Rows("lesson", ls), c, live)
  <2> HIDE DEF ls
  <2>1. ls \subseteq Lessons BY <1>1
  <2>2. QED BY <1>2, <2>1, ActivitiesOfLessons
<1>4. /\ AllInside(Rows("lessonlearning", ActiveIn("lessonlearnings", ls)), c, live)
      /\ AllInside(Rows("lessonplan", ActiveIn("lessonplans", ls)), c, live)
      /\ AllInside(Rows("lessonpractice", ActiveIn("lessonpractices", ls)), c, live)
      /\ AllInside(Rows("lessonquiz", ActiveIn("lessonquizzes", ls)), c, live)
  BY <1>3 DEF Activities, ActivityTable
<1>5. AllInside(getuserlessonprogress(l), c, live)
  <2> DEFINE vs == {db.lessons[k].levelid : k \in ls}
             gs == {db.levels[v].gradeid : v \in vs}
  <2>1. \A v \in vs : v \in Levels /\ CurriculumOfLevel(v) = c /\ (live => db.levels[v].status)
    BY <1>1, <1>2, Ids DEF CurriculumOfLesson, Live
  <2>2. getuserlessonprogress(l) = Rows("lesson", ls) \cup Rows("level", vs) \cup Rows("grade", gs)
    BY DEF getuserlessonprogress
  <2> HIDE DEF vs
  <2>3. AllInside(Rows("level", vs), c, live) BY <2>1, TiersInside, RowsInside
  <2>4. \A g \in gs : g \in Grades /\ db.grades[g].curriculumid = c BY <2>1, Ids DEF CurriculumOfLevel
  <2> HIDE DEF gs
  <2>5. AllInside(Rows("grade", gs), c, live) BY <2>4, TiersInside, RowsInside
  <2>6. QED BY <1>3, <2>2, <2>3, <2>5 DEF AllInside
<1>6. AllInside(getlessonactivitiesprogress(l), c, live)
  <2> DEFINE only == {l} \cap Lessons
  <2>1. only \subseteq Lessons /\ \A k \in only : CurriculumOfLesson(k) = c /\ (live => Live(k)) OBVIOUS
  <2> HIDE DEF only
  <2>2. AllInside(getactivitiesprogressforlessons(only), c, live) BY <2>1, ActivitiesOfLessons
  <2>3. QED BY <2>2 DEF getlessonactivitiesprogress, only
<1>7. AllInside(getlessonbricks(l, user), c, live)
  <2>1. getlessonbricks(l, user) \subseteq
            Rows("lesson", ls) \cup Rows("lessonlearning", ActiveIn("lessonlearnings", ls))
            \cup Rows("lessonpractice", ActiveIn("lessonpractices", ls))
            \cup Rows("lessonquiz", ActiveIn("lessonquizzes", ls))
            \cup Rows("lessonplan", ActiveIn("lessonplans", ls))
    BY DEF getlessonbricks
  <2>2. QED BY <1>3, <1>4, <2>1 DEF AllInside
<1>8. Proper(getlessonquestions(l), c, live, org)
  <2> DEFINE ps == ActiveIn("lessonpractices", ls)
             qs == ActiveIn("lessonquizzes", ls)
             ds == DocumentsOf({db.lessonlearnings[n] : n \in learnings})
  <2>1. \A what \in Activities : \A a \in ActiveIn(ActivityTable[what], ls) :
            a \in Has(what) /\ CurriculumOfLesson(LessonOf(what, a)) = c /\ (live => Live(LessonOf(what, a)))
    BY <1>2, TierLists
  <2>2. \A p \in ps : /\ p \in Practices /\ CurriculumOfLesson(db.lessonpractices[p].lessonid) = c
                      /\ live => Live(db.lessonpractices[p].lessonid)
    BY <2>1, Tables DEF Activities, ActivityTable, Has, LessonOf
  <2>3. \A q \in qs : /\ q \in Quizzes /\ CurriculumOfLesson(db.lessonquizzes[q].lessonid) = c
                      /\ live => Live(db.lessonquizzes[q].lessonid)
    BY <2>1, Tables DEF Activities, ActivityTable, Has, LessonOf
  <2>4. \A n \in learnings : /\ n \in Learnings /\ CurriculumOfLesson(db.lessonlearnings[n].lessonid) = c
                             /\ live => Live(db.lessonlearnings[n].lessonid)
    BY <2>1, Tables DEF Activities, ActivityTable, Has, LessonOf
  <2>5. getlessonquestions(l) =
            Rows("lesson", ls) \cup getactivitiesprogressforlessons(ls) \cup getpracticequestions(ps)
            \cup getquizquestions(qs) \cup Rows("document", ds)
    BY DEF getlessonquestions
  <2> HIDE DEF ps, qs
  <2>6. AllInside(getpracticequestions(ps), c, live) /\ AllInside(getquizquestions(qs), c, live)
    BY <2>2, <2>3, UnderActivity
  <2> HIDE DEF learnings
  <2>7. \A d \in ds : \E n \in learnings : d = db.lessonlearnings[n].documentid /\ d # None BY DEF DocumentsOf
  <2>8. \A d \in ds : Carried(d, c, live, org)
    <3>1. TAKE d \in ds
    <3>2. PICK n \in learnings : d = db.lessonlearnings[n].documentid /\ d # None BY <2>7
    <3>3. QED BY <2>4, <3>2, PrimaryDocuments
  <2> HIDE DEF ds
  <2>9. Proper(Rows("document", ds), c, live, org) BY <2>8, CarriedRows
  <2>10. QED BY <1>3, <2>5, <2>6, <2>9 DEF AllInside, Proper
<1>9. QED BY <1>5, <1>6, <1>7, <1>8

LEMMA UnderItem ==
    ASSUME db \in Database, OwnDocuments, NEW c, NEW live \in BOOLEAN, NEW user,
           NEW org, org = db.curriculums[c].organisationid, org = user.organisationid
    PROVE  /\ \A n \in Learnings :
                 LET l == db.lessonlearnings[n].lessonid
                 IN  CurriculumOfLesson(l) = c /\ (live => Live(l)) => Proper(getlearninglesson(n, user), c, live, org)
           /\ \A p \in Plans :
                 LET l == db.lessonplans[p].lessonid
                 IN  CurriculumOfLesson(l) = c /\ (live => Live(l)) => Proper(getplanlesson(p), c, live, org)
<1>1. ASSUME NEW n \in Learnings, CurriculumOfLesson(db.lessonlearnings[n].lessonid) = c,
             live => Live(db.lessonlearnings[n].lessonid)
      PROVE  Proper(getlearninglesson(n, user), c, live, org)
  <2> DEFINE named == {n} \cap Learnings
             ds == DocumentsOf(Find("lessonlearnings", n))
             es == getlearningitemdocuments(n, user)
  <2>1. Inside(<<"lessonlearning", n>>, c, live)
    <3>1. "lessonlearning" \in Activities /\ n \in Has("lessonlearning")
          /\ LessonOf("lessonlearning", n) = db.lessonlearnings[n].lessonid
      BY Tables DEF Activities, Has, LessonOf, ActivityTable
    <3>2. QED BY <1>1, <3>1, ActivitiesInside
  <2>2. AllInside(Rows("lessonlearning", named), c, live) BY <2>1, RowsInside
  <2>3. \A d \in ds : d = db.lessonlearnings[n].documentid /\ d # None BY DEF DocumentsOf, Find
  <2>4. \A d \in ds : Carried(d, c, live, org) BY <1>1, <2>3, PrimaryDocuments
  <2>5. \A d \in es : \E k \in Links : /\ d = db.lessonlearningdocuments[k].documentid
                                       /\ db.lessonlearningdocuments[k].lessonlearningid = n
                                       /\ db.documents[d].organisationid = org
    BY Tables DEF getlearningitemdocuments, FindAll
  <2>6. \A d \in es : Carried(d, c, live, org)
    <3>1. TAKE d \in es
    <3>2. PICK k \in Links : /\ d = db.lessonlearningdocuments[k].documentid
                             /\ db.lessonlearningdocuments[k].lessonlearningid = n
                             /\ db.documents[d].organisationid = org
      BY <2>5
    <3>3. d \in Documents /\ db.lessonlearnings[n].lessonid \in LessonsUsing(d) BY <3>2, UsedByLessons
    <3>4. QED BY <1>1, <3>2, <3>3, Ids DEF Carried
  <2>7. getlearninglesson(n, user) = Rows("lessonlearning", named) \cup Rows("document", ds) \cup Rows("document", es)
    BY DEF getlearninglesson
  <2> HIDE DEF ds, es, named
  <2>8. Proper(Rows("document", ds), c, live, org) /\ Proper(Rows("document", es), c, live, org)
    BY <2>4, <2>6, CarriedRows
  <2>9. QED BY <2>2, <2>7, <2>8 DEF AllInside, Proper
<1>2. ASSUME NEW p \in Plans, CurriculumOfLesson(db.lessonplans[p].lessonid) = c,
             live => Live(db.lessonplans[p].lessonid)
      PROVE  Proper(getplanlesson(p), c, live, org)
  <2> DEFINE named == {p} \cap Plans
             ds == DocumentsOf(Find("lessonplans", p))
  <2>1. Inside(<<"lessonplan", p>>, c, live)
    <3>1. "lessonplan" \in Activities /\ p \in Has("lessonplan")
          /\ LessonOf("lessonplan", p) = db.lessonplans[p].lessonid
      BY Tables DEF Activities, Has, LessonOf, ActivityTable
    <3>2. QED BY <1>2, <3>1, ActivitiesInside
  <2>2. AllInside(Rows("lessonplan", named), c, live) BY <2>1, RowsInside
  <2>3. \A d \in ds : d = db.lessonplans[p].documentid /\ d # None BY DEF DocumentsOf, Find
  <2>4. \A d \in ds : Carried(d, c, live, org) BY <1>2, <2>3, PrimaryDocuments
  <2>5. getplanlesson(p) = Rows("lessonplan", named) \cup Rows("document", ds) BY DEF getplanlesson
  <2> HIDE DEF ds, named
  <2>6. Proper(Rows("document", ds), c, live, org) BY <2>4, CarriedRows
  <2>7. QED BY <2>2, <2>5, <2>6 DEF AllInside, Proper
<1>3. QED BY <1>1, <1>2

-----------------------------------------------------------------------------
(* Routes without a path: what a list may hold. *)
Listed(rows, user) == \A row \in rows : \E c \in curriculumIdsInScope(user) : Inside(row, c, TRUE)

(* What is in scope is the organisation's; what a caller is enrolled in is in scope. *)
LEMMA ScopeFacts ==
    ASSUME db \in Database, NEW user
    PROVE  /\ \A c \in curriculumIdsInScope(user) :
                 claimsOf(user) /\ c \in Curricula /\ db.curriculums[c].organisationid = user.organisationid
           /\ enrolledCurriculumIds(user) \subseteq curriculumIdsInScope(user)
<1>1. \A k : learnerCurriculumList(k) \subseteq Curricula
  <2>1. TAKE k
  <2>2. \A x \in Learners : db.students[x].curriculumids \subseteq Curricula BY DEF Database, StudentRow
  <2>3. QED BY <2>2, Tables DEF learnerCurriculumList, Find
<1>2. \A org, s : schoolCurriculumList(org, s) \subseteq Curricula
  <2>1. TAKE org, s
  <2>2. \A x \in Schools : db.schools[x].curriculums \subseteq Curricula BY DEF Database, SchoolRow
  <2>3. QED BY <2>2, Tables DEF schoolCurriculumList, Find
<1>3. QED BY <1>1, <1>2 DEF curriculumIdsInScope, curriculaInScope, enrolledCurriculumIds

LEMMA ListsHold ==
    ASSUME db \in Database, NEW user
    PROVE  /\ Listed(findallcurriculum(user), user) /\ Listed(getCurriculumsWithSubject(user), user)
           /\ \A std : Listed(getCurriculumsWithFilter(user, std), user)
           /\ \A id, std : Listed(getGradesWithFilter(user, id, std), user)
           /\ Listed(getLibrary(user), user)
           /\ \A id : Listed(getLevelsWithFilter(user, id), user)
           /\ \A id : Listed(getLessonsWithFilter(user, id), user)
<1> DEFINE scope == curriculumIdsInScope(user)
<1>1. ASSUME NEW cs, cs \subseteq scope PROVE Listed(Rows("curriculum", cs), user)
  <2>1. \A c \in cs : c \in Curricula /\ c \in scope BY <1>1, ScopeFacts
  <2>2. \A c \in cs : Inside(<<"curriculum", c>>, c, TRUE) BY <2>1, TiersInside
  <2>3. ASSUME NEW row \in Rows("curriculum", cs) PROVE \E c \in scope : Inside(row, c, TRUE)
    <3>1. PICK c \in cs : row = <<"curriculum", c>> BY DEF Rows
    <3>2. QED BY <2>1, <2>2, <3>1
  <2>4. QED BY <2>3 DEF Listed
<1>2. ASSUME NEW gs, \A g \in gs : g \in Grades /\ db.grades[g].curriculumid \in scope
      PROVE  Listed(Rows("grade", gs), user)
  <2>1. ASSUME NEW row \in Rows("grade", gs) PROVE \E c \in scope : Inside(row, c, TRUE)
    <3>1. PICK g \in gs : row = <<"grade", g>> BY DEF Rows
    <3>2. Inside(<<"grade", g>>, db.grades[g].curriculumid, TRUE) BY <1>2, TiersInside
    <3>3. QED BY <1>2, <3>1, <3>2
  <2>2. QED BY <2>1 DEF Listed
<1>3. ASSUME NEW vs, \A v \in vs : v \in Levels /\ CurriculumOfLevel(v) \in scope /\ db.levels[v].status
      PROVE  Listed(Rows("level", vs), user)
  <2>1. ASSUME NEW row \in Rows("level", vs) PROVE \E c \in scope : Inside(row, c, TRUE)
    <3>1. PICK v \in vs : row = <<"level", v>> BY DEF Rows
    <3>2. Inside(<<"level", v>>, CurriculumOfLevel(v), TRUE) BY <1>3, TiersInside
    <3>3. QED BY <1>3, <3>1, <3>2
  <2>2. QED BY <2>1 DEF Listed
<1>4. ASSUME NEW ls, \A l \in ls : l \in Lessons /\ CurriculumOfLesson(l) \in scope /\ Live(l)
      PROVE  Listed(Rows("lesson", ls), user)
  <2>1. ASSUME NEW row \in Rows("lesson", ls) PROVE \E c \in scope : Inside(row, c, TRUE)
    <3>1. PICK l \in ls : row = <<"lesson", l>> BY DEF Rows
    <3>2. Inside(<<"lesson", l>>, CurriculumOfLesson(l), TRUE) BY <1>4, TiersInside
    <3>3. QED BY <1>4, <3>1, <3>2
  <2>2. QED BY <2>1 DEF Listed
<1>5. getEnrolledCurriculums(user) \subseteq scope BY ScopeFacts DEF getEnrolledCurriculums
<1>6. \A g \in gradeIdsInScope(user) : g \in Grades /\ db.grades[g].curriculumid \in scope
  BY Tables DEF gradeIdsInScope, FindAll
<1>7. \A v \in levelIdsInScope(user) : v \in Levels /\ CurriculumOfLevel(v) \in scope /\ db.levels[v].status
  BY <1>6, Tables DEF levelIdsInScope, FindAll, CurriculumOfLevel
<1>8. Listed(findallcurriculum(user), user) BY <1>1 DEF findallcurriculum
<1>9. Listed(getCurriculumsWithSubject(user), user) BY <1>1, <1>5 DEF getCurriculumsWithSubject
<1>10. ASSUME NEW std PROVE Listed(getCurriculumsWithFilter(user, std), user)
  <2> DEFINE narrowed == IF callerKindOf(user) = "staff" /\ std # None
                         THEN curriculumIdsInScope(user) \cap db.students[std].curriculumids
                         ELSE curriculumIdsInScope(user)
             cs == {c \in narrowed : Shown(db.curriculums[c])}
  <2>1. cs \subseteq scope OBVIOUS
  <2>2. getCurriculumsWithFilter(user, std) = Rows("curriculum", cs) BY DEF getCurriculumsWithFilter
  <2> HIDE DEF cs, scope
  <2>3. QED BY <1>1, <2>1, <2>2
<1>11. ASSUME NEW id, NEW std PROVE Listed(getGradesWithFilter(user, id, std), user)
  <2> DEFINE keep == (IF id = None THEN Curricula ELSE {id})
                     \cap (IF std = None THEN Curricula ELSE {db.students[std].curriculumid})
             gs == FindAll("grades", LAMBDA g : ~g.isdeleted /\ g.curriculumid \in curriculumIdsInScope(user) \cap keep)
  <2>1. \A g \in gs : g \in Grades /\ db.grades[g].curriculumid \in scope BY Tables DEF FindAll
  <2>2. getGradesWithFilter(user, id, std) = Rows("grade", gs) BY DEF getGradesWithFilter
  <2> HIDE DEF gs, scope
  <2>3. QED BY <1>2, <2>1, <2>2
<1>12. Listed(getLibrary(user), user)
  <2> DEFINE cs == getEnrolledCurriculums(user)
             gs == LibraryGrades(user)
             vs == LibraryLevels(user)
  <2>1. \A g \in gs : g \in Grades /\ db.grades[g].curriculumid \in scope BY <1>5, TierLists DEF LibraryGrades
  <2>2. \A v \in vs : v \in Levels /\ CurriculumOfLevel(v) \in scope /\ db.levels[v].status
    BY <2>1, TierLists DEF LibraryLevels, CurriculumOfLevel, Shown
  <2>3. getLibrary(user) \subseteq Rows("curriculum", cs) \cup Rows("grade", gs) \cup Rows("level", vs) BY DEF getLibrary
  <2> HIDE DEF cs, gs, vs
  <2>4. Listed(Rows("curriculum", cs), user) BY <1>1, <1>5 DEF cs
  <2>5. Listed(Rows("grade", gs), user) /\ Listed(Rows("level", vs), user) BY <1>2, <1>3, <2>1, <2>2
  <2>6. QED BY <2>3, <2>4, <2>5 DEF Listed
<1>13. ASSUME NEW id PROVE Listed(getLevelsWithFilter(user, id), user)
  <2> DEFINE vs == FindAll("levels", LAMBDA v :
                       Shown(v) /\ v.gradeid \in gradeIdsInScope(user) /\ id \in {None, v.gradeid})
  <2>1. \A v \in vs : v \in Levels /\ CurriculumOfLevel(v) \in scope /\ db.levels[v].status
    BY <1>6, Tables DEF FindAll, CurriculumOfLevel, Shown
  <2>2. getLevelsWithFilter(user, id) = Rows("level", vs) BY DEF getLevelsWithFilter
  <2> HIDE DEF vs, scope
  <2>3. QED BY <1>3, <2>1, <2>2
<1>14. ASSUME NEW id PROVE Listed(getLessonsWithFilter(user, id), user)
  <2> DEFINE ls == FindAll("lessons", LAMBDA l :
                       ~l.isdeleted /\ l.levelid \in levelIdsInScope(user) /\ id \in {None, l.levelid})
  <2>1. \A l \in ls : l \in Lessons /\ CurriculumOfLesson(l) \in scope /\ Live(l)
    BY <1>7, Tables DEF FindAll, CurriculumOfLesson, Live
  <2>2. getLessonsWithFilter(user, id) = Rows("lesson", ls) BY DEF getLessonsWithFilter
  <2> HIDE DEF ls, scope
  <2>3. QED BY <1>4, <2>1, <2>2
<1>15. QED BY <1>8, <1>9, <1>10, <1>11, <1>12, <1>13, <1>14

-----------------------------------------------------------------------------
(* The routes' handlers, by the kind of content in the path. *)
RouteAnswers(what, answer, user, id, std) ==
    \/ what = None /\ answer \in {findallcurriculum(user), getCurriculumsWithFilter(user, std),
                                  getCurriculumsWithSubject(user), getGradesWithFilter(user, id, std),
                                  getLibrary(user), getLevelsWithFilter(user, id), getLessonsWithFilter(user, id)}
    \/ what = "curriculum" /\ answer \in {findcurriculum(id), findcurriculumgrades(id), BaselineHandler(user, id),
                                          getgradesbycurriculumid(id), getusergradesprogess(id)}
    \/ what = "grade" /\ answer \in {getlevelsbygradeid(id), getuserlevelsprogress(id)}
    \/ what = "level" /\ answer \in {getlessonsbylevelid(id), getuserlessonsprogress(id), getlevelactivitiesprogress(id),
                                     getlevelquestions(id), getlevelquestionsanswers(id, user)}
    \/ what = "lesson" /\ answer \in {getuserlessonprogress(id), getlessonactivitiesprogress(id),
                                      getlessonbricks(id, user), getlessonquestions(id)}
    \/ what = "lessonlearning" /\ answer = getlearninglesson(id, user)
    \/ what = "lessonplan" /\ answer = getplanlesson(id)
    \/ what = "lessonpractice" /\ answer = getpracticequestions({id})
    \/ what = "lessonquiz" /\ answer = getquizquestions({id})
    \/ what = "baseline" /\ answer = getbaselinequestions(id)

LEMMA HandlersOf ==
    ASSUME NEW ctl \in DOMAIN Controllers, NEW route \in DOMAIN Controllers[ctl], NEW user, NEW id, NEW std
    PROVE  RouteAnswers(Controllers[ctl][route], Handler(ctl, route, user, id, std), user, id, std)
<1>1. ctl \in {"curriculum", "grade", "level", "lesson", "learning", "question"} BY DEF Controllers
<1>2. CASE ctl = "curriculum"
  <2>1. Controllers[ctl] = CurriculumRoutes /\ Handler(ctl, route, user, id, std) = CurriculumController(route, user, id, std)
    BY <1>2 DEF Controllers, Handler
  <2>2. QED BY <2>1 DEF CurriculumRoutes, CurriculumController, RouteAnswers
<1>3. CASE ctl = "grade"
  <2>1. Controllers[ctl] = GradeRoutes /\ Handler(ctl, route, user, id, std) = GradeController(route, user, id, std)
    BY <1>3 DEF Controllers, Handler
  <2>2. QED BY <2>1 DEF GradeRoutes, GradeController, RouteAnswers
<1>4. CASE ctl = "level"
  <2>1. Controllers[ctl] = LevelRoutes /\ Handler(ctl, route, user, id, std) = LevelController(route, user, id, std)
    BY <1>4 DEF Controllers, Handler
  <2>2. QED BY <2>1 DEF LevelRoutes, LevelController, RouteAnswers
<1>5. CASE ctl = "lesson"
  <2>1. Controllers[ctl] = LessonRoutes /\ Handler(ctl, route, user, id, std) = LessonController(route, user, id, std)
    BY <1>5 DEF Controllers, Handler
  <2>2. QED BY <2>1 DEF LessonRoutes, LessonController, RouteAnswers
<1>6. CASE ctl = "learning"
  <2>1. Controllers[ctl] = LearningRoutes /\ Handler(ctl, route, user, id, std) = LearningController(route, user, id, std)
    BY <1>6 DEF Controllers, Handler
  <2>2. QED BY <2>1 DEF LearningRoutes, LearningController, RouteAnswers
<1>7. CASE ctl = "question"
  <2>1. Controllers[ctl] = QuestionRoutes /\ Handler(ctl, route, user, id, std) = QuestionController(route, user, id, std)
    BY <1>7 DEF Controllers, Handler
  <2>2. QED BY <2>1 DEF QuestionRoutes, QuestionController, RouteAnswers
<1>8. QED BY <1>1, <1>2, <1>3, <1>4, <1>5, <1>6, <1>7

(* An answer to a path that is a content of the curriculum c. *)
PathHolds(what, id, rows, org) ==
    \E c \in Curricula, live \in BOOLEAN :
        /\ curriculumIdsOf(what, id, FALSE) = {c}
        /\ curriculumIdsOf(what, id, TRUE) # {} => live /\ curriculumIdsOf(what, id, TRUE) = {c}
        /\ db.curriculums[c].organisationid = org => Proper(rows, c, live, org)

LEMMA PathAnswers ==
    ASSUME db \in Database, OwnDocuments, NEW ctl \in DOMAIN Controllers, NEW route \in DOMAIN Controllers[ctl],
           Controllers[ctl][route] # None, NEW id \in IdsFor(ctl, route), NEW user, NEW std
    PROVE  PathHolds(Controllers[ctl][route], id, Handler(ctl, route, user, id, std), user.organisationid)
<1> DEFINE what == Controllers[ctl][route]
           rows == Handler(ctl, route, user, id, std)
           org  == user.organisationid
<1>0. what # None OBVIOUS
<1>1. /\ what = "curriculum" => id \in Curricula
      /\ what = "grade" => id \in Grades
      /\ what = "level" => id \in Levels
      /\ what = "lesson" => id \in Lessons
      /\ what = "lessonlearning" => id \in Learnings
      /\ what = "lessonplan" => id \in Plans
      /\ what = "lessonpractice" => id \in Practices
      /\ what = "lessonquiz" => id \in Quizzes
      /\ what = "baseline" => id \in Baselines
  <2>1. None \notin {"curriculum", "grade", "level", "lesson", "baseline", "lessonlearning", "lessonplan",
                     "lessonpractice", "lessonquiz"}
    BY NoneAssumption DEF PathKinds
  <2>2. QED BY <2>1 DEF IdsFor
<1>20. RouteAnswers(what, rows, user, id, std) BY HandlersOf
<1> HIDE DEF what, rows, org
<1>2. \/ what = "curriculum" /\ rows \in {findcurriculum(id), findcurriculumgrades(id), BaselineHandler(user, id),
                                          getgradesbycurriculumid(id), getusergradesprogess(id)}
      \/ what = "grade" /\ rows \in {getlevelsbygradeid(id), getuserlevelsprogress(id)}
      \/ what = "level" /\ rows \in {getlessonsbylevelid(id), getuserlessonsprogress(id), getlevelactivitiesprogress(id),
                                     getlevelquestions(id), getlevelquestionsanswers(id, user)}
      \/ what = "lesson" /\ rows \in {getuserlessonprogress(id), getlessonactivitiesprogress(id),
                                      getlessonbricks(id, user), getlessonquestions(id)}
      \/ what = "lessonlearning" /\ rows = getlearninglesson(id, user)
      \/ what = "lessonplan" /\ rows = getplanlesson(id)
      \/ what = "lessonpractice" /\ rows = getpracticequestions({id})
      \/ what = "lessonquiz" /\ rows = getquizquestions({id})
      \/ what = "baseline" /\ rows = getbaselinequestions(id)
  BY <1>0, <1>20 DEF RouteAnswers
<1> SUFFICES PathHolds(what, id, rows, org) BY DEF what, rows, org
<1>3. ASSUME NEW c \in Curricula, NEW live \in BOOLEAN, curriculumIdsOf(what, id, FALSE) = {c},
             curriculumIdsOf(what, id, TRUE) # {} => live /\ curriculumIdsOf(what, id, TRUE) = {c},
             db.curriculums[c].organisationid = org => Proper(rows, c, live, org)
      PROVE  PathHolds(what, id, rows, org)
  BY <1>3 DEF PathHolds
<1>4. CASE what = "curriculum"
  <2>1. id \in Curricula BY <1>1, <1>4
  <2>2. curriculumIdsOf(what, id, FALSE) = {id} /\ curriculumIdsOf(what, id, TRUE) = {id} BY <1>4, <2>1, TierCurricula
  <2>3. AllInside(rows, id, TRUE) BY <1>2, <1>4, <2>1, UnderCurriculum
  <2>4. Proper(rows, id, TRUE, org) BY <2>3 DEF AllInside, Proper
  <2>5. QED BY <1>3, <2>1, <2>2, <2>4
<1>5. CASE what = "grade"
  <2> DEFINE c == db.grades[id].curriculumid
  <2>1. id \in Grades /\ c \in Curricula BY <1>1, <1>5, Ids
  <2>2. curriculumIdsOf(what, id, FALSE) = {c} /\ curriculumIdsOf(what, id, TRUE) = {c} BY <1>5, <2>1, TierCurricula
  <2>3. AllInside(rows, c, TRUE) BY <1>2, <1>5, <2>1, UnderGrade
  <2>4. Proper(rows, c, TRUE, org) BY <2>3 DEF AllInside, Proper
  <2> HIDE DEF c
  <2>5. QED BY <1>3, <2>1, <2>2, <2>4
<1>6. CASE what = "level"
  <2> DEFINE c == CurriculumOfLevel(id)
             live == db.levels[id].status
  <2>1. id \in Levels /\ c \in Curricula /\ live \in BOOLEAN
    <3>1. id \in Levels BY <1>1, <1>6
    <3>2. db.levels[id] \in LevelRow BY <3>1 DEF Database
    <3>3. QED BY <3>1, <3>2, Ids DEF CurriculumOfLevel, LevelRow
  <2>2. curriculumIdsOf(what, id, FALSE) = {c} /\ curriculumIdsOf(what, id, TRUE) = IF live THEN {c} ELSE {}
    <3>1. \A b \in BOOLEAN : curriculumOfLevel(id, b) = IF b => db.levels[id].status THEN {CurriculumOfLevel(id)} ELSE {}
      BY <2>1, TierCurricula
    <3>2. \A b \in BOOLEAN : curriculumIdsOf("level", id, b) = curriculumOfLevel(id, b) BY TierCurricula
    <3>3. QED BY <1>6, <3>1, <3>2
  <2>3. c = CurriculumOfLevel(id) /\ (live => db.levels[id].status) OBVIOUS
  <2> HIDE DEF c, live
  <2>6. AllInside(rows, c, live)
    <3>1. /\ AllInside(getlessonsbylevelid(id), c, live) /\ AllInside(getuserlessonsprogress(id), c, live)
          /\ AllInside(getlevelactivitiesprogress(id), c, live)
          /\ AllInside(getlevelquestions(id), c, live) /\ AllInside(getlevelquestionsanswers(id, user), c, live)
      BY <2>1, <2>3, UnderLevel
    <3>2. QED BY <1>2, <1>6, <3>1
  <2>4. Proper(rows, c, live, org) BY <2>1, <2>6, InsideIsProper
  <2>5. QED BY <1>3, <2>1, <2>2, <2>4
<1>7. CASE what = "lesson"
  <2> DEFINE c == CurriculumOfLesson(id)
             live == Live(id)
  <2>1. id \in Lessons /\ c \in Curricula /\ live \in BOOLEAN
    <3>1. id \in Lessons /\ db.lessons[id].levelid \in Levels BY <1>1, <1>7, Ids
    <3>2. db.levels[db.lessons[id].levelid] \in LevelRow BY <3>1 DEF Database
    <3>3. QED BY <3>1, <3>2, Ids DEF CurriculumOfLesson, CurriculumOfLevel, LevelRow, Live
  <2>2. curriculumIdsOf(what, id, FALSE) = {c} /\ curriculumIdsOf(what, id, TRUE) = IF live THEN {c} ELSE {}
    <3>1. \A b \in BOOLEAN : curriculumOfLesson(id, b) = IF b => Live(id) THEN {CurriculumOfLesson(id)} ELSE {}
      BY <2>1, TierCurricula
    <3>2. \A b \in BOOLEAN : curriculumIdsOf("lesson", id, b) = curriculumOfLesson(id, b) BY TierCurricula
    <3>3. QED BY <1>7, <3>1, <3>2
  <2>0. c = CurriculumOfLesson(id) /\ (live => Live(id)) OBVIOUS
  <2> HIDE DEF c, live
  <2>3. ASSUME org = db.curriculums[c].organisationid PROVE Proper(rows, c, live, org)
    <3>1. /\ AllInside(getuserlessonprogress(id), c, live) /\ AllInside(getlessonactivitiesprogress(id), c, live)
          /\ AllInside(getlessonbricks(id, user), c, live) /\ Proper(getlessonquestions(id), c, live, org)
      BY <2>0, <2>1, <2>3, UnderLesson
    <3>2. AllInside(rows, c, live) \/ Proper(rows, c, live, org) BY <1>2, <1>7, <3>1
    <3>3. QED BY <2>1, <3>2, InsideIsProper
  <2>4. QED BY <1>3, <2>1, <2>2, <2>3
<1>8. ASSUME NEW l \in Lessons, what \in Activities, id \in Has(what), LessonOf(what, id) = l,
             \A live \in BOOLEAN : (live => Live(l)) /\ db.curriculums[CurriculumOfLesson(l)].organisationid = org
                                       => Proper(rows, CurriculumOfLesson(l), live, org)
      PROVE  PathHolds(what, id, rows, org)
  <2> DEFINE c == CurriculumOfLesson(l)
             live == Live(l)
  <2>1. c \in Curricula /\ live \in BOOLEAN
    <3>1. db.lessons[l].levelid \in Levels BY Ids
    <3>2. db.levels[db.lessons[l].levelid] \in LevelRow BY <3>1 DEF Database
    <3>3. QED BY <3>1, <3>2, Ids DEF CurriculumOfLesson, CurriculumOfLevel, LevelRow, Live
  <2>2. curriculumIdsOf(what, id, FALSE) = curriculumOfLesson(l, FALSE) /\ curriculumIdsOf(what, id, TRUE) = curriculumOfLesson(l, TRUE)
    BY <1>8, ActivityCurricula
  <2>3. curriculumOfLesson(l, FALSE) = {c} /\ curriculumOfLesson(l, TRUE) = IF live THEN {c} ELSE {} BY TierCurricula
  <2>4. db.curriculums[c].organisationid = org => Proper(rows, c, live, org) BY <1>8, <2>1
  <2> HIDE DEF c, live
  <2>5. QED BY <1>3, <2>1, <2>2, <2>3, <2>4
<1>9. CASE what = "lessonlearning"
  <2>1. what \in Activities /\ id \in Has(what) /\ LessonOf(what, id) = db.lessonlearnings[id].lessonid
        /\ id \in Learnings /\ db.lessonlearnings[id].lessonid \in Lessons
    BY <1>1, <1>9, Tables, Ids DEF Activities, Has, LessonOf, ActivityTable
  <2> DEFINE l == db.lessonlearnings[id].lessonid
  <2>2. rows = getlearninglesson(id, user) BY <1>2, <1>9
  <2>3. \A live \in BOOLEAN : (live => Live(l)) /\ db.curriculums[CurriculumOfLesson(l)].organisationid = org
                                  => Proper(rows, CurriculumOfLesson(l), live, org)
    BY <2>1, <2>2, UnderItem DEF org
  <2> HIDE DEF l
  <2>4. QED BY <1>8, <2>1, <2>3 DEF l
<1>10. CASE what = "lessonplan"
  <2>1. what \in Activities /\ id \in Has(what) /\ LessonOf(what, id) = db.lessonplans[id].lessonid
        /\ id \in Plans /\ db.lessonplans[id].lessonid \in Lessons
    BY <1>1, <1>10, Tables, Ids DEF Activities, Has, LessonOf, ActivityTable
  <2> DEFINE l == db.lessonplans[id].lessonid
  <2>2. rows = getplanlesson(id) BY <1>2, <1>10
  <2>3. \A live \in BOOLEAN : (live => Live(l)) /\ db.curriculums[CurriculumOfLesson(l)].organisationid = org
                                  => Proper(rows, CurriculumOfLesson(l), live, org)
    BY <2>1, <2>2, UnderItem DEF org
  <2> HIDE DEF l
  <2>4. QED BY <1>8, <2>1, <2>3 DEF l
<1>11. CASE what = "lessonpractice"
  <2>1. what \in Activities /\ id \in Has(what) /\ LessonOf(what, id) = db.lessonpractices[id].lessonid
        /\ id \in Practices /\ db.lessonpractices[id].lessonid \in Lessons
    BY <1>1, <1>11, Tables, Ids DEF Activities, Has, LessonOf, ActivityTable
  <2> DEFINE l == db.lessonpractices[id].lessonid
  <2>2. rows = getpracticequestions({id}) BY <1>2, <1>11
  <2>3. ASSUME NEW live \in BOOLEAN, live => Live(l) PROVE Proper(rows, CurriculumOfLesson(l), live, org)
    <3>1. AllInside(rows, CurriculumOfLesson(l), live) BY <2>1, <2>2, <2>3, UnderActivity
    <3>2. QED BY <3>1, InsideIsProper
  <2> HIDE DEF l
  <2>4. QED BY <1>8, <2>1, <2>3 DEF l
<1>12. CASE what = "lessonquiz"
  <2>1. what \in Activities /\ id \in Has(what) /\ LessonOf(what, id) = db.lessonquizzes[id].lessonid
        /\ id \in Quizzes /\ db.lessonquizzes[id].lessonid \in Lessons
    BY <1>1, <1>12, Tables, Ids DEF Activities, Has, LessonOf, ActivityTable
  <2> DEFINE l == db.lessonquizzes[id].lessonid
  <2>2. rows = getquizquestions({id}) BY <1>2, <1>12
  <2>3. ASSUME NEW live \in BOOLEAN, live => Live(l) PROVE Proper(rows, CurriculumOfLesson(l), live, org)
    <3>1. AllInside(rows, CurriculumOfLesson(l), live) BY <2>1, <2>2, <2>3, UnderActivity
    <3>2. QED BY <3>1, InsideIsProper
  <2> HIDE DEF l
  <2>4. QED BY <1>8, <2>1, <2>3 DEF l
<1>13. CASE what = "baseline"
  <2> DEFINE c == db.curriculumbaseline[id].curriculumid
  <2>1. id \in Baselines /\ c \in Curricula BY <1>1, <1>13, Ids
  <2>2. curriculumIdsOf(what, id, FALSE) = {c} /\ curriculumIdsOf(what, id, TRUE) = {c} BY <1>13, <2>1, TierCurricula
  <2>3. AllInside(rows, c, TRUE) BY <1>2, <1>13, <2>1, UnderBaseline
  <2>4. Proper(rows, c, TRUE, org) BY <2>3 DEF AllInside, Proper
  <2> HIDE DEF c
  <2>5. QED BY <1>3, <2>1, <2>2, <2>4
<1>14. QED BY <1>2, <1>4, <1>5, <1>6, <1>7, <1>9, <1>10, <1>11, <1>12, <1>13

-----------------------------------------------------------------------------
(* Writes: one table of a row, and no owner. *)

(* A table is replaced. *)
LEMMA TableWritten ==
    ASSUME db \in Database
    PROVE  /\ \A T \in [Orgs -> BOOLEAN] : [db EXCEPT !.organisations = T] \in Database
           /\ \A T \in [Schools -> SchoolRow] : [db EXCEPT !.schools = T] \in Database
           /\ \A T \in [Curricula -> CurriculumRow] : [db EXCEPT !.curriculums = T] \in Database
           /\ \A T \in [Grades -> GradeRow] : [db EXCEPT !.grades = T] \in Database
           /\ \A T \in [Levels -> LevelRow] : [db EXCEPT !.levels = T] \in Database
           /\ \A T \in [Lessons -> LessonRow] : [db EXCEPT !.lessons = T] \in Database
           /\ \A T \in [Learnings -> LearningRow] : [db EXCEPT !.lessonlearnings = T] \in Database
           /\ \A T \in [PracticeQuestions -> PracticeQuestionRow] : [db EXCEPT !.lessonpracticequestions = T] \in Database
           /\ \A T \in [Learners -> StudentRow] : [db EXCEPT !.students = T] \in Database
           /\ \A T \in [Learners \X Lessons -> LessonProgressRow \cup {None}] :
                 [db EXCEPT !.studentlessonsprogress = T] \in Database
           /\ \A T \in [Learners \X References -> Nat \cup {None}] : [db EXCEPT !.studentprogress = T] \in Database
<1>1. \A T \in [Orgs -> BOOLEAN] : [db EXCEPT !.organisations = T] \in Database BY DEF Database
<1>2. \A T \in [Schools -> SchoolRow] : [db EXCEPT !.schools = T] \in Database BY DEF Database
<1>3. \A T \in [Curricula -> CurriculumRow] : [db EXCEPT !.curriculums = T] \in Database BY DEF Database
<1>4. \A T \in [Grades -> GradeRow] : [db EXCEPT !.grades = T] \in Database BY DEF Database
<1>5. \A T \in [Levels -> LevelRow] : [db EXCEPT !.levels = T] \in Database BY DEF Database
<1>6. \A T \in [Lessons -> LessonRow] : [db EXCEPT !.lessons = T] \in Database BY DEF Database
<1>7. \A T \in [Learnings -> LearningRow] : [db EXCEPT !.lessonlearnings = T] \in Database BY DEF Database
<1>8. \A T \in [PracticeQuestions -> PracticeQuestionRow] : [db EXCEPT !.lessonpracticequestions = T] \in Database
  BY DEF Database
<1>9. \A T \in [Learners -> StudentRow] : [db EXCEPT !.students = T] \in Database BY DEF Database
<1>10. ASSUME NEW T \in [Learners \X Lessons -> LessonProgressRow \cup {None}]
       PROVE  [db EXCEPT !.studentlessonsprogress = T] \in Database
  BY DEF Database
<1>11. ASSUME NEW T \in [Learners \X References -> Nat \cup {None}]
       PROVE  [db EXCEPT !.studentprogress = T] \in Database
  BY DEF Database
<1>12. QED BY <1>1, <1>2, <1>3, <1>4, <1>5, <1>6, <1>7, <1>8, <1>9, <1>10, <1>11

(* The owners of the tiers. *)
OwnerOfGrade(g)  == db.curriculums[db.grades[g].curriculumid].organisationid
OwnerOfLevel(v)  == OwnerOfGrade(db.levels[v].gradeid)
OwnerOfLesson(l) == OwnerOfLevel(db.lessons[l].levelid)
OwnerOfLearner(k) == db.schools[db.students[k].schoolid].organisationid

(* No tier, no school and no learner gets another owner. *)
OwnersStand ==
    /\ \A c \in Curricula : db'.curriculums[c].organisationid = db.curriculums[c].organisationid
    /\ \A g \in Grades : OwnerOfGrade(g)' = OwnerOfGrade(g)
    /\ \A v \in Levels : OwnerOfLevel(v)' = OwnerOfLevel(v)
    /\ \A l \in Lessons : OwnerOfLesson(l)' = OwnerOfLesson(l)
    /\ \A s \in Schools : db'.schools[s].organisationid = db.schools[s].organisationid
    /\ \A k \in Learners : OwnerOfLearner(k)' = OwnerOfLearner(k)

(* The totals an import may give a lesson. *)
GivenTotals == {w.total_points : w \in Weights}

(* An item keeps its lesson and its document, a learner the login and the quizzes tried; other tables stand still. *)
LinksStand ==
    /\ \A n \in Learnings : /\ db'.lessonlearnings[n].lessonid = db.lessonlearnings[n].lessonid
                            /\ db'.lessonlearnings[n].documentid = db.lessonlearnings[n].documentid
    /\ \A k \in Learners : /\ db'.students[k].schooluserid = db.students[k].schooluserid
                           /\ \A q \in Quizzes : db'.studentprogress[<<k, q>>] = db.studentprogress[<<k, q>>]
    /\ db'.lessonplans = db.lessonplans /\ db'.lessonpractices = db.lessonpractices
    /\ db'.lessonquizzes = db.lessonquizzes /\ db'.curriculumbaseline = db.curriculumbaseline
    /\ db'.documents = db.documents /\ db'.schoolusers = db.schoolusers
    /\ \A l \in Lessons : db'.lessons[l].total_points \in {db.lessons[l].total_points} \cup GivenTotals

Kept == db' \in Database /\ OwnersStand /\ LinksStand

(* The rows an organisation owns. *)
LEMMA OwnRows ==
    ASSUME db \in Database, NEW org
    PROVE  /\ \A c \in OwnCurricula(org) : c \in Curricula /\ db.curriculums[c].organisationid = org
           /\ \A g \in OwnGrades(org) : g \in Grades /\ OwnerOfGrade(g) = org
           /\ \A v \in OwnLevels(org) : v \in Levels /\ OwnerOfLevel(v) = org
           /\ \A l \in OwnLessons(org) : l \in Lessons /\ OwnerOfLesson(l) = org
<1>1. \A c \in OwnCurricula(org) : c \in Curricula /\ db.curriculums[c].organisationid = org
  BY DEF OwnCurricula, curriculaInScope
<1>2. \A g \in OwnGrades(org) : g \in Grades /\ db.grades[g].curriculumid \in OwnCurricula(org)
  BY Tables DEF OwnGrades, FindAll
<1>3. \A v \in OwnLevels(org) : v \in Levels /\ db.levels[v].gradeid \in OwnGrades(org)
  BY Tables DEF OwnLevels, FindAll
<1>4. \A l \in OwnLessons(org) : l \in Lessons /\ db.lessons[l].levelid \in OwnLevels(org)
  BY Tables DEF OwnLessons, FindAll
<1>5. QED BY <1>1, <1>2, <1>3, <1>4 DEF OwnerOfGrade, OwnerOfLevel, OwnerOfLesson

(* A row of a tier is switched, marked, moved or weighed. *)
LEMMA TierWritten ==
    ASSUME db \in Database
    PROVE  /\ \A c \in Curricula : \A row \in CurriculumRow :
                 row.organisationid = db.curriculums[c].organisationid
                 /\ db' = [db EXCEPT !.curriculums = [db.curriculums EXCEPT ![c] = row]] => Kept
           /\ \A g \in Grades : \A row \in GradeRow :
                 db.curriculums[row.curriculumid].organisationid = OwnerOfGrade(g)
                 /\ db' = [db EXCEPT !.grades = [db.grades EXCEPT ![g] = row]] => Kept
           /\ \A v \in Levels : \A row \in LevelRow :
                 OwnerOfGrade(row.gradeid) = OwnerOfLevel(v)
                 /\ db' = [db EXCEPT !.levels = [db.levels EXCEPT ![v] = row]] => Kept
           /\ \A l \in Lessons : \A row \in LessonRow :
                 OwnerOfLevel(row.levelid) = OwnerOfLesson(l)
                 /\ row.total_points \in {db.lessons[l].total_points} \cup GivenTotals
                 /\ db' = [db EXCEPT !.lessons = [db.lessons EXCEPT ![l] = row]] => Kept
<1>1. ASSUME NEW c \in Curricula, NEW row \in CurriculumRow, row.organisationid = db.curriculums[c].organisationid,
             db' = [db EXCEPT !.curriculums = [db.curriculums EXCEPT ![c] = row]]
      PROVE  Kept
  <2>1. db.curriculums \in [Curricula -> CurriculumRow] BY DEF Database
  <2>2. [db.curriculums EXCEPT ![c] = row] \in [Curricula -> CurriculumRow] BY <2>1
  <2>3. db' \in Database BY <1>1, <2>2, TableWritten
  <2>4. LinksStand BY <1>1 DEF Database, LinksStand
  <2>5. \A d \in Curricula : db'.curriculums[d].organisationid = db.curriculums[d].organisationid
    BY <1>1, <2>1 DEF Database
  <2>6. db'.grades = db.grades /\ db'.levels = db.levels /\ db'.lessons = db.lessons /\ db'.schools = db.schools
        /\ db'.students = db.students
    BY <1>1 DEF Database
  <2>7. OwnersStand BY <2>5, <2>6, Ids DEF OwnersStand, OwnerOfGrade, OwnerOfLevel, OwnerOfLesson, OwnerOfLearner
  <2>8. QED BY <2>3, <2>4, <2>7 DEF Kept
<1>2. ASSUME NEW g \in Grades, NEW row \in GradeRow, db.curriculums[row.curriculumid].organisationid = OwnerOfGrade(g),
             db' = [db EXCEPT !.grades = [db.grades EXCEPT ![g] = row]]
      PROVE  Kept
  <2>1. db.grades \in [Grades -> GradeRow] BY DEF Database
  <2>2. [db.grades EXCEPT ![g] = row] \in [Grades -> GradeRow] BY <2>1
  <2>3. db' \in Database BY <1>2, <2>2, TableWritten
  <2>4. LinksStand BY <1>2 DEF Database, LinksStand
  <2>5. \A h \in Grades : db'.grades[h] = IF h = g THEN row ELSE db.grades[h] BY <1>2, <2>1 DEF Database
  <2>6. db'.curriculums = db.curriculums /\ db'.levels = db.levels /\ db'.lessons = db.lessons
        /\ db'.schools = db.schools /\ db'.students = db.students
    BY <1>2 DEF Database
  <2>7. \A h \in Grades : OwnerOfGrade(h)' = OwnerOfGrade(h) BY <1>2, <2>5, <2>6 DEF OwnerOfGrade
  <2>8. OwnersStand BY <2>6, <2>7, Ids DEF OwnersStand, OwnerOfLevel, OwnerOfLesson, OwnerOfLearner
  <2>9. QED BY <2>3, <2>4, <2>8 DEF Kept
<1>3. ASSUME NEW v \in Levels, NEW row \in LevelRow, OwnerOfGrade(row.gradeid) = OwnerOfLevel(v),
             db' = [db EXCEPT !.levels = [db.levels EXCEPT ![v] = row]]
      PROVE  Kept
  <2>1. db.levels \in [Levels -> LevelRow] BY DEF Database
  <2>2. [db.levels EXCEPT ![v] = row] \in [Levels -> LevelRow] BY <2>1
  <2>3. db' \in Database BY <1>3, <2>2, TableWritten
  <2>4. LinksStand BY <1>3 DEF Database, LinksStand
  <2>5. \A w \in Levels : db'.levels[w] = IF w = v THEN row ELSE db.levels[w] BY <1>3, <2>1 DEF Database
  <2>6. db'.curriculums = db.curriculums /\ db'.grades = db.grades /\ db'.lessons = db.lessons
        /\ db'.schools = db.schools /\ db'.students = db.students
    BY <1>3 DEF Database
  <2>7. \A w \in Levels : OwnerOfLevel(w)' = OwnerOfLevel(w) BY <1>3, <2>5, <2>6 DEF OwnerOfLevel, OwnerOfGrade
  <2>8. OwnersStand BY <2>6, <2>7, Ids DEF OwnersStand, OwnerOfGrade, OwnerOfLesson, OwnerOfLearner
  <2>9. QED BY <2>3, <2>4, <2>8 DEF Kept
<1>4. ASSUME NEW l \in Lessons, NEW row \in LessonRow, OwnerOfLevel(row.levelid) = OwnerOfLesson(l),
             row.total_points \in {db.lessons[l].total_points} \cup GivenTotals,
             db' = [db EXCEPT !.lessons = [db.lessons EXCEPT ![l] = row]]
      PROVE  Kept
  <2>1. db.lessons \in [Lessons -> LessonRow] BY DEF Database
  <2>2. [db.lessons EXCEPT ![l] = row] \in [Lessons -> LessonRow] BY <2>1
  <2>3. db' \in Database BY <1>4, <2>2, TableWritten
  <2>5. \A m \in Lessons : db'.lessons[m] = IF m = l THEN row ELSE db.lessons[m] BY <1>4, <2>1 DEF Database
  <2>4. LinksStand
    <3>1. \A m \in Lessons : db'.lessons[m].total_points \in {db.lessons[m].total_points} \cup GivenTotals BY <1>4, <2>5
    <3>2. QED BY <1>4, <3>1 DEF Database, LinksStand
  <2>6. db'.curriculums = db.curriculums /\ db'.grades = db.grades /\ db'.levels = db.levels
        /\ db'.schools = db.schools /\ db'.students = db.students
    BY <1>4 DEF Database
  <2>7. \A m \in Lessons : OwnerOfLesson(m)' = OwnerOfLesson(m)
    BY <1>4, <2>5, <2>6 DEF OwnerOfLesson, OwnerOfLevel, OwnerOfGrade
  <2>8. OwnersStand BY <2>6, <2>7 DEF OwnersStand, OwnerOfGrade, OwnerOfLevel, OwnerOfLearner
  <2>9. QED BY <2>3, <2>4, <2>8 DEF Kept
<1>5. QED BY <1>1, <1>2, <1>3, <1>4

(* A row of an item, a question, a school or a learner, an organisation's switch, a learner's points. *)
LEMMA RowWritten ==
    ASSUME db \in Database
    PROVE  /\ \A n \in Learnings : \A row \in LearningRow :
                 row.lessonid = db.lessonlearnings[n].lessonid /\ row.documentid = db.lessonlearnings[n].documentid
                 /\ db' = [db EXCEPT !.lessonlearnings = [db.lessonlearnings EXCEPT ![n] = row]] => Kept
           /\ \A q \in PracticeQuestions : \A row \in PracticeQuestionRow :
                 db' = [db EXCEPT !.lessonpracticequestions = [db.lessonpracticequestions EXCEPT ![q] = row]] => Kept
           /\ \A s \in Schools : \A row \in SchoolRow :
                 row.organisationid = db.schools[s].organisationid
                 /\ db' = [db EXCEPT !.schools = [db.schools EXCEPT ![s] = row]] => Kept
           /\ \A k \in Learners : \A row \in StudentRow :
                 row.schooluserid = db.students[k].schooluserid
                 /\ db.schools[row.schoolid].organisationid = OwnerOfLearner(k)
                 /\ db' = [db EXCEPT !.students = [db.students EXCEPT ![k] = row]] => Kept
           /\ \A o : db' = [db EXCEPT !.organisations = [db.organisations EXCEPT ![o] = FALSE]] => Kept
           /\ \A x : \A row \in LessonProgressRow :
                 db' = [db EXCEPT !.studentlessonsprogress = [db.studentlessonsprogress EXCEPT ![x] = row]] => Kept
           /\ \A k \in Learners, p \in Practices, marks \in Nat :
                 db' = [db EXCEPT !.studentprogress = [db.studentprogress EXCEPT ![<<k, p>>] = marks]] => Kept
<1>1. ASSUME db'.curriculums = db.curriculums, db'.grades = db.grades, db'.levels = db.levels, db'.lessons = db.lessons,
             db'.schools = db.schools, db'.students = db.students
      PROVE  OwnersStand
  BY <1>1 DEF OwnersStand, OwnerOfGrade, OwnerOfLevel, OwnerOfLesson, OwnerOfLearner
<1>2. ASSUME NEW n \in Learnings, NEW row \in LearningRow, row.lessonid = db.lessonlearnings[n].lessonid,
             row.documentid = db.lessonlearnings[n].documentid,
             db' = [db EXCEPT !.lessonlearnings = [db.lessonlearnings EXCEPT ![n] = row]]
      PROVE  Kept
  <2>1. db.lessonlearnings \in [Learnings -> LearningRow] BY DEF Database
  <2>2. db' \in Database BY <1>2, <2>1, TableWritten
  <2>3. \A m \in Learnings : db'.lessonlearnings[m] = IF m = n THEN row ELSE db.lessonlearnings[m]
    BY <1>2, <2>1 DEF Database
  <2>4. LinksStand BY <1>2, <2>3 DEF Database, LinksStand
  <2>5. OwnersStand BY <1>1, <1>2 DEF Database
  <2>6. QED BY <2>2, <2>4, <2>5 DEF Kept
<1>3. ASSUME NEW q \in PracticeQuestions, NEW row \in PracticeQuestionRow,
             db' = [db EXCEPT !.lessonpracticequestions = [db.lessonpracticequestions EXCEPT ![q] = row]]
      PROVE  Kept
  <2>1. db.lessonpracticequestions \in [PracticeQuestions -> PracticeQuestionRow] BY DEF Database
  <2>2. db' \in Database BY <1>3, <2>1, TableWritten
  <2>3. LinksStand BY <1>3 DEF Database, LinksStand
  <2>4. OwnersStand BY <1>1, <1>3 DEF Database
  <2>5. QED BY <2>2, <2>3, <2>4 DEF Kept
<1>4. ASSUME NEW s \in Schools, NEW row \in SchoolRow, row.organisationid = db.schools[s].organisationid,
             db' = [db EXCEPT !.schools = [db.schools EXCEPT ![s] = row]]
      PROVE  Kept
  <2>1. db.schools \in [Schools -> SchoolRow] BY DEF Database
  <2>2. db' \in Database BY <1>4, <2>1, TableWritten
  <2>3. LinksStand BY <1>4 DEF Database, LinksStand
  <2>4. \A t \in Schools : db'.schools[t].organisationid = db.schools[t].organisationid BY <1>4, <2>1 DEF Database
  <2>5. db'.curriculums = db.curriculums /\ db'.grades = db.grades /\ db'.levels = db.levels
        /\ db'.lessons = db.lessons /\ db'.students = db.students
    BY <1>4 DEF Database
  <2>6. \A k \in Learners : db.students[k].schoolid \in Schools BY DEF Database, StudentRow
  <2>7. OwnersStand BY <2>4, <2>5, <2>6 DEF OwnersStand, OwnerOfGrade, OwnerOfLevel, OwnerOfLesson, OwnerOfLearner
  <2>8. QED BY <2>2, <2>3, <2>7 DEF Kept
<1>5. ASSUME NEW k \in Learners, NEW row \in StudentRow, row.schooluserid = db.students[k].schooluserid,
             db.schools[row.schoolid].organisationid = OwnerOfLearner(k),
             db' = [db EXCEPT !.students = [db.students EXCEPT ![k] = row]]
      PROVE  Kept
  <2>1. db.students \in [Learners -> StudentRow] BY DEF Database
  <2>2. db' \in Database BY <1>5, <2>1, TableWritten
  <2>3. \A j \in Learners : db'.students[j] = IF j = k THEN row ELSE db.students[j] BY <1>5, <2>1 DEF Database
  <2>4. LinksStand BY <1>5, <2>3 DEF Database, LinksStand
  <2>5. db'.curriculums = db.curriculums /\ db'.grades = db.grades /\ db'.levels = db.levels
        /\ db'.lessons = db.lessons /\ db'.schools = db.schools
    BY <1>5 DEF Database
  <2>6. OwnersStand
    BY <1>5, <2>3, <2>5 DEF OwnersStand, OwnerOfGrade, OwnerOfLevel, OwnerOfLesson, OwnerOfLearner
  <2>7. QED BY <2>2, <2>4, <2>6 DEF Kept
<1>6. ASSUME NEW o, db' = [db EXCEPT !.organisations = [db.organisations EXCEPT ![o] = FALSE]]
      PROVE  Kept
  <2>1. db.organisations \in [Orgs -> BOOLEAN] BY DEF Database
  <2>2. [db.organisations EXCEPT ![o] = FALSE] \in [Orgs -> BOOLEAN] BY <2>1
  <2>3. db' \in Database BY <1>6, <2>2, TableWritten
  <2>4. LinksStand BY <1>6 DEF Database, LinksStand
  <2>5. OwnersStand BY <1>1, <1>6 DEF Database
  <2>6. QED BY <2>3, <2>4, <2>5 DEF Kept
<1>7. ASSUME NEW x, NEW row \in LessonProgressRow,
             db' = [db EXCEPT !.studentlessonsprogress = [db.studentlessonsprogress EXCEPT ![x] = row]]
      PROVE  Kept
  <2> DEFINE D == Learners \X Lessons
             R == LessonProgressRow \cup {None}
  <2>1. db.studentlessonsprogress \in [D -> R] /\ row \in R BY DEF Database
  <2>2. [db.studentlessonsprogress EXCEPT ![x] = row] \in [D -> R]
    <3> HIDE DEF D, R
    <3>1. QED BY <2>1
  <2>3. db' \in Database BY <1>7, <2>2, TableWritten
  <2>4. LinksStand BY <1>7 DEF Database, LinksStand
  <2>5. OwnersStand BY <1>1, <1>7 DEF Database
  <2>6. QED BY <2>3, <2>4, <2>5 DEF Kept
<1>8. ASSUME NEW k \in Learners, NEW p \in Practices, NEW marks \in Nat,
             db' = [db EXCEPT !.studentprogress = [db.studentprogress EXCEPT ![<<k, p>>] = marks]]
      PROVE  Kept
  <2> DEFINE D == Learners \X References
             R == Nat \cup {None}
  <2>1. db.studentprogress \in [D -> R] /\ marks \in R BY DEF Database
  <2>2. [db.studentprogress EXCEPT ![<<k, p>>] = marks] \in [D -> R]
    <3> HIDE DEF D, R
    <3>1. QED BY <2>1
  <2>3. db' \in Database BY <1>8, <2>2, TableWritten
  <2>4. db'.studentprogress = [db.studentprogress EXCEPT ![<<k, p>>] = marks] BY <1>8 DEF Database
  <2>5. \A j \in Learners, q \in Quizzes : db'.studentprogress[<<j, q>>] = db.studentprogress[<<j, q>>]
    <3>1. \A j \in Learners, q \in Quizzes : <<j, q>> \in D /\ <<j, q>> # <<k, p>>
      BY AccessAssumption DEF References
    <3> HIDE DEF D, R
    <3>2. QED BY <2>1, <2>4, <3>1
  <2>6. db'.lessonlearnings = db.lessonlearnings /\ db'.students = db.students /\ db'.lessonplans = db.lessonplans
        /\ db'.lessonpractices = db.lessonpractices /\ db'.lessonquizzes = db.lessonquizzes
        /\ db'.curriculumbaseline = db.curriculumbaseline /\ db'.documents = db.documents
        /\ db'.schoolusers = db.schoolusers /\ db'.lessons = db.lessons
    BY <1>8 DEF Database
  <2>7. LinksStand BY <2>5, <2>6 DEF LinksStand
  <2>8. OwnersStand BY <1>1, <1>8 DEF Database
  <2>9. QED BY <2>3, <2>7, <2>8 DEF Kept
<1>9. QED BY <1>2, <1>3, <1>4, <1>5, <1>6, <1>7, <1>8

(* What an import writes to the tiers. *)
LEMMA ContentKept ==
    ASSUME db \in Database, NEW o \in Pushed, SwitchContent(o) \/ MoveContent(o) \/ WeighContent(o)
    PROVE  Kept
<1>1. ASSUME NEW c \in OwnCurricula(o), db' = [db EXCEPT !.curriculums[c].status = ~@] PROVE Kept
  <2> DEFINE row == [db.curriculums[c] EXCEPT !.status = ~@]
  <2>1. c \in Curricula /\ db.curriculums[c] \in CurriculumRow BY OwnRows DEF Database
  <2>2. row \in CurriculumRow /\ row.organisationid = db.curriculums[c].organisationid BY <2>1 DEF CurriculumRow
  <2>3. db' = [db EXCEPT !.curriculums = [db.curriculums EXCEPT ![c] = row]] BY <1>1, <2>1 DEF Database
  <2> HIDE DEF row
  <2>4. QED BY <2>1, <2>2, <2>3, TierWritten
<1>2. ASSUME NEW g \in OwnGrades(o), NEW row \in GradeRow, db.curriculums[row.curriculumid].organisationid = o,
             db' = [db EXCEPT !.grades = [db.grades EXCEPT ![g] = row]]
      PROVE  Kept
  BY <1>2, OwnRows, TierWritten
<1>3. ASSUME NEW v \in OwnLevels(o), NEW row \in LevelRow, OwnerOfGrade(row.gradeid) = o,
             db' = [db EXCEPT !.levels = [db.levels EXCEPT ![v] = row]]
      PROVE  Kept
  BY <1>3, OwnRows, TierWritten
<1>4. ASSUME NEW l \in OwnLessons(o), NEW row \in LessonRow, OwnerOfLevel(row.levelid) = o,
             row.total_points \in {db.lessons[l].total_points} \cup GivenTotals,
             db' = [db EXCEPT !.lessons = [db.lessons EXCEPT ![l] = row]]
      PROVE  Kept
  BY <1>4, OwnRows, TierWritten
<1>5. ASSUME NEW g \in OwnGrades(o), db' = [db EXCEPT !.grades[g].status = ~@] PROVE Kept
  <2> DEFINE row == [db.grades[g] EXCEPT !.status = ~@]
  <2>1. db.grades[g] \in GradeRow /\ OwnerOfGrade(g) = o BY OwnRows DEF Database
  <2>2. row \in GradeRow /\ row.curriculumid = db.grades[g].curriculumid BY <2>1 DEF GradeRow
  <2>3. db' = [db EXCEPT !.grades = [db.grades EXCEPT ![g] = row]] BY <1>5, <2>1 DEF Database
  <2> HIDE DEF row
  <2>4. QED BY <1>2, <2>1, <2>2, <2>3 DEF OwnerOfGrade
<1>6. ASSUME NEW v \in OwnLevels(o), NEW row, row.gradeid = db.levels[v].gradeid, row \in LevelRow,
             db' = [db EXCEPT !.levels = [db.levels EXCEPT ![v] = row]]
      PROVE  Kept
  BY <1>3, <1>6, OwnRows DEF OwnerOfLevel
<1>7. ASSUME NEW v \in OwnLevels(o), db' = [db EXCEPT !.levels[v].status = ~@] PROVE Kept
  <2> DEFINE row == [db.levels[v] EXCEPT !.status = ~@]
  <2>1. db.levels[v] \in LevelRow BY OwnRows DEF Database
  <2>2. row \in LevelRow /\ row.gradeid = db.levels[v].gradeid BY <2>1 DEF LevelRow
  <2>3. db' = [db EXCEPT !.levels = [db.levels EXCEPT ![v] = row]] BY <1>7, <2>1 DEF Database
  <2> HIDE DEF row
  <2>4. QED BY <1>6, <2>2, <2>3
<1>8. ASSUME NEW v \in OwnLevels(o), db' = [db EXCEPT !.levels[v].isdeleted = TRUE] PROVE Kept
  <2> DEFINE row == [db.levels[v] EXCEPT !.isdeleted = TRUE]
  <2>1. db.levels[v] \in LevelRow BY OwnRows DEF Database
  <2>2. row \in LevelRow /\ row.gradeid = db.levels[v].gradeid BY <2>1 DEF LevelRow
  <2>3. db' = [db EXCEPT !.levels = [db.levels EXCEPT ![v] = row]] BY <1>8, <2>1 DEF Database
  <2> HIDE DEF row
  <2>4. QED BY <1>6, <2>2, <2>3
<1>9. ASSUME NEW l \in OwnLessons(o), db' = [db EXCEPT !.lessons[l].status = ~@] PROVE Kept
  <2> DEFINE row == [db.lessons[l] EXCEPT !.status = ~@]
  <2>1. db.lessons[l] \in LessonRow /\ OwnerOfLesson(l) = o BY OwnRows DEF Database
  <2>2. row \in LessonRow /\ row.levelid = db.lessons[l].levelid /\ row.total_points = db.lessons[l].total_points
    BY <2>1 DEF LessonRow
  <2>3. db' = [db EXCEPT !.lessons = [db.lessons EXCEPT ![l] = row]] BY <1>9, <2>1 DEF Database
  <2> HIDE DEF row
  <2>4. QED BY <1>4, <2>1, <2>2, <2>3 DEF OwnerOfLesson
<1>10. CASE SwitchContent(o)
  <2>1. \/ \E c \in OwnCurricula(o) : db' = [db EXCEPT !.curriculums[c].status = ~@]
        \/ \E g \in OwnGrades(o) : db' = [db EXCEPT !.grades[g].status = ~@]
        \/ \E v \in OwnLevels(o) : db' = [db EXCEPT !.levels[v].status = ~@]
        \/ \E l \in OwnLessons(o) : db' = [db EXCEPT !.lessons[l].status = ~@]
        \/ \E v \in OwnLevels(o) : db' = [db EXCEPT !.levels[v].isdeleted = TRUE]
    BY <1>10, Zenon DEF SwitchContent, Write
  <2>2. QED BY <1>1, <1>5, <1>7, <1>8, <1>9, <2>1
<1>11. ASSUME NEW g \in OwnGrades(o), NEW c \in OwnCurricula(o), db' = [db EXCEPT !.grades[g].curriculumid = c] PROVE Kept
  <2> DEFINE row == [db.grades[g] EXCEPT !.curriculumid = c]
  <2>1. db.grades[g] \in GradeRow /\ c \in Curricula /\ db.curriculums[c].organisationid = o BY OwnRows DEF Database
  <2>2. row \in GradeRow /\ row.curriculumid = c BY <2>1 DEF GradeRow
  <2>3. db' = [db EXCEPT !.grades = [db.grades EXCEPT ![g] = row]] BY <1>11, <2>1 DEF Database
  <2> HIDE DEF row
  <2>4. QED BY <1>2, <2>1, <2>2, <2>3
<1>12. ASSUME NEW v \in OwnLevels(o), NEW g \in OwnGrades(o), db' = [db EXCEPT !.levels[v].gradeid = g] PROVE Kept
  <2> DEFINE row == [db.levels[v] EXCEPT !.gradeid = g]
  <2>1. db.levels[v] \in LevelRow /\ g \in Grades /\ OwnerOfGrade(g) = o BY OwnRows DEF Database
  <2>2. row \in LevelRow /\ row.gradeid = g BY <2>1 DEF LevelRow
  <2>3. db' = [db EXCEPT !.levels = [db.levels EXCEPT ![v] = row]] BY <1>12, <2>1 DEF Database
  <2> HIDE DEF row
  <2>4. QED BY <1>3, <2>1, <2>2, <2>3
<1>13. ASSUME NEW l \in OwnLessons(o), NEW v \in OwnLevels(o), db' = [db EXCEPT !.lessons[l].levelid = v] PROVE Kept
  <2> DEFINE row == [db.lessons[l] EXCEPT !.levelid = v]
  <2>1. db.lessons[l] \in LessonRow /\ v \in Levels /\ OwnerOfLevel(v) = o BY OwnRows DEF Database
  <2>2. row \in LessonRow /\ row.levelid = v /\ row.total_points = db.lessons[l].total_points BY <2>1 DEF LessonRow
  <2>3. db' = [db EXCEPT !.lessons = [db.lessons EXCEPT ![l] = row]] BY <1>13, <2>1 DEF Database
  <2> HIDE DEF row
  <2>4. QED BY <1>4, <2>1, <2>2, <2>3
<1>14. CASE MoveContent(o) BY <1>11, <1>12, <1>13, <1>14 DEF MoveContent, Write
<1>15. CASE WeighContent(o)
  <2>1. PICK l \in OwnLessons(o), w \in Weights :
            db' = [db EXCEPT !.lessons[l].total_points = w.total_points, !.lessons[l].passing_points = w.passing_points]
    BY <1>15 DEF WeighContent, Write
  <2> DEFINE row == [db.lessons[l] EXCEPT !.total_points = w.total_points, !.passing_points = w.passing_points]
  <2>2. db.lessons[l] \in LessonRow /\ OwnerOfLesson(l) = o /\ w.total_points \in Nat /\ w.passing_points \in Nat
    BY OwnRows, AccessAssumption DEF Database
  <2>3. row \in LessonRow /\ row.levelid = db.lessons[l].levelid /\ row.total_points = w.total_points
    BY <2>2 DEF LessonRow
  <2>4. db' = [db EXCEPT !.lessons = [db.lessons EXCEPT ![l] = row]] BY <2>1, <2>2 DEF Database
  <2>5. row.total_points \in GivenTotals BY <2>3 DEF GivenTotals
  <2> HIDE DEF row
  <2>6. QED BY <1>4, <2>2, <2>3, <2>4, <2>5 DEF OwnerOfLesson
<1>16. QED BY <1>10, <1>14, <1>15

(* What an import writes to the activities, a push to schools and learners, a learner's result to its rows. *)
LEMMA RowsKept ==
    ASSUME db \in Database, NEW o \in Pushed,
           SwitchActivity(o) \/ WriteSchool(o) \/ WriteLearner(o) \/ SuspendOrganisation(o)
    PROVE  Kept
<1>1. CASE SwitchActivity(o)
  <2>1. ASSUME NEW n \in Learnings, db' = [db EXCEPT !.lessonlearnings[n].status = ~@] PROVE Kept
    <3> DEFINE row == [db.lessonlearnings[n] EXCEPT !.status = ~@]
    <3>1. db.lessonlearnings[n] \in LearningRow BY DEF Database
    <3>2. row \in LearningRow /\ row.lessonid = db.lessonlearnings[n].lessonid
          /\ row.documentid = db.lessonlearnings[n].documentid
      BY <3>1 DEF LearningRow
    <3>3. db' = [db EXCEPT !.lessonlearnings = [db.lessonlearnings EXCEPT ![n] = row]] BY <2>1, <3>1 DEF Database
    <3> HIDE DEF row
    <3>4. QED BY <3>2, <3>3, RowWritten
  <2>2. ASSUME NEW q \in PracticeQuestions, db' = [db EXCEPT !.lessonpracticequestions[q].status = ~@] PROVE Kept
    <3> DEFINE row == [db.lessonpracticequestions[q] EXCEPT !.status = ~@]
    <3>1. db.lessonpracticequestions[q] \in PracticeQuestionRow BY DEF Database
    <3>2. row \in PracticeQuestionRow BY <3>1 DEF PracticeQuestionRow
    <3>3. db' = [db EXCEPT !.lessonpracticequestions = [db.lessonpracticequestions EXCEPT ![q] = row]]
      BY <2>2, <3>1 DEF Database
    <3> HIDE DEF row
    <3>4. QED BY <3>2, <3>3, RowWritten
  <2>3. \/ \E n \in Learnings : db' = [db EXCEPT !.lessonlearnings[n].status = ~@]
        \/ \E q \in PracticeQuestions : db' = [db EXCEPT !.lessonpracticequestions[q].status = ~@]
    BY <1>1, Tables DEF SwitchActivity, Write, FindAll
  <2>4. QED BY <2>1, <2>2, <2>3
<1>2. CASE WriteSchool(o)
  <2>1. ASSUME NEW s \in Schools, NEW row \in SchoolRow, row.organisationid = db.schools[s].organisationid,
               db' = [db EXCEPT !.schools = [db.schools EXCEPT ![s] = row]]
        PROVE  Kept
    BY <2>1, RowWritten
  <2>2. ASSUME NEW s \in Schools, NEW list \in Lists,
               db' = [db EXCEPT !.schools[s].curriculums = curriculaInScope(o, list)]
        PROVE  Kept
    <3> DEFINE c == curriculaInScope(o, list)
               row == [db.schools[s] EXCEPT !.curriculums = c]
    <3>1. db.schools[s] \in SchoolRow BY DEF Database
    <3>2. c \in SUBSET Curricula BY AccessAssumption DEF curriculaInScope
    <3>3. row \in SchoolRow /\ row.organisationid = db.schools[s].organisationid
      <4> HIDE DEF c
      <4>1. QED BY <3>1, <3>2 DEF SchoolRow
    <3>4. db' = [db EXCEPT !.schools = [db.schools EXCEPT ![s] = row]] BY <2>2, <3>1 DEF Database
    <3> HIDE DEF row
    <3>5. QED BY <2>1, <3>3, <3>4
  <2>3. ASSUME NEW s \in Schools, db' = [db EXCEPT !.schools[s].isdeleted = TRUE] PROVE Kept
    <3> DEFINE row == [db.schools[s] EXCEPT !.isdeleted = TRUE]
    <3>1. db.schools[s] \in SchoolRow BY DEF Database
    <3>2. row \in SchoolRow /\ row.organisationid = db.schools[s].organisationid BY <3>1 DEF SchoolRow
    <3>3. db' = [db EXCEPT !.schools = [db.schools EXCEPT ![s] = row]] BY <2>3, <3>1 DEF Database
    <3> HIDE DEF row
    <3>4. QED BY <2>1, <3>2, <3>3
  <2>4. \E s \in Schools : \/ \E list \in Lists : db' = [db EXCEPT !.schools[s].curriculums = curriculaInScope(o, list)]
                           \/ db' = [db EXCEPT !.schools[s].isdeleted = TRUE]
    BY <1>2, Tables DEF WriteSchool, Write, FindAll
  <2>5. QED BY <2>2, <2>3, <2>4
<1>3. CASE WriteLearner(o)
  <2>1. ASSUME NEW k \in Learners, NEW row \in StudentRow, row.schooluserid = db.students[k].schooluserid,
               db.schools[row.schoolid].organisationid = OwnerOfLearner(k),
               db' = [db EXCEPT !.students = [db.students EXCEPT ![k] = row]]
        PROVE  Kept
    BY <2>1, RowWritten
  <2>2. ASSUME NEW k \in Learners, NEW list \in Lists, db' = [db EXCEPT !.students[k].curriculumids = list]
        PROVE  Kept
    <3> DEFINE row == [db.students[k] EXCEPT !.curriculumids = list]
    <3>1. db.students[k] \in StudentRow /\ list \in SUBSET Curricula BY AccessAssumption DEF Database
    <3>2. row \in StudentRow /\ row.schooluserid = db.students[k].schooluserid /\ row.schoolid = db.students[k].schoolid
      BY <3>1 DEF StudentRow
    <3>3. db' = [db EXCEPT !.students = [db.students EXCEPT ![k] = row]] BY <2>2, <3>1 DEF Database
    <3> HIDE DEF row
    <3>4. QED BY <2>1, <3>2, <3>3 DEF OwnerOfLearner
  <2>3. ASSUME NEW k \in Learners, NEW s \in Schools, NEW c \in Classes, db.schools[s].organisationid = OwnerOfLearner(k),
               db' = [db EXCEPT !.students[k].schoolid = s, !.students[k].standard = c]
        PROVE  Kept
    <3> DEFINE row == [db.students[k] EXCEPT !.schoolid = s, !.standard = c]
    <3>1. db.students[k] \in StudentRow BY DEF Database
    <3>2. row \in StudentRow /\ row.schooluserid = db.students[k].schooluserid /\ row.schoolid = s
      BY <3>1 DEF StudentRow
    <3>3. db' = [db EXCEPT !.students = [db.students EXCEPT ![k] = row]] BY <2>3, <3>1 DEF Database
    <3> HIDE DEF row
    <3>4. QED BY <2>1, <2>3, <3>2, <3>3
  <2>4. PICK k \in Learners :
            /\ db.schools[db.students[k].schoolid].organisationid = o
            /\ \/ \E list \in Lists : Write([db EXCEPT !.students[k].curriculumids = list])
               \/ \E s \in FindAll("schools", LAMBDA s : s.organisationid = o) :
                      \E c \in FindAll("standards", LAMBDA c : c.schoolid = s) :
                          Write([db EXCEPT !.students[k].schoolid = s, !.students[k].standard = c])
    BY <1>3, Zenon DEF WriteLearner
  <2>5. OwnerOfLearner(k) = o BY <2>4 DEF OwnerOfLearner
  <2>6. CASE \E list \in Lists : Write([db EXCEPT !.students[k].curriculumids = list]) BY <2>2, <2>6 DEF Write
  <2>7. CASE \E s \in FindAll("schools", LAMBDA s : s.organisationid = o) :
                \E c \in FindAll("standards", LAMBDA c : c.schoolid = s) :
                    Write([db EXCEPT !.students[k].schoolid = s, !.students[k].standard = c])
    BY <2>3, <2>5, <2>7, Tables DEF FindAll, Write
  <2>8. QED BY <2>4, <2>6, <2>7
<1>4. CASE SuspendOrganisation(o)
  <2>1. db' = [db EXCEPT !.organisations = [db.organisations EXCEPT ![o] = FALSE]]
    BY <1>4 DEF SuspendOrganisation, Write, Database
  <2>2. QED BY <2>1, RowWritten
<1>5. QED BY <1>1, <1>2, <1>3, <1>4

(* The stored percentage of a lesson that has a total is a number. *)
LEMMA PercentIsNat ==
    ASSUME NEW p \in Nat, NEW n \in Nat, n > 0
    PROVE  progressPercent(p, n) \in Nat
<1> DEFINE a == 20000 * p + n
           d == 2 * n
<1>1. a \in Nat /\ d \in Nat /\ d > 0 OBVIOUS
<1> HIDE DEF a, d
<1>2. a \div d \in Int BY <1>1
<1>3. a \div d >= 0 BY <1>1, DivAtLeast
<1>4. QED BY <1>2, <1>3 DEF a, d, progressPercent, ToFixed2

LEMMA ResultKept ==
    ASSUME db \in Database, NEW user \in Callers, user.studentid # None, EarnPoints(user) \/ SubmitPractice(user)
    PROVE  Kept
<1>0. user.studentid \in Learners BY AccessAssumption DEF Caller
<1>1. CASE EarnPoints(user)
  <2> DEFINE k == user.studentid
  <2>1. PICK l \in Lessons, points \in Earned :
          LET old == db.studentlessonsprogress[<<k, l>>]
              had == IF old = None THEN 0 ELSE old.points
          IN  /\ had < points /\ points <= db.lessons[l].total_points
              /\ db' = [db EXCEPT !.studentlessonsprogress[<<k, l>>] = EarnedRow(k, l, points)]
    BY <1>1, Zenon DEF EarnPoints, Write
  <2> DEFINE x == <<k, l>>
             old == db.studentlessonsprogress[x]
             row == EarnedRow(k, l, points)
  <2>2. k \in Learners /\ points \in Nat BY <1>0, AccessAssumption
  <2>3. old \in LessonProgressRow \cup {None} BY <2>2 DEF Database
  <2>4. /\ db.lessons[l].levelid \in Levels /\ db.lessons[l].total_points \in Nat /\ db.lessons[l].passing_points \in Nat
        /\ db.levels[db.lessons[l].levelid].gradeid \in Grades
    <3>1. db.lessons[l] \in LessonRow BY DEF Database
    <3>2. QED BY <3>1, Ids DEF LessonRow
  <2>5. points > 0 /\ db.lessons[l].total_points > 0 BY <2>1, <2>2, <2>3, <2>4 DEF LessonProgressRow
  <2>6. progressPercent(points, db.lessons[l].total_points) \in Nat BY <2>2, <2>4, <2>5, PercentIsNat
  <2>7. LessonCompleted(points, db.lessons[l].passing_points, db.lessons[l].total_points) \in BOOLEAN BY DEF LessonCompleted
  <2>8. row \in LessonProgressRow BY <2>2, <2>3, <2>4, <2>6, <2>7 DEF EarnedRow, LessonProgressRow
  <2>9. db' = [db EXCEPT !.studentlessonsprogress = [db.studentlessonsprogress EXCEPT ![x] = row]]
    BY <2>1 DEF Database
  <2> HIDE DEF x, row
  <2>10. QED BY <2>8, <2>9, RowWritten
<1>2. CASE SubmitPractice(user)
  <2>1. PICK p \in Practices, marks \in Earned : db' = [db EXCEPT !.studentprogress[<<user.studentid, p>>] = marks]
    BY <1>2, Zenon DEF SubmitPractice, Write
  <2>2. marks \in Nat BY AccessAssumption
  <2>3. db' = [db EXCEPT !.studentprogress = [db.studentprogress EXCEPT ![<<user.studentid, p>>] = marks]]
    BY <2>1 DEF Database
  <2>4. QED BY <1>0, <2>2, <2>3, RowWritten
<1>3. QED BY <1>1, <1>2

(* Whatever is written keeps types, owners and links. *)
LEMMA WritesKeep == ASSUME db \in Database, WriteStep PROVE Kept
<1>1. ASSUME NEW o \in Pushed,
             \/ SwitchContent(o) \/ SwitchActivity(o) \/ MoveContent(o) \/ WeighContent(o)
             \/ WriteSchool(o) \/ WriteLearner(o) \/ SuspendOrganisation(o)
      PROVE  Kept
  BY <1>1, ContentKept, RowsKept
<1>2. ASSUME NEW user \in Callers, user.studentid # None, EarnPoints(user) \/ SubmitPractice(user) PROVE Kept
  BY <1>2, ResultKept
<1>3. QED BY <1>1, <1>2 DEF WriteStep


-----------------------------------------------------------------------------
(* The references within an organisation survive every write. *)
LEMMA ReferencesKept ==
    ASSUME db \in Database, OwnReferences(db), Kept
    PROVE  OwnReferences(db)'
<1>1. OwnersStand /\ LinksStand BY DEF Kept
<1>2. \A l \in Lessons : OwnerIn(db', l) = OwnerIn(db, l)
  BY <1>1 DEF OwnersStand, OwnerIn, OwnerOfLesson, OwnerOfLevel, OwnerOfGrade
<1>3. \A s \in Schools : SchoolOwnerIn(db', s) = SchoolOwnerIn(db, s) BY <1>1 DEF OwnersStand, SchoolOwnerIn
<1>4. \A k \in Learners : SchoolOwnerIn(db', db'.students[k].schoolid) = SchoolOwnerIn(db, db.students[k].schoolid)
  BY <1>1 DEF OwnersStand, SchoolOwnerIn, OwnerOfLearner
<1>5. \A u \in Logins : db.schoolusers[u].schoolid \in Schools BY DEF Database, LoginRow
<1>6. \A k \in Learners : db.students[k].schooluserid \in Logins BY DEF Database, StudentRow
<1>7. \A user \in Callers : user.schooluserid \in Logins BY AccessAssumption DEF Caller
<1>8. ASSUME NEW n \in Learnings, db'.lessonlearnings[n].documentid # None
      PROVE  db'.documents[db'.lessonlearnings[n].documentid].organisationid = OwnerIn(db', db'.lessonlearnings[n].lessonid)
  BY <1>1, <1>2, <1>8, Ids DEF OwnReferences, LinksStand
<1>9. ASSUME NEW p \in Plans, db'.lessonplans[p].documentid # None
      PROVE  db'.documents[db'.lessonplans[p].documentid].organisationid = OwnerIn(db', db'.lessonplans[p].lessonid)
  BY <1>1, <1>2, <1>9, Ids DEF OwnReferences, LinksStand
<1>10. ASSUME NEW k \in Learners
       PROVE  SchoolOwnerIn(db', db'.schoolusers[db'.students[k].schooluserid].schoolid)
                  = SchoolOwnerIn(db', db'.students[k].schoolid)
  BY <1>1, <1>3, <1>4, <1>5, <1>6 DEF OwnReferences, LinksStand
<1>11. ASSUME NEW k \in Learners, NEW q \in Quizzes, db'.studentprogress[<<k, q>>] # None
       PROVE  OwnerIn(db', db'.lessonquizzes[q].lessonid) = SchoolOwnerIn(db', db'.students[k].schoolid)
  <2>1. db.studentprogress[<<k, q>>] # None BY <1>1, <1>11 DEF LinksStand
  <2>2. db'.lessonquizzes[q].lessonid = db.lessonquizzes[q].lessonid /\ db.lessonquizzes[q].lessonid \in Lessons
    BY <1>1, Ids DEF LinksStand
  <2>3. OwnerIn(db, db.lessonquizzes[q].lessonid) = SchoolOwnerIn(db, db.students[k].schoolid)
    BY <2>1 DEF OwnReferences
  <2>4. QED BY <1>2, <1>4, <2>2, <2>3
<1>12. ASSUME NEW user \in Callers, claimsOf(user)
       PROVE  SchoolOwnerIn(db', db'.schoolusers[user.schooluserid].schoolid) = user.organisationid
  BY <1>1, <1>3, <1>5, <1>7, <1>12 DEF OwnReferences, LinksStand
<1>13. \A user : claimsOf(user)' = claimsOf(user) BY DEF claimsOf
<1>14. QED BY <1>8, <1>9, <1>10, <1>11, <1>12 DEF OwnReferences, claimsOf

(* Primary documents stay within their organisation. *)
LEMMA DocumentsOwned == ASSUME db \in Database, OwnReferences(db) PROVE OwnDocuments
  BY DEF OwnReferences, OwnDocuments, OwnerIn, OrganisationOfLesson, CurriculumOfLesson, CurriculumOfLevel

(* The content a path names is there and belongs to the organisation. *)
OwnedPath(what, id, org) ==
    \/ what = "curriculum" /\ id \in Curricula /\ db.curriculums[id].organisationid = org
    \/ what = "grade" /\ id \in Grades /\ OwnerOfGrade(id) = org
    \/ what = "level" /\ id \in Levels /\ OwnerOfLevel(id) = org
    \/ what = "lesson" /\ id \in Lessons /\ OwnerOfLesson(id) = org
    \/ what = "lessonlearning" /\ id \in Learnings /\ OwnerOfLesson(db.lessonlearnings[id].lessonid) = org
    \/ what = "lessonplan" /\ id \in Plans /\ OwnerOfLesson(db.lessonplans[id].lessonid) = org
    \/ what = "lessonpractice" /\ id \in Practices /\ OwnerOfLesson(db.lessonpractices[id].lessonid) = org
    \/ what = "lessonquiz" /\ id \in Quizzes /\ OwnerOfLesson(db.lessonquizzes[id].lessonid) = org
    \/ what = "baseline" /\ id \in Baselines
       /\ db.curriculums[db.curriculumbaseline[id].curriculumid].organisationid = org

LEMMA OwnedPathStands ==
    ASSUME db \in Database, OwnersStand, LinksStand, NEW what, NEW id, NEW org, OwnedPath(what, id, org)
    PROVE  OwnedPath(what, id, org)'
<1>1. CASE what = "curriculum" BY <1>1 DEF OwnedPath, OwnersStand
<1>2. CASE what = "grade" BY <1>2 DEF OwnedPath, OwnersStand
<1>3. CASE what = "level" BY <1>3 DEF OwnedPath, OwnersStand
<1>4. CASE what = "lesson" BY <1>4 DEF OwnedPath, OwnersStand
<1>5. CASE what = "lessonlearning"
  <2>1. id \in Learnings /\ OwnerOfLesson(db.lessonlearnings[id].lessonid) = org BY <1>5 DEF OwnedPath
  <2>2. db'.lessonlearnings[id].lessonid = db.lessonlearnings[id].lessonid BY <2>1 DEF LinksStand
  <2>3. db.lessonlearnings[id].lessonid \in Lessons BY <2>1, Ids
  <2>4. \A l \in Lessons : OwnerOfLesson(l)' = OwnerOfLesson(l) BY DEF OwnersStand
  <2>5. OwnerOfLesson(db.lessonlearnings[id].lessonid)' = org BY <2>1, <2>2, <2>3, <2>4 DEF OwnerOfLesson, OwnerOfLevel, OwnerOfGrade
  <2>6. QED BY <1>5, <2>1, <2>5 DEF OwnedPath
<1>6. CASE what = "lessonplan"
  <2>1. id \in Plans /\ OwnerOfLesson(db.lessonplans[id].lessonid) = org BY <1>6 DEF OwnedPath
  <2>2. db'.lessonplans[id].lessonid = db.lessonplans[id].lessonid BY <2>1 DEF LinksStand
  <2>3. db.lessonplans[id].lessonid \in Lessons BY <2>1, Ids
  <2>4. \A l \in Lessons : OwnerOfLesson(l)' = OwnerOfLesson(l) BY DEF OwnersStand
  <2>5. OwnerOfLesson(db.lessonplans[id].lessonid)' = org BY <2>1, <2>2, <2>3, <2>4 DEF OwnerOfLesson, OwnerOfLevel, OwnerOfGrade
  <2>6. QED BY <1>6, <2>1, <2>5 DEF OwnedPath
<1>7. CASE what = "lessonpractice"
  <2>1. id \in Practices /\ OwnerOfLesson(db.lessonpractices[id].lessonid) = org BY <1>7 DEF OwnedPath
  <2>2. db'.lessonpractices[id].lessonid = db.lessonpractices[id].lessonid BY <2>1 DEF LinksStand
  <2>3. db.lessonpractices[id].lessonid \in Lessons BY <2>1, Ids
  <2>4. \A l \in Lessons : OwnerOfLesson(l)' = OwnerOfLesson(l) BY DEF OwnersStand
  <2>5. OwnerOfLesson(db.lessonpractices[id].lessonid)' = org BY <2>1, <2>2, <2>3, <2>4 DEF OwnerOfLesson, OwnerOfLevel, OwnerOfGrade
  <2>6. QED BY <1>7, <2>1, <2>5 DEF OwnedPath
<1>8. CASE what = "lessonquiz"
  <2>1. id \in Quizzes /\ OwnerOfLesson(db.lessonquizzes[id].lessonid) = org BY <1>8 DEF OwnedPath
  <2>2. db'.lessonquizzes[id].lessonid = db.lessonquizzes[id].lessonid BY <2>1 DEF LinksStand
  <2>3. db.lessonquizzes[id].lessonid \in Lessons BY <2>1, Ids
  <2>4. \A l \in Lessons : OwnerOfLesson(l)' = OwnerOfLesson(l) BY DEF OwnersStand
  <2>5. OwnerOfLesson(db.lessonquizzes[id].lessonid)' = org BY <2>1, <2>2, <2>3, <2>4 DEF OwnerOfLesson, OwnerOfLevel, OwnerOfGrade
  <2>6. QED BY <1>8, <2>1, <2>5 DEF OwnedPath
<1>9. CASE what = "baseline"
  <2>1. id \in Baselines /\ db.curriculums[db.curriculumbaseline[id].curriculumid].organisationid = org BY <1>9 DEF OwnedPath
  <2>2. db.curriculumbaseline[id].curriculumid \in Curricula BY <2>1, Ids
  <2>3. QED BY <1>9, <2>1, <2>2 DEF OwnedPath, OwnersStand, LinksStand
<1>10. QED BY <1>1, <1>2, <1>3, <1>4, <1>5, <1>6, <1>7, <1>8, <1>9 DEF OwnedPath

(* The path names content of the curriculum c: belonging to an organisation, said of the one and of the other. *)
PathIs(what, id, c) ==
    /\ curriculumIdsOf(what, id, FALSE) = {c} /\ curriculumIdsOf(what, id, TRUE) \subseteq {c}
    /\ \A org : OwnedPath(what, id, org) <=> db.curriculums[c].organisationid = org

LEMMA PathCurriculum ==
    ASSUME db \in Database, NEW ctl \in DOMAIN Controllers, NEW route \in DOMAIN Controllers[ctl],
           Controllers[ctl][route] # None, NEW id \in IdsFor(ctl, route)
    PROVE  \E c \in Curricula : PathIs(Controllers[ctl][route], id, c)
<1> DEFINE what == Controllers[ctl][route]
<1>1. \/ what = "curriculum" /\ id \in Curricula
      \/ what = "grade" /\ id \in Grades
      \/ what = "level" /\ id \in Levels
      \/ what = "lesson" /\ id \in Lessons
      \/ what = "lessonlearning" /\ id \in Learnings
      \/ what = "lessonplan" /\ id \in Plans
      \/ what = "lessonpractice" /\ id \in Practices
      \/ what = "lessonquiz" /\ id \in Quizzes
      \/ what = "baseline" /\ id \in Baselines
  <2>1. None \notin {"curriculum", "grade", "level", "lesson", "baseline", "lessonlearning", "lessonplan",
                     "lessonpractice", "lessonquiz"}
    BY NoneAssumption DEF PathKinds
  <2>2. RouteAnswers(what, Handler(ctl, route, None, id, None), None, id, None) BY HandlersOf
  <2>3. what \in {"curriculum", "grade", "level", "lesson", "baseline", "lessonlearning", "lessonplan",
                  "lessonpractice", "lessonquiz"}
    BY <2>2 DEF RouteAnswers
  <2>4. QED BY <2>1, <2>3 DEF IdsFor
<1> HIDE DEF what
<1> SUFFICES \E c \in Curricula : PathIs(what, id, c) BY DEF what
<1>2. CASE what = "curriculum" /\ id \in Curricula
  <2>1. curriculumIdsOf(what, id, FALSE) = {id} /\ curriculumIdsOf(what, id, TRUE) = {id} BY <1>2, TierCurricula
  <2>2. QED BY <1>2, <2>1 DEF OwnedPath, PathIs
<1>3. CASE what = "grade" /\ id \in Grades
  <2> DEFINE c == db.grades[id].curriculumid
  <2>1. c \in Curricula /\ curriculumIdsOf(what, id, FALSE) = {c} /\ curriculumIdsOf(what, id, TRUE) = {c}
    BY <1>3, Ids, TierCurricula
  <2>2. \A org : OwnedPath(what, id, org) <=> db.curriculums[c].organisationid = org BY <1>3 DEF OwnedPath, OwnerOfGrade
  <2> HIDE DEF c
  <2>3. QED BY <2>1, <2>2 DEF PathIs
<1>4. CASE what = "level" /\ id \in Levels
  <2> DEFINE c == CurriculumOfLevel(id)
  <2>1. c \in Curricula BY <1>4, Ids DEF CurriculumOfLevel
  <2>2. \A b \in BOOLEAN : curriculumIdsOf("level", id, b) = IF b => db.levels[id].status THEN {c} ELSE {}
    <3>1. TAKE b \in BOOLEAN
    <3>2. QED BY <1>4, TierCurricula
  <2>3. curriculumIdsOf(what, id, FALSE) = {c} /\ curriculumIdsOf(what, id, TRUE) \subseteq {c} BY <1>4, <2>2
  <2>4. \A org : OwnedPath(what, id, org) <=> db.curriculums[c].organisationid = org
    BY <1>4 DEF OwnedPath, OwnerOfLevel, OwnerOfGrade, CurriculumOfLevel
  <2> HIDE DEF c
  <2>5. QED BY <2>1, <2>3, <2>4 DEF PathIs
<1>5. \A l \in Lessons : CurriculumOfLesson(l) \in Curricula
                         /\ OwnerOfLesson(l) = db.curriculums[CurriculumOfLesson(l)].organisationid
  BY Ids DEF CurriculumOfLesson, CurriculumOfLevel, OwnerOfLesson, OwnerOfLevel, OwnerOfGrade
<1>6. \A l \in Lessons : /\ curriculumOfLesson(l, FALSE) = {CurriculumOfLesson(l)}
                         /\ curriculumOfLesson(l, TRUE) \subseteq {CurriculumOfLesson(l)}
  <2>1. TAKE l \in Lessons
  <2>2. \A b \in BOOLEAN : curriculumOfLesson(l, b) = IF b => Live(l) THEN {CurriculumOfLesson(l)} ELSE {}
    <3>1. TAKE b \in BOOLEAN
    <3>2. QED BY TierCurricula
  <2>3. QED BY <2>2
<1>7. CASE what = "lesson" /\ id \in Lessons
  <2> DEFINE c == CurriculumOfLesson(id)
  <2>1. \A b \in BOOLEAN : curriculumIdsOf(what, id, b) = curriculumOfLesson(id, b)
    <3>1. TAKE b \in BOOLEAN
    <3>2. QED BY <1>7, TierCurricula
  <2>2. \A org : OwnedPath(what, id, org) <=> db.curriculums[c].organisationid = org BY <1>5, <1>7 DEF OwnedPath
  <2>3. c \in Curricula /\ curriculumOfLesson(id, FALSE) = {c} /\ curriculumOfLesson(id, TRUE) \subseteq {c} BY <1>5, <1>6, <1>7
  <2> HIDE DEF c
  <2>4. QED BY <2>1, <2>2, <2>3 DEF PathIs
<1>8. ASSUME what \in Activities, id \in Has(what), \A org : OwnedPath(what, id, org) <=> OwnerOfLesson(LessonOf(what, id)) = org
      PROVE  \E c \in Curricula : PathIs(what, id, c)
  <2> DEFINE l == LessonOf(what, id)
             c == CurriculumOfLesson(l)
  <2>1. l \in Lessons /\ \A b \in BOOLEAN : curriculumIdsOf(what, id, b) = curriculumOfLesson(l, b)
    <3>1. \A b \in BOOLEAN : l \in Lessons /\ curriculumIdsOf(what, id, b) = curriculumOfLesson(l, b)
      <4>1. TAKE b \in BOOLEAN
      <4>2. QED BY <1>8, ActivityCurricula
    <3>2. QED BY <3>1
  <2>2. c \in Curricula /\ curriculumOfLesson(l, FALSE) = {c} /\ curriculumOfLesson(l, TRUE) \subseteq {c}
        /\ OwnerOfLesson(l) = db.curriculums[c].organisationid
    BY <1>5, <1>6, <2>1
  <2>3. \A org : OwnedPath(what, id, org) <=> db.curriculums[c].organisationid = org BY <1>8, <2>2
  <2> HIDE DEF l, c
  <2>4. QED BY <2>1, <2>2, <2>3 DEF PathIs
<1>9. CASE what = "lessonlearning" /\ id \in Learnings BY <1>8, <1>9, Tables DEF Activities, Has, LessonOf, ActivityTable, OwnedPath
<1>10. CASE what = "lessonplan" /\ id \in Plans BY <1>8, <1>10, Tables DEF Activities, Has, LessonOf, ActivityTable, OwnedPath
<1>11. CASE what = "lessonpractice" /\ id \in Practices BY <1>8, <1>11, Tables DEF Activities, Has, LessonOf, ActivityTable, OwnedPath
<1>12. CASE what = "lessonquiz" /\ id \in Quizzes BY <1>8, <1>12, Tables DEF Activities, Has, LessonOf, ActivityTable, OwnedPath
<1>13. CASE what = "baseline" /\ id \in Baselines
  <2> DEFINE c == db.curriculumbaseline[id].curriculumid
  <2>1. c \in Curricula /\ curriculumIdsOf(what, id, FALSE) = {c} /\ curriculumIdsOf(what, id, TRUE) = {c}
    BY <1>13, Ids, TierCurricula
  <2>2. \A org : OwnedPath(what, id, org) <=> db.curriculums[c].organisationid = org BY <1>13 DEF OwnedPath
  <2> HIDE DEF c
  <2>3. QED BY <2>1, <2>2 DEF PathIs
<1>14. QED BY <1>1, <1>2, <1>3, <1>4, <1>7, <1>9, <1>10, <1>11, <1>12, <1>13

-----------------------------------------------------------------------------
(* What a proper answer says of its rows. *)
LEMMA ProperOwned ==
    ASSUME db \in Database, NEW c, NEW live, NEW rows, Proper(rows, c, live, db.curriculums[c].organisationid)
    PROVE  \A row \in rows : OwnersOf(row[1], row[2]) = {db.curriculums[c].organisationid}
<1> DEFINE org == db.curriculums[c].organisationid
<1>1. TAKE row \in rows
<1>2. CASE Inside(row, c, live)
  <2>1. curriculumIdsOf(row[1], row[2], FALSE) = {c} /\ row[1] # "document" BY <1>2 DEF Inside
  <2>2. QED BY <2>1 DEF OwnersOf
<1>3. CASE row[1] = "document" /\ Carried(row[2], c, live, org)
  <2>1. row[2] \in Documents /\ db.documents[row[2]].organisationid = org BY <1>3 DEF Carried
  <2>2. Find("documents", row[2]) = {db.documents[row[2]]} BY <2>1, Tables DEF Find
  <2>3. QED BY <1>3, <2>1, <2>2 DEF OwnersOf
<1>4. QED BY <1>2, <1>3 DEF Proper

LEMMA ProperOpened ==
    ASSUME db \in Database, NEW user, NEW c \in curriculumIdsInScope(user), NEW rows,
           Proper(rows, c, TRUE, user.organisationid)
    PROVE  \A row \in rows : canAccessContent(user, row[1], row[2])
<1> DEFINE org == user.organisationid
<1>1. TAKE row \in rows
<1>2. claimsOf(user) BY ScopeFacts
<1>3. CASE Inside(row, c, TRUE)
  <2>1. curriculumIdsOf(row[1], row[2], TRUE) = {c} /\ row[1] # "document" BY <1>3 DEF Inside
  <2>2. QED BY <1>2, <2>1 DEF canAccessContent
<1>4. CASE row[1] = "document" /\ Carried(row[2], c, TRUE, org)
  <2>1. row[2] \in Documents /\ db.documents[row[2]].organisationid = org BY <1>4 DEF Carried
  <2>2. Find("documents", row[2]) = {db.documents[row[2]]} BY <2>1, Tables DEF Find
  <2>3. PICK l \in LessonsUsing(row[2]) : l \in Lessons /\ CurriculumOfLesson(l) = c /\ Live(l) BY <1>4 DEF Carried
  <2>4. curriculumOfLesson(l, TRUE) = {c} BY <2>3, TierCurricula
  <2>5. curriculumIdsOf("document", row[2], TRUE) = UNION {curriculumOfLesson(x, TRUE) : x \in LessonsUsing(row[2])}
    BY DEF curriculumIdsOf, ActivityTable
  <2>6. c \in curriculumIdsOf(row[1], row[2], TRUE) BY <1>4, <2>4, <2>5
  <2>7. QED BY <1>2, <2>1, <2>2, <2>6 DEF canAccessContent
<1>5. QED BY <1>3, <1>4 DEF Proper

(* A content request past its guards: the path was the caller's own, and can still be opened if nothing was written. *)
ContentAsked(r) ==
    /\ r.user \in Callers /\ r.ctl \in DOMAIN Controllers /\ r.route \in DOMAIN Controllers[r.ctl]
    /\ r.id \in IdsFor(r.ctl, r.route)
    /\ Controllers[r.ctl][r.route] # None =>
          /\ OwnedPath(Controllers[r.ctl][r.route], r.id, r.user.organisationid)
          /\ r.fresh => canAccessContent(r.user, Controllers[r.ctl][r.route], r.id)

(* What every content row of an answer satisfies. *)
RowServed(row, r) ==
    /\ OwnersOf(row[1], row[2]) = {r.user.organisationid}
    /\ r.fresh => canAccessContent(r.user, row[1], row[2])

LEMMA ContentServed ==
    ASSUME db \in Database, OwnDocuments, NEW r, ContentAsked(r), NEW std
    PROVE  \A row \in Handler(r.ctl, r.route, r.user, r.id, std) : RowServed(row, r)
<1> DEFINE user == r.user
           what == Controllers[r.ctl][r.route]
           rows == Handler(r.ctl, r.route, r.user, r.id, std)
           org  == user.organisationid
<1>1. r.ctl \in DOMAIN Controllers /\ r.route \in DOMAIN Controllers[r.ctl] /\ r.id \in IdsFor(r.ctl, r.route)
  BY DEF ContentAsked
<1>2. CASE what = None
  <2>1. RouteAnswers(what, rows, user, r.id, std) BY <1>1, HandlersOf
  <2>2. None \notin {"curriculum", "grade", "level", "lesson", "baseline", "lessonlearning", "lessonplan",
                     "lessonpractice", "lessonquiz"}
    BY NoneAssumption DEF PathKinds
  <2> HIDE DEF user, rows, what
  <2>3. rows \in {findallcurriculum(user), getCurriculumsWithFilter(user, std),
                  getCurriculumsWithSubject(user), getGradesWithFilter(user, r.id, std),
                  getLibrary(user), getLevelsWithFilter(user, r.id), getLessonsWithFilter(user, r.id)}
    BY <1>2, <2>1, <2>2 DEF RouteAnswers
  <2>4. Listed(rows, user) BY <2>3, ListsHold
  <2>5. ASSUME NEW row \in rows PROVE RowServed(row, r)
    <3>1. PICK c \in curriculumIdsInScope(user) : Inside(row, c, TRUE) BY <2>4 DEF Listed
    <3>2. db.curriculums[c].organisationid = org BY <3>1, ScopeFacts
    <3> DEFINE one == {row}
    <3>3. Proper(one, c, TRUE, org) BY <3>1 DEF Proper
    <3>4. row \in one OBVIOUS
    <3> HIDE DEF one, org
    <3>5. OwnersOf(row[1], row[2]) = {org} BY <3>2, <3>3, <3>4, ProperOwned
    <3>6. canAccessContent(user, row[1], row[2]) BY <3>3, <3>4, ProperOpened DEF org
    <3>7. QED BY <3>5, <3>6 DEF RowServed, user, org
  <2>6. QED BY <2>5 DEF rows
<1>3. CASE what # None
  <2>1. PathHolds(what, r.id, rows, org) BY <1>1, <1>3, PathAnswers
  <2>2. PICK c \in Curricula : PathIs(what, r.id, c)
    BY <1>1, <1>3, PathCurriculum
  <2>3. OwnedPath(what, r.id, org) /\ (r.fresh => canAccessContent(user, what, r.id)) BY <1>3 DEF ContentAsked
  <2> HIDE DEF user, rows, what, org
  <2>4. db.curriculums[c].organisationid = org BY <2>2, <2>3 DEF PathIs
  <2>5. PICK d \in Curricula, live \in BOOLEAN :
            /\ curriculumIdsOf(what, r.id, FALSE) = {d}
            /\ curriculumIdsOf(what, r.id, TRUE) # {} => live /\ curriculumIdsOf(what, r.id, TRUE) = {d}
            /\ db.curriculums[d].organisationid = org => Proper(rows, d, live, org)
    BY <2>1 DEF PathHolds
  <2>6. c = d
    <3>1. curriculumIdsOf(what, r.id, FALSE) = {c} BY <2>2 DEF PathIs
    <3>2. curriculumIdsOf(what, r.id, FALSE) = {d} BY <2>5
    <3>3. c \in {d} BY <3>1, <3>2
    <3>4. QED BY <3>3
  <2>7. Proper(rows, c, live, org) BY <2>4, <2>5, <2>6
  <2>8. \A row \in rows : OwnersOf(row[1], row[2]) = {org} BY <2>4, <2>7, ProperOwned
  <2>9. ASSUME r.fresh PROVE \A row \in rows : canAccessContent(user, row[1], row[2])
    <3>1. curriculumIdsOf(what, r.id, TRUE) \cap curriculumIdsInScope(user) # {} BY <2>3, <2>9 DEF canAccessContent
    <3>2. live /\ c \in curriculumIdsInScope(user) BY <2>5, <2>6, <3>1
    <3>3. live = TRUE BY <3>2
    <3>4. Proper(rows, c, TRUE, user.organisationid) BY <2>7, <3>3 DEF org
    <3>5. QED BY <3>2, <3>4, ProperOpened
  <2>10. QED BY <2>8, <2>9 DEF RowServed, user, rows, org
<1>4. QED BY <1>2, <1>3

(* A content request that the guards let through. *)
LEMMA ContentAdmitted ==
    ASSUME db \in Database, NEW user \in Callers, NEW ctl \in DOMAIN Controllers,
           NEW route \in DOMAIN Controllers[ctl], NEW id \in IdsFor(ctl, route), Admitted(ctl, route, user, id),
           NEW r, r.user = user, r.ctl = ctl, r.route = route, r.id = id
    PROVE  ContentAsked(r)
<1> DEFINE what == Controllers[ctl][route]
<1>1. ASSUME what # None PROVE OwnedPath(what, id, user.organisationid) /\ canAccessContent(user, what, id)
  <2>1. canAccessContent(user, what, id) BY <1>1 DEF Admitted, ContentAccessGuard
  <2>2. PICK c \in Curricula : PathIs(what, id, c)
    BY <1>1, PathCurriculum
  <2> HIDE DEF what
  <2>3. c \in curriculumIdsInScope(user) BY <2>1, <2>2 DEF canAccessContent, PathIs
  <2>4. db.curriculums[c].organisationid = user.organisationid BY <2>3, ScopeFacts
  <2>5. QED BY <2>1, <2>2, <2>4 DEF PathIs
<1>2. QED BY <1>1 DEF ContentAsked

-----------------------------------------------------------------------------
(* A scope's schools and curricula belong to its organisation. *)
ScopeOwned(scope) ==
    /\ \A s \in scope.schoolids : s \in Schools /\ db.schools[s].organisationid = scope.organisationid
    /\ \A c \in scope.curriculumids : c \in Curricula /\ db.curriculums[c].organisationid = scope.organisationid

(* What every content row of a report satisfies. *)
RowReported(row, scope) ==
    \/ OwnersOf(row[1], row[2]) = {scope.organisationid}
    \/ \E k \in learnersInScope(scope) : db.students[k].curriculumid \in curriculumIdsOf(row[1], row[2], FALSE)

Reported(answer, scope) == \A row \in answer.content : RowReported(row, scope)

LEMMA InScope ==
    ASSUME db \in Database, NEW scope
    PROVE  \A k \in learnersInScope(scope) : k \in Learners /\ db.students[k].schoolid \in scope.schoolids
  BY Tables DEF learnersInScope, FindAll

(* A curriculum the scope has, or that a learner of the scope is recorded under. *)
Covered(c, scope) == c \in scope.curriculumids \/ \E k \in learnersInScope(scope) : db.students[k].curriculumid = c

LEMMA InsideReported ==
    ASSUME db \in Database, NEW scope, ScopeOwned(scope), NEW c, Covered(c, scope), NEW row, Inside(row, c, FALSE)
    PROVE  RowReported(row, scope)
<1>1. curriculumIdsOf(row[1], row[2], FALSE) = {c} /\ row[1] # "document" BY DEF Inside
<1>2. CASE c \in scope.curriculumids
  <2>1. db.curriculums[c].organisationid = scope.organisationid BY <1>2 DEF ScopeOwned
  <2>2. QED BY <1>1, <2>1 DEF OwnersOf, RowReported
<1>3. CASE \E k \in learnersInScope(scope) : db.students[k].curriculumid = c BY <1>1, <1>3 DEF RowReported
<1>4. QED BY <1>2, <1>3 DEF Covered

LEMMA TiersReported ==
    ASSUME db \in Database, NEW scope, ScopeOwned(scope)
    PROVE  /\ \A gs : (\A g \in gs : g \in Grades /\ Covered(db.grades[g].curriculumid, scope))
                         => \A row \in Rows("grade", gs) : RowReported(row, scope)
           /\ \A vs : (\A v \in vs : v \in Levels /\ Covered(CurriculumOfLevel(v), scope))
                         => \A row \in Rows("level", vs) : RowReported(row, scope)
           /\ \A ls : (\A l \in ls : l \in Lessons /\ Covered(CurriculumOfLesson(l), scope))
                         => \A row \in Rows("lesson", ls) : RowReported(row, scope)
<1>1. ASSUME NEW gs, \A g \in gs : g \in Grades /\ Covered(db.grades[g].curriculumid, scope), NEW row \in Rows("grade", gs)
      PROVE  RowReported(row, scope)
  <2>1. PICK g \in gs : row = <<"grade", g>> BY DEF Rows
  <2>2. Inside(<<"grade", g>>, db.grades[g].curriculumid, FALSE) BY <1>1, TiersInside
  <2>3. QED BY <1>1, <2>1, <2>2, InsideReported
<1>2. ASSUME NEW vs, \A v \in vs : v \in Levels /\ Covered(CurriculumOfLevel(v), scope), NEW row \in Rows("level", vs)
      PROVE  RowReported(row, scope)
  <2>1. PICK v \in vs : row = <<"level", v>> BY DEF Rows
  <2>2. Inside(<<"level", v>>, CurriculumOfLevel(v), FALSE) BY <1>2, TiersInside
  <2>3. QED BY <1>2, <2>1, <2>2, InsideReported
<1>3. ASSUME NEW ls, \A l \in ls : l \in Lessons /\ Covered(CurriculumOfLesson(l), scope), NEW row \in Rows("lesson", ls)
      PROVE  RowReported(row, scope)
  <2>1. PICK l \in ls : row = <<"lesson", l>> BY DEF Rows
  <2>2. Inside(<<"lesson", l>>, CurriculumOfLesson(l), FALSE) BY <1>3, TiersInside
  <2>3. QED BY <1>3, <2>1, <2>2, InsideReported
<1>4. QED BY <1>1, <1>2, <1>3

(* Content a filter names is content of the scope. *)
LEMMA FiltersCovered ==
    ASSUME db \in Database, NEW scope, NEW f, contentFiltersInScope(scope, f)
    PROVE  /\ f.curriculumid \in Curricula => Covered(f.curriculumid, scope)
           /\ f.gradeid \in Grades => Covered(db.grades[f.gradeid].curriculumid, scope)
           /\ f.levelid \in Levels => Covered(CurriculumOfLevel(f.levelid), scope)
           /\ f.lessonid \in Lessons => Covered(CurriculumOfLesson(f.lessonid), scope)
<1>1. /\ curriculumIdsOf("curriculum", f.curriculumid, FALSE) \subseteq scope.curriculumids
      /\ curriculumIdsOf("grade", f.gradeid, FALSE) \subseteq scope.curriculumids
      /\ curriculumIdsOf("level", f.levelid, FALSE) \subseteq scope.curriculumids
      /\ curriculumIdsOf("lesson", f.lessonid, FALSE) \subseteq scope.curriculumids
  BY DEF contentFiltersInScope, FilterKinds
<1>2. ASSUME NEW what, NEW id, NEW c, Inside(<<what, id>>, c, FALSE),
             curriculumIdsOf(what, id, FALSE) \subseteq scope.curriculumids
      PROVE  Covered(c, scope)
  BY <1>2 DEF Inside, Covered
<1>3. f.curriculumid \in Curricula => Covered(f.curriculumid, scope) BY <1>1, <1>2, TiersInside
<1>4. f.gradeid \in Grades => Covered(db.grades[f.gradeid].curriculumid, scope) BY <1>1, <1>2, TiersInside
<1>5. f.levelid \in Levels => Covered(CurriculumOfLevel(f.levelid), scope) BY <1>1, <1>2, TiersInside
<1>6. f.lessonid \in Lessons => Covered(CurriculumOfLesson(f.lessonid), scope) BY <1>1, <1>2, TiersInside
<1>7. QED BY <1>3, <1>4, <1>5, <1>6

(* Live lessons of a curriculum, and where they are. *)
LEMMA LiveLessons ==
    ASSUME db \in Database, NEW c
    PROVE  \A l \in LiveLessonsOf(c) : /\ l \in Lessons /\ CurriculumOfLesson(l) = c
                                       /\ db.lessons[l].levelid \in Levels
                                       /\ CurriculumOfLevel(db.lessons[l].levelid) = c
                                       /\ db.levels[db.lessons[l].levelid].gradeid \in Grades
                                       /\ db.grades[db.levels[db.lessons[l].levelid].gradeid].curriculumid = c
  BY TierLists DEF LiveLessonsOf, CurriculumOfLesson, CurriculumOfLevel

(* The learners reports are about are in scope. *)
LEMMA MeantInScope ==
    ASSUME NEW scope, NEW f
    PROVE  /\ LearnerMeant(scope, f) \subseteq learnersInScope(scope)
           /\ ClassMeant(scope, f) \subseteq learnersInScope(scope)
           /\ NoTeachers(ClassMeant(scope, f)) \subseteq learnersInScope(scope)
           /\ LearnerOrTest(scope, f) \subseteq learnersInScope(scope)
<1>1. LearnerMeant(scope, f) \subseteq learnersInScope(scope) BY DEF LearnerMeant
<1>2. ClassMeant(scope, f) \subseteq learnersInScope(scope) BY DEF ClassMeant
<1>3. QED BY <1>1, <1>2 DEF NoTeachers, LearnerOrTest

(* Each report: its learners are of the scope. *)
LEMMA ReportLearners ==
    ASSUME db \in Database, NEW scope, NEW f, NEW k
    PROVE  \A answer \in ReportController(scope, f, k) : answer.learners \subseteq learnersInScope(scope)
<1> DEFINE fine(answer) == answer.learners \subseteq learnersInScope(scope)
<1>1. fine(getStudentsScoresData(scope, f, k)) /\ fine(getClassScoresData(scope, f, k))
  BY MeantInScope DEF getStudentsScoresData, getClassScoresData, Nothing
<1>2. fine(getStudentLastCompletedQuiz(scope, f)) BY DEF getStudentLastCompletedQuiz, Nothing
<1>3. fine(getLevelQuizScoresData(scope, f, k)) /\ fine(getClassLevelQuizScoresData(scope, f, k))
  BY MeantInScope DEF getLevelQuizScoresData, getClassLevelQuizScoresData, Nothing
<1>4. fine(getStudentStatus(scope, f)) BY DEF getStudentStatus, Nothing
<1>5. fine(getStudentGradeProgress(scope, f, k)) /\ fine(getStudentLevelProgress(scope, f, k))
      /\ fine(getStudentLessonProgress(scope, f, k))
  BY MeantInScope DEF getStudentGradeProgress, getStudentLevelProgress, getStudentLessonProgress, Nothing
<1>6. \A s : fine(getStudentsOfflineOnline(scope, s)) BY DEF getStudentsOfflineOnline
<1>7. \A b : fine(getStudentBaselineEndlineResults(scope, b)) BY DEF getStudentBaselineEndlineResults, Nothing
<1> HIDE DEF fine
<1>8. \A answer \in ReportController(scope, f, k) : fine(answer)
  BY <1>1, <1>2, <1>3, <1>4, <1>5, <1>6, <1>7
     DEF ReportController, LearnerReports, ProgressReports, Downloads, BaselineResults
<1>9. QED BY <1>8 DEF fine

(* ... and its content is of the scope, or of the curriculum of a learner of it. *)
LEMMA ScoresReported ==
    ASSUME db \in Database, NEW scope, ScopeOwned(scope), NEW f, NEW k
    PROVE  Reported(getStudentsScoresData(scope, f, k), scope) /\ Reported(getClassScoresData(scope, f, k), scope)
<1>0. Reported(Nothing, scope) BY DEF Reported, Nothing
<1>1. Reported(getStudentsScoresData(scope, f, k), scope)
  <2> DEFINE cur == IF f.curriculumid # None THEN f.curriculumid ELSE db.students[k].curriculumid
             all == FindAll("lessons", LAMBDA l :
                      /\ Shown(l) /\ Keeps(f.levelid, l.levelid)
                      /\ Keeps(f.gradeid, db.levels[l.levelid].gradeid)
                      /\ cur = db.grades[db.levels[l.levelid].gradeid].curriculumid)
             ls  == {l \in all : Keeps(f.lessonid, l)}
  <2>1. CASE contentFiltersInScope(scope, f) /\ k \in LearnerMeant(scope, f)
    <3>1. \A l \in ls : l \in Lessons /\ CurriculumOfLesson(l) = cur /\ cur \in Curricula
      BY Tables, Ids DEF FindAll, CurriculumOfLesson, CurriculumOfLevel
    <3>2. cur \in Curricula => Covered(cur, scope) BY <2>1, FiltersCovered, MeantInScope DEF Covered
    <3>3. getStudentsScoresData(scope, f, k) = [learners |-> {k}, content |-> Rows("lesson", ls)]
      BY <2>1 DEF getStudentsScoresData
    <3> HIDE DEF ls, cur
    <3>4. \A row \in Rows("lesson", ls) : RowReported(row, scope) BY <3>1, <3>2, TiersReported
    <3>5. QED BY <3>3, <3>4 DEF Reported
  <2>2. CASE ~(contentFiltersInScope(scope, f) /\ k \in LearnerMeant(scope, f))
    BY <1>0, <2>2 DEF getStudentsScoresData
  <2>3. QED BY <2>1, <2>2
<1>2. Reported(getClassScoresData(scope, f, k), scope)
  <2> DEFINE ls == IF f.lessonid # None
                   THEN {l \in {f.lessonid} \cap Lessons : l \in LiveLessonsOf(
                            db.grades[db.levels[db.lessons[l].levelid].gradeid].curriculumid)}
                   ELSE LiveLessonsOf(db.students[k].curriculumid)
  <2>1. CASE contentFiltersInScope(scope, f) /\ k \in ClassMeant(scope, f)
    <3>1. \A l \in ls : l \in Lessons /\ Covered(CurriculumOfLesson(l), scope)
      <4>1. TAKE l \in ls
      <4>2. CASE f.lessonid # None BY <2>1, <4>2, FiltersCovered
      <4>3. CASE f.lessonid = None BY <2>1, <4>3, LiveLessons, MeantInScope DEF Covered
      <4>4. QED BY <4>2, <4>3
    <3>2. getClassScoresData(scope, f, k) = [learners |-> NoTeachers(ClassMeant(scope, f)), content |-> Rows("lesson", ls)]
      BY <2>1 DEF getClassScoresData
    <3> HIDE DEF ls
    <3>3. \A row \in Rows("lesson", ls) : RowReported(row, scope) BY <3>1, TiersReported
    <3>4. QED BY <3>2, <3>3 DEF Reported
  <2>2. CASE ~(contentFiltersInScope(scope, f) /\ k \in ClassMeant(scope, f)) BY <1>0, <2>2 DEF getClassScoresData
  <2>3. QED BY <2>1, <2>2
<1>3. QED BY <1>1, <1>2

LEMMA QuizzesReported ==
    ASSUME db \in Database, OwnReferences(db), NEW scope, ScopeOwned(scope), NEW f, NEW k
    PROVE  /\ Reported(getStudentLastCompletedQuiz(scope, f), scope)
           /\ Reported(getLevelQuizScoresData(scope, f, k), scope)
           /\ Reported(getClassLevelQuizScoresData(scope, f, k), scope)
<1>0. Reported(Nothing, scope) BY DEF Reported, Nothing
<1>1. Reported(getStudentLastCompletedQuiz(scope, f), scope)
  <2> DEFINE named == {x \in learnersInScope(scope) :
                        /\ ~db.students[x].is_teacher_acc
                        /\ Keeps(f.standard, db.students[x].standard)
                        /\ IF f.studentid = None /\ f.standard = None THEN x = TestStudent
                           ELSE Keeps(f.studentid, x)}
             ls == {l \in Lessons : \E x \in named, q \in Quizzes :
                      db.lessonquizzes[q].lessonid = l /\ db.studentprogress[<<x, q>>] # None}
  <2>1. ASSUME NEW l \in ls PROVE l \in Lessons /\ OwnersOf("lesson", l) = {scope.organisationid}
    <3>1. PICK x \in named, q \in Quizzes : db.lessonquizzes[q].lessonid = l /\ db.studentprogress[<<x, q>>] # None
      OBVIOUS
    <3>2. x \in Learners /\ db.students[x].schoolid \in scope.schoolids BY InScope
    <3>3. OwnerIn(db, l) = SchoolOwnerIn(db, db.students[x].schoolid) BY <3>1, <3>2 DEF OwnReferences
    <3>4. SchoolOwnerIn(db, db.students[x].schoolid) = scope.organisationid BY <3>2 DEF ScopeOwned, SchoolOwnerIn
    <3>5. Inside(<<"lesson", l>>, CurriculumOfLesson(l), FALSE) BY TiersInside
    <3>6. OwnersOf("lesson", l) = {db.curriculums[CurriculumOfLesson(l)].organisationid} BY <3>5 DEF OwnersOf, Inside
    <3>7. QED BY <3>3, <3>4, <3>6 DEF OwnerIn, CurriculumOfLesson, CurriculumOfLevel
  <2>2. CASE contentFiltersInScope(scope, f)
    <3>1. getStudentLastCompletedQuiz(scope, f) = [learners |-> named, content |-> Rows("lesson", ls)]
      BY <2>2 DEF getStudentLastCompletedQuiz
    <3> HIDE DEF ls, named
    <3>2. ASSUME NEW row \in Rows("lesson", ls) PROVE RowReported(row, scope)
      <4>1. PICK l \in ls : row = <<"lesson", l>> BY DEF Rows
      <4>2. QED BY <2>1, <4>1 DEF RowReported
    <3>3. QED BY <3>1, <3>2 DEF Reported
  <2>3. CASE ~contentFiltersInScope(scope, f) BY <1>0, <2>3 DEF getStudentLastCompletedQuiz
  <2>4. QED BY <2>2, <2>3
<1>2. Reported(getLevelQuizScoresData(scope, f, k), scope)
  <2> DEFINE cur == IF f.curriculumid # None THEN f.curriculumid ELSE db.students[k].curriculumid
             all == FindAll("levels", LAMBDA v :
                      Shown(v) /\ Keeps(f.gradeid, v.gradeid) /\ db.grades[v.gradeid].curriculumid = cur)
             vs  == {v \in all : Keeps(f.levelid, v)}
             meant == LearnerMeant(scope, [f EXCEPT !.standard = None])
  <2>0. meant \subseteq learnersInScope(scope) BY MeantInScope
  <2>1. CASE contentFiltersInScope(scope, f) /\ k \in meant
    <3>1. \A v \in vs : v \in Levels /\ CurriculumOfLevel(v) = cur /\ cur \in Curricula
      BY Tables, Ids DEF FindAll, CurriculumOfLevel
    <3>2. cur \in Curricula => Covered(cur, scope) BY <2>0, <2>1, FiltersCovered DEF Covered
    <3>3. getLevelQuizScoresData(scope, f, k) = [learners |-> {k}, content |-> Rows("level", vs)]
      BY <2>1 DEF getLevelQuizScoresData
    <3> HIDE DEF vs, cur
    <3>4. \A row \in Rows("level", vs) : RowReported(row, scope) BY <3>1, <3>2, TiersReported
    <3>5. QED BY <3>3, <3>4 DEF Reported
  <2>2. CASE ~(contentFiltersInScope(scope, f) /\ k \in meant) BY <1>0, <2>2 DEF getLevelQuizScoresData
  <2>3. QED BY <2>1, <2>2
<1>3. Reported(getClassLevelQuizScoresData(scope, f, k), scope)
  <2> DEFINE vs == IF f.levelid # None THEN {f.levelid} \cap Levels
                   ELSE {db.lessons[l].levelid : l \in LiveLessonsOf(db.students[k].curriculumid)}
  <2>1. CASE contentFiltersInScope(scope, f) /\ k \in ClassMeant(scope, f)
    <3>1. \A v \in vs : v \in Levels /\ Covered(CurriculumOfLevel(v), scope)
      <4>1. CASE f.levelid # None BY <2>1, <4>1, FiltersCovered
      <4>2. CASE f.levelid = None BY <2>1, <4>2, LiveLessons, MeantInScope DEF Covered
      <4>3. QED BY <4>1, <4>2
    <3>2. getClassLevelQuizScoresData(scope, f, k)
              = [learners |-> NoTeachers(ClassMeant(scope, f)), content |-> Rows("level", vs)]
      BY <2>1 DEF getClassLevelQuizScoresData
    <3> HIDE DEF vs
    <3>3. \A row \in Rows("level", vs) : RowReported(row, scope) BY <3>1, TiersReported
    <3>4. QED BY <3>2, <3>3 DEF Reported
  <2>2. CASE ~(contentFiltersInScope(scope, f) /\ k \in ClassMeant(scope, f))
    BY <1>0, <2>2 DEF getClassLevelQuizScoresData
  <2>3. QED BY <2>1, <2>2
<1>4. QED BY <1>1, <1>2, <1>3

LEMMA ProgressReported ==
    ASSUME db \in Database, NEW scope, ScopeOwned(scope), NEW f, NEW k
    PROVE  /\ Reported(getStudentGradeProgress(scope, f, k), scope)
           /\ Reported(getStudentLevelProgress(scope, f, k), scope)
           /\ Reported(getStudentLessonProgress(scope, f, k), scope)
           /\ \A b \in Baselines : Reported(getStudentBaselineEndlineResults(scope, b), scope)
<1>0. Reported(Nothing, scope) BY DEF Reported, Nothing
<1>1. Reported(getStudentGradeProgress(scope, f, k), scope)
  <2> DEFINE gs == IF f.gradeid # None THEN {f.gradeid} \cap Grades
                   ELSE {db.levels[db.lessons[l].levelid].gradeid : l \in LiveLessonsOf(db.students[k].curriculumid)}
  <2>1. CASE contentFiltersInScope(scope, f) /\ k \in ClassMeant(scope, f)
    <3>1. \A g \in gs : g \in Grades /\ Covered(db.grades[g].curriculumid, scope)
      <4>1. CASE f.gradeid # None BY <2>1, <4>1, FiltersCovered
      <4>2. CASE f.gradeid = None BY <2>1, <4>2, LiveLessons, MeantInScope DEF Covered
      <4>3. QED BY <4>1, <4>2
    <3>2. getStudentGradeProgress(scope, f, k) = [learners |-> ClassMeant(scope, f), content |-> Rows("grade", gs)]
      BY <2>1 DEF getStudentGradeProgress
    <3> HIDE DEF gs
    <3>3. \A row \in Rows("grade", gs) : RowReported(row, scope) BY <3>1, TiersReported
    <3>4. QED BY <3>2, <3>3 DEF Reported
  <2>2. CASE ~(contentFiltersInScope(scope, f) /\ k \in ClassMeant(scope, f)) BY <1>0, <2>2 DEF getStudentGradeProgress
  <2>3. QED BY <2>1, <2>2
<1>2. Reported(getStudentLevelProgress(scope, f, k), scope)
  <2> DEFINE gs == {g \in GradesOf(db.students[k].curriculumid) :
                      Keeps(f.gradeid, g) /\ Shown(db.curriculums[db.grades[g].curriculumid])}
             vs == UNION {LevelsOf(g) : g \in gs}
  <2>1. CASE contentFiltersInScope(scope, f) /\ k \in LearnerOrTest(scope, f)
    <3>1. \A v \in vs : v \in Levels /\ Covered(CurriculumOfLevel(v), scope)
      BY <2>1, TierLists, MeantInScope DEF Covered, CurriculumOfLevel
    <3>2. getStudentLevelProgress(scope, f, k) = [learners |-> {k}, content |-> Rows("level", vs)]
      BY <2>1 DEF getStudentLevelProgress
    <3> HIDE DEF vs
    <3>3. \A row \in Rows("level", vs) : RowReported(row, scope) BY <3>1, TiersReported
    <3>4. QED BY <3>2, <3>3 DEF Reported
  <2>2. CASE ~(contentFiltersInScope(scope, f) /\ k \in LearnerOrTest(scope, f))
    BY <1>0, <2>2 DEF getStudentLevelProgress
  <2>3. QED BY <2>1, <2>2
<1>3. Reported(getStudentLessonProgress(scope, f, k), scope)
  <2> DEFINE ls == {l \in LiveLessonsOf(db.students[k].curriculumid) :
                      Keeps(f.levelid, db.lessons[l].levelid) /\ Keeps(f.gradeid, db.levels[db.lessons[l].levelid].gradeid)}
  <2>1. CASE contentFiltersInScope(scope, f) /\ k \in LearnerOrTest(scope, f)
    <3>1. \A l \in ls : l \in Lessons /\ Covered(CurriculumOfLesson(l), scope)
      BY <2>1, LiveLessons, MeantInScope DEF Covered
    <3>2. getStudentLessonProgress(scope, f, k) = [learners |-> {k}, content |-> Rows("lesson", ls)]
      BY <2>1 DEF getStudentLessonProgress
    <3> HIDE DEF ls
    <3>3. \A row \in Rows("lesson", ls) : RowReported(row, scope) BY <3>1, TiersReported
    <3>4. QED BY <3>2, <3>3 DEF Reported
  <2>2. CASE ~(contentFiltersInScope(scope, f) /\ k \in LearnerOrTest(scope, f))
    BY <1>0, <2>2 DEF getStudentLessonProgress
  <2>3. QED BY <2>1, <2>2
<1>4. ASSUME NEW b \in Baselines PROVE Reported(getStudentBaselineEndlineResults(scope, b), scope)
  <2> DEFINE c == db.curriculumbaseline[b].curriculumid
  <2>1. Inside(<<"baseline", b>>, c, FALSE) BY TiersInside
  <2>2. curriculumOfBaseline(b) = {c}
    <3>1. Find("curriculumbaseline", b) = {db.curriculumbaseline[b]} BY Tables DEF Find
    <3>2. QED BY <3>1 DEF curriculumOfBaseline
  <2>3. CASE c \in scope.curriculumids
    <3>1. RowReported(<<"baseline", b>>, scope) BY <2>1, <2>3, InsideReported DEF Covered
    <3>2. QED BY <1>0, <3>1 DEF Reported, getStudentBaselineEndlineResults
  <2>4. CASE c \notin scope.curriculumids BY <1>0, <2>2, <2>4 DEF getStudentBaselineEndlineResults
  <2>5. QED BY <2>3, <2>4
<1>5. QED BY <1>1, <1>2, <1>3, <1>4

LEMMA ReportsReported ==
    ASSUME db \in Database, OwnReferences(db), NEW scope, ScopeOwned(scope), NEW f, NEW k
    PROVE  \A answer \in ReportController(scope, f, k) : Reported(answer, scope)
<1>1. Reported(getStudentsScoresData(scope, f, k), scope) /\ Reported(getClassScoresData(scope, f, k), scope)
  BY ScoresReported
<1>2. /\ Reported(getStudentLastCompletedQuiz(scope, f), scope)
      /\ Reported(getLevelQuizScoresData(scope, f, k), scope)
      /\ Reported(getClassLevelQuizScoresData(scope, f, k), scope)
  BY QuizzesReported
<1>3. /\ Reported(getStudentGradeProgress(scope, f, k), scope)
      /\ Reported(getStudentLevelProgress(scope, f, k), scope)
      /\ Reported(getStudentLessonProgress(scope, f, k), scope)
      /\ \A b \in Baselines : Reported(getStudentBaselineEndlineResults(scope, b), scope)
  BY ProgressReported
<1>4. Reported(getStudentStatus(scope, f), scope) BY DEF getStudentStatus, Nothing, Reported
<1>5. \A s : Reported(getStudentsOfflineOnline(scope, s), scope) BY DEF getStudentsOfflineOnline, Reported
<1>6. QED
  BY <1>1, <1>2, <1>3, <1>4, <1>5 DEF ReportController, LearnerReports, ProgressReports, Downloads, BaselineResults

(* A learner's login and a teacher's login are of the organisation. *)
LEMMA LoginsInScope ==
    ASSUME db \in Database, OwnReferences(db), NEW scope, ScopeOwned(scope)
    PROVE  /\ \A k \in learnersInScope(scope) :
                 /\ db.schools[db.students[k].schoolid].organisationid = scope.organisationid
                 /\ db.schools[db.schoolusers[db.students[k].schooluserid].schoolid].organisationid = scope.organisationid
           /\ \A u \in Logins : db.schoolusers[u].schoolid \in scope.schoolids
                 => db.schools[db.schoolusers[u].schoolid].organisationid = scope.organisationid
<1>1. \A k \in learnersInScope(scope) :
          k \in Learners /\ db.schools[db.students[k].schoolid].organisationid = scope.organisationid
  BY InScope DEF ScopeOwned
<1>2. \A k \in Learners : db.schools[db.schoolusers[db.students[k].schooluserid].schoolid].organisationid
                              = db.schools[db.students[k].schoolid].organisationid
  BY DEF OwnReferences, SchoolOwnerIn
<1>3. QED BY <1>1, <1>2 DEF ScopeOwned

(* Logins an export or the log-in times name. *)
LEMMA LoginsNamed ==
    ASSUME db \in Database, NEW scope
    PROVE  /\ ExportController(scope).keys.studentids = learnersInScope(scope)
           /\ \A u \in ExportController(scope).keys.schooluserids :
                 u \in Logins /\ (db.schoolusers[u].schoolid \in scope.schoolids
                                  \/ \E k \in learnersInScope(scope) : u = db.students[k].schooluserid)
           /\ \A u \in getlogintime(scope) :
                 u \in Logins /\ (scope = Unlimited \/ db.schoolusers[u].schoolid \in scope.schoolids
                                  \/ \E k \in learnersInScope(scope) : u = db.students[k].schooluserid)
<1>1. \A k \in learnersInScope(scope) : db.students[k].schooluserid \in Logins
  <2>1. \A k \in Learners : db.students[k].schooluserid \in Logins BY DEF Database, StudentRow
  <2>2. QED BY <2>1, InScope
<1>2. ExportController(scope).keys = exportKeysOf(scope) BY DEF ExportController, getstudentdata
<1>3. \A u \in ExportController(scope).keys.schooluserids :
                 u \in Logins /\ (db.schoolusers[u].schoolid \in scope.schoolids
                                  \/ \E k \in learnersInScope(scope) : u = db.students[k].schooluserid)
  BY <1>1, <1>2, Tables DEF exportKeysOf, FindAll
<1>4. \A u \in getlogintime(scope) :
                 u \in Logins /\ (scope = Unlimited \/ db.schoolusers[u].schoolid \in scope.schoolids
                                  \/ \E k \in learnersInScope(scope) : u = db.students[k].schooluserid)
  BY <1>1 DEF getlogintime
<1>5. ExportController(scope).keys.studentids = learnersInScope(scope) BY <1>2 DEF exportKeysOf
<1>6. QED BY <1>3, <1>4, <1>5

(* The learners of a teacher's screens: of the token's school, or of the school the login has now. *)
LEMMA TeacherShows ==
    ASSUME db \in Database, NEW user, NEW c, NEW k, NEW s
    PROVE  \A x \in TeacherController(user, c, k, s) :
              x \in Learners /\ db.students[x].schoolid \in {user.schoolid, db.schoolusers[user.schooluserid].schoolid}
<1> DEFINE fine(xs) == \A x \in xs : x \in Learners
                          /\ db.students[x].schoolid \in {user.schoolid, db.schoolusers[user.schooluserid].schoolid}
<1>1. fine(studentsOfSchool(user)) BY Tables DEF studentsOfSchool, FindAll
<1>2. fine(getStudentsScoresDataOfClass(user, c)) BY <1>1 DEF getStudentsScoresDataOfClass
<1>3. fine(assertTeacherStudent(user, k)) BY Tables DEF assertTeacherStudent, studentIsInSchool, Find
<1>4. fine(getStudentsWithFilter(user, s)) BY <1>1 DEF getStudentsWithFilter
<1>5. fine(getTeacherProfile(user, c)) BY Tables DEF getTeacherProfile, FindAll
<1>6. QED BY <1>1, <1>2, <1>3, <1>4, <1>5 DEF TeacherController

-----------------------------------------------------------------------------
(* Steps that write nothing change no answer to a question about the tables. *)
LEMMA NothingWritten ==
    ASSUME db' = db
    PROVE  /\ \A what, id : OwnersOf(what, id)' = OwnersOf(what, id)
           /\ \A what, id : curriculumIdsOf(what, id, FALSE)' = curriculumIdsOf(what, id, FALSE)
           /\ \A user, what, id : canAccessContent(user, what, id)' <=> canAccessContent(user, what, id)
           /\ \A scope : learnersInScope(scope)' = learnersInScope(scope)
<1>1. \A what, id : curriculumIdsOf(what, id, FALSE)' = curriculumIdsOf(what, id, FALSE)
  BY DEF curriculumIdsOf, curriculumOfGrade, curriculumOfLevel, curriculumOfLesson, curriculumOfBaseline, LessonsUsing,
         Find, FindAll, ActivityTable
<1>2. \A what, id : curriculumIdsOf(what, id, TRUE)' = curriculumIdsOf(what, id, TRUE)
  BY DEF curriculumIdsOf, curriculumOfGrade, curriculumOfLevel, curriculumOfLesson, curriculumOfBaseline, LessonsUsing,
         Find, FindAll, ActivityTable
<1>3. \A user : curriculumIdsInScope(user)' = curriculumIdsInScope(user)
  BY DEF curriculumIdsInScope, claimsOf, curriculaInScope, callerKindOf, schoolCurriculumList, learnerCurriculumList, Find
<1>4. \A what, id : OwnersOf(what, id)' = OwnersOf(what, id) BY <1>1 DEF OwnersOf, Find
<1>5. \A user, what, id : canAccessContent(user, what, id)' <=> canAccessContent(user, what, id)
  BY <1>2, <1>3 DEF canAccessContent, claimsOf, Find
<1>6. \A scope : learnersInScope(scope)' = learnersInScope(scope) BY DEF learnersInScope, FindAll
<1>7. QED BY <1>1, <1>4, <1>5, <1>6

LEMMA NothingMoved ==
    ASSUME db \in Database, db' = db
    PROVE  OwnersStand /\ LinksStand
  BY DEF OwnersStand, LinksStand, OwnerOfGrade, OwnerOfLevel, OwnerOfLesson, OwnerOfLearner

-----------------------------------------------------------------------------
(* What is true of a request between its guards and its handler, and of an answer. *)
ContentShape(r) == \E user, ctl, route, id, fresh :
    r = [kind |-> "content", user |-> user, ctl |-> ctl, route |-> route, id |-> id, fresh |-> fresh]
ScopeShape(r)   == \E what, scope, fresh : r = [kind |-> what, scope |-> scope, fresh |-> fresh]
TeacherShape(r) == \E scope, user, fresh : r = [kind |-> "teacher", scope |-> scope, user |-> user, fresh |-> fresh]

Scoped == {"report", "export", "logintime"}

TeacherAsked(r) ==
    /\ r.user \in Callers /\ claimsOf(r.user) /\ r.scope.organisationid = r.user.organisationid
    /\ r.user.schoolid \in Schools /\ db.schools[r.user.schoolid].organisationid = r.user.organisationid

Asked(r) ==
    \/ ContentShape(r) /\ ContentAsked(r)
    \/ ScopeShape(r) /\ r.kind \in Scoped /\ (r.scope # Unlimited => ScopeOwned(r.scope))
    \/ TeacherShape(r) /\ ScopeOwned(r.scope) /\ TeacherAsked(r)

AnswerHolds(a) ==
    /\ a.learners \subseteq Learners /\ a.logins \subseteq Logins
    /\ a.request.kind = "content" => \A row \in a.content : RowServed(row, a.request)
    /\ a.request.kind \in Scoped \cup {"teacher"} /\ a.request.scope # Unlimited =>
          /\ \A k \in a.learners : db.schools[db.students[k].schoolid].organisationid = a.request.scope.organisationid
          /\ \A u \in a.logins : db.schools[db.schoolusers[u].schoolid].organisationid = a.request.scope.organisationid
          /\ \A row \in a.content : RowReported(row, a.request.scope)

(***************************************************************************)
(* The rows keep their types and their references within one organisation; *)
(* the request on its way was asked within the caller's organisation; the  *)
(* answer out is right about the rows as they still are.                   *)
(***************************************************************************)
RowsHold == db \in Database /\ OwnReferences(db)

RequestHolds == \A r : request = r => r = None \/ Asked(r)

LastHolds == \A a : last = a => a = None \/ AnswerHolds(a)

AccessInv == RowsHold /\ pushes \in 0..MaxPushes /\ RequestHolds /\ LastHolds

(* A scope stays its organisation's whatever is written; a path too. *)
LEMMA ScopeStands ==
    ASSUME OwnersStand, NEW scope, ScopeOwned(scope)
    PROVE  ScopeOwned(scope)'
  BY DEF OwnersStand, ScopeOwned

LEMMA ContentAskedStands ==
    ASSUME db \in Database, OwnersStand, LinksStand, NEW r, ContentAsked(r),
           r.fresh => \A user, what, id : canAccessContent(user, what, id)' <=> canAccessContent(user, what, id)
    PROVE  ContentAsked(r)'
<1> DEFINE what == Controllers[r.ctl][r.route]
<1>1. ASSUME what # None PROVE OwnedPath(what, r.id, r.user.organisationid)'
  <2>1. OwnedPath(what, r.id, r.user.organisationid) BY <1>1 DEF ContentAsked
  <2> DEFINE org == r.user.organisationid
             id  == r.id
  <2> HIDE DEF what, org, id
  <2>2. OwnedPath(what, id, org)' BY <2>1, OwnedPathStands DEF org, id
  <2>3. QED BY <2>2 DEF org, id
<1>2. ASSUME what # None, r.fresh PROVE canAccessContent(r.user, what, r.id)'
  BY <1>2 DEF ContentAsked
<1>3. QED BY <1>1, <1>2 DEF ContentAsked, Controllers, CurriculumRoutes, GradeRoutes, LevelRoutes, LessonRoutes,
     LearningRoutes, QuestionRoutes, IdsFor

LEMMA AskedWritten ==
    ASSUME db \in Database, Kept, NEW q, Asked(q), NEW r, r = [q EXCEPT !.fresh = FALSE]
    PROVE  Asked(r)'
<1>1. OwnersStand /\ LinksStand BY DEF Kept
<1>2. CASE ContentShape(q) /\ ContentAsked(q)
  <2>1. PICK user, ctl, route, id, fresh :
            q = [kind |-> "content", user |-> user, ctl |-> ctl, route |-> route, id |-> id, fresh |-> fresh]
    BY <1>2 DEF ContentShape
  <2>0. r = [kind |-> "content", user |-> user, ctl |-> ctl, route |-> route, id |-> id, fresh |-> FALSE] BY <2>1
  <2>2. ContentShape(r) BY <2>0 DEF ContentShape
  <2>3. ContentAsked(r) /\ ~r.fresh BY <1>2, <2>0, <2>1 DEF ContentAsked
  <2>4. ContentAsked(r)' BY <1>1, <2>3, ContentAskedStands
  <2>5. QED BY <2>2, <2>4 DEF Asked, ContentShape
<1>3. CASE ScopeShape(q) /\ q.kind \in Scoped /\ (q.scope # Unlimited => ScopeOwned(q.scope))
  <2>1. PICK what, sc, fresh : q = [kind |-> what, scope |-> sc, fresh |-> fresh] BY <1>3 DEF ScopeShape
  <2>0. r = [kind |-> what, scope |-> sc, fresh |-> FALSE] BY <2>1
  <2>2. ScopeShape(r) /\ r.kind \in Scoped /\ r.scope = q.scope BY <1>3, <2>0, <2>1 DEF ScopeShape
  <2> DEFINE scope == q.scope
  <2> HIDE DEF scope
  <2>3. scope # Unlimited => ScopeOwned(scope)' BY <1>1, <1>3, ScopeStands DEF scope
  <2>4. r.scope # Unlimited => ScopeOwned(r.scope)' BY <2>2, <2>3 DEF scope
  <2>5. QED BY <2>2, <2>4 DEF Asked, ScopeShape, Unlimited
<1>4. CASE TeacherShape(q) /\ ScopeOwned(q.scope) /\ TeacherAsked(q)
  <2>1. PICK sc, user, fresh : q = [kind |-> "teacher", scope |-> sc, user |-> user, fresh |-> fresh]
    BY <1>4 DEF TeacherShape
  <2>0. r = [kind |-> "teacher", scope |-> sc, user |-> user, fresh |-> FALSE] BY <2>1
  <2>2. TeacherShape(r) /\ r.scope = q.scope /\ r.user = q.user BY <2>0, <2>1 DEF TeacherShape
  <2> DEFINE scope == q.scope
  <2> HIDE DEF scope
  <2>3. ScopeOwned(scope)' BY <1>1, <1>4, ScopeStands DEF scope
  <2>4. ScopeOwned(r.scope)' BY <2>2, <2>3 DEF scope
  <2>5. TeacherAsked(r)' BY <1>1, <1>4, <2>2 DEF TeacherAsked, OwnersStand, claimsOf
  <2>6. QED BY <2>2, <2>4, <2>5 DEF Asked, TeacherShape
<1>5. QED BY <1>2, <1>3, <1>4 DEF Asked

LEMMA AskedUnwritten ==
    ASSUME db \in Database, db' = db, NEW r, Asked(r)
    PROVE  Asked(r)'
<1>1. OwnersStand /\ LinksStand BY NothingMoved
<1>2. CASE ContentShape(r) /\ ContentAsked(r)
  <2>1. ContentAsked(r)' BY <1>1, <1>2, NothingWritten, ContentAskedStands
  <2>2. QED BY <1>2, <2>1 DEF Asked, ContentShape
<1>3. CASE ScopeShape(r) /\ r.kind \in Scoped /\ (r.scope # Unlimited => ScopeOwned(r.scope))
  <2>1. r.scope # Unlimited => ScopeOwned(r.scope)' BY <1>3 DEF ScopeOwned
  <2>2. QED BY <1>3, <2>1 DEF Asked, ScopeShape, Unlimited
<1>4. CASE TeacherShape(r) /\ ScopeOwned(r.scope) /\ TeacherAsked(r)
  <2>1. ScopeOwned(r.scope)' /\ TeacherAsked(r)' BY <1>4 DEF ScopeOwned, TeacherAsked, claimsOf
  <2>2. QED BY <1>4, <2>1 DEF Asked, TeacherShape
<1>5. QED BY <1>2, <1>3, <1>4 DEF Asked

LEMMA AnswerUnwritten ==
    ASSUME db' = db, NEW a, AnswerHolds(a)
    PROVE  AnswerHolds(a)'
<1>1. \A row, r : RowServed(row, r) => RowServed(row, r)' BY NothingWritten DEF RowServed
<1>2. \A row, scope : RowReported(row, scope) => RowReported(row, scope)' BY NothingWritten DEF RowReported
<1>3. QED BY <1>1, <1>2 DEF AnswerHolds, Unlimited

(* The scope of a token that proved its claims, and of the server's key. *)
LEMMA TokenScope ==
    ASSUME db \in Database, NEW user, checkTokenClaims(user)
    PROVE  /\ ScopeOwned(ScopeOfToken(user)) /\ ScopeOfToken(user).organisationid = user.organisationid
           /\ claimsOf(user) /\ user.schoolid \in Schools
           /\ db.schools[user.schoolid].organisationid = user.organisationid
<1>1. claimsOf(user) /\ user.schoolid \in Schools /\ db.schools[user.schoolid].organisationid = user.organisationid
  BY Tables DEF checkTokenClaims, Find
<1>2. schoolCurriculumList(user.organisationid, user.schoolid) \subseteq Curricula
  <2>1. \A x \in Schools : db.schools[x].curriculums \subseteq Curricula BY DEF Database, SchoolRow
  <2>2. QED BY <2>1, Tables DEF schoolCurriculumList, Find
<1>3. CASE callerKindOf(user) = "learner" BY <1>1, <1>3 DEF ScopeOfToken, ScopeOwned
<1>4. CASE callerKindOf(user) # "learner" BY <1>1, <1>2, <1>4 DEF ScopeOfToken, ScopeOwned, curriculaInScope
<1>5. QED BY <1>1, <1>3, <1>4

LEMMA KeyScope ==
    ASSUME db \in Database, NEW header, ScopeOfKey(header) # Unlimited
    PROVE  ScopeOwned(ScopeOfKey(header))
<1>1. CASE header \notin Orgs BY <1>1 DEF ScopeOfKey, Refused, ScopeOwned
<1>2. CASE header \in Orgs /\ header # "platform"
  BY <1>2, Tables DEF ScopeOfKey, ScopeOwned, schoolIdsOfOrganisation, FindAll, curriculaInScope
<1>3. QED BY <1>1, <1>2 DEF ScopeOfKey

LEMMA RequestScope ==
    ASSUME db \in Database, NEW by, NEW roles, resolveReportScope(by, roles) # Refused,
           resolveReportScope(by, roles) # Unlimited
    PROVE  ScopeOwned(resolveReportScope(by, roles))
<1>1. CASE by.key BY <1>1, KeyScope DEF resolveReportScope
<1>2. CASE ~by.key
  <2>1. AccessGuard(by.user, roles) /\ resolveReportScope(by, roles) = ScopeOfToken(by.user) BY <1>2 DEF resolveReportScope
  <2>2. checkTokenClaims(by.user) BY <2>1 DEF AccessGuard
  <2>3. QED BY <2>1, <2>2, TokenScope
<1>3. QED BY <1>1, <1>2

(* Every request leaves its guards as Asked says. *)
LEMMA AskHolds ==
    ASSUME db \in Database, AskStep
    PROVE  UNCHANGED <<db, last, pushes>> /\ \E r : request' = r /\ Asked(r)
<1>1. ASSUME NEW user \in Callers, NEW ctl \in DOMAIN Controllers, NEW route \in DOMAIN Controllers[ctl],
             NEW id \in IdsFor(ctl, route), AskContent(user, ctl, route, id)
      PROVE  UNCHANGED <<db, last, pushes>> /\ \E r : request' = r /\ Asked(r)
  <2> DEFINE r == [kind |-> "content", user |-> user, ctl |-> ctl, route |-> route, id |-> id, fresh |-> TRUE]
  <2>1. request' = r /\ UNCHANGED <<db, last, pushes>> BY <1>1 DEF AskContent, Ask
  <2>2. Admitted(ctl, route, user, id) BY <1>1 DEF AskContent
  <2>3. ContentShape(r) BY DEF ContentShape
  <2>4. r.user = user /\ r.ctl = ctl /\ r.route = route /\ r.id = id OBVIOUS
  <2> HIDE DEF r
  <2>5. ContentAsked(r) BY <2>2, <2>4, ContentAdmitted
  <2>6. QED BY <2>1, <2>3, <2>5 DEF Asked
<1>2. ASSUME NEW what \in Scoped, NEW scope, scope # Unlimited => ScopeOwned(scope),
             Ask([kind |-> what, scope |-> scope, fresh |-> FALSE])
      PROVE  UNCHANGED <<db, last, pushes>> /\ \E r : request' = r /\ Asked(r)
  <2> DEFINE r == [kind |-> what, scope |-> scope, fresh |-> TRUE]
  <2>1. request' = r /\ UNCHANGED <<db, last, pushes>> BY <1>2 DEF Ask
  <2>2. ScopeShape(r) /\ r.kind = what /\ r.scope = scope BY DEF ScopeShape
  <2> HIDE DEF r
  <2>3. Asked(r) BY <1>2, <2>2 DEF Asked
  <2>4. QED BY <2>1, <2>3
<1>3. ASSUME NEW by \in Requesters, AskReport(by) \/ AskLoginTime(by)
      PROVE  UNCHANGED <<db, last, pushes>> /\ \E r : request' = r /\ Asked(r)
  <2>1. CASE AskReport(by)
    <3> DEFINE scope == resolveReportScope(by, StaffOnly)
    <3>1. scope # Unlimited => ScopeOwned(scope) BY <2>1, RequestScope DEF AskReport
    <3>2. Ask([kind |-> "report", scope |-> scope, fresh |-> FALSE]) BY <2>1 DEF AskReport
    <3> HIDE DEF scope
    <3>3. QED BY <1>2, <3>1, <3>2 DEF Scoped
  <2>2. CASE AskLoginTime(by)
    <3> DEFINE scope == resolveReportScope(by, {})
    <3>1. scope # Unlimited => ScopeOwned(scope) BY <2>2, RequestScope DEF AskLoginTime
    <3>2. Ask([kind |-> "logintime", scope |-> scope, fresh |-> FALSE]) BY <2>2 DEF AskLoginTime
    <3> HIDE DEF scope
    <3>3. QED BY <1>2, <3>1, <3>2 DEF Scoped
  <2>3. QED BY <1>3, <2>1, <2>2
<1>4. ASSUME NEW user \in Callers, AskExport(user)
      PROVE  UNCHANGED <<db, last, pushes>> /\ \E r : request' = r /\ Asked(r)
  <2> DEFINE scope == ScopeOfToken(user)
  <2>1. ScopeOwned(scope) BY <1>4, TokenScope DEF AskExport, AccessGuard
  <2>2. Ask([kind |-> "export", scope |-> scope, fresh |-> FALSE]) BY <1>4 DEF AskExport
  <2> HIDE DEF scope
  <2>3. QED BY <1>2, <2>1, <2>2 DEF Scoped
<1>5. ASSUME NEW user \in Callers, AskTeacher(user)
      PROVE  UNCHANGED <<db, last, pushes>> /\ \E r : request' = r /\ Asked(r)
  <2> DEFINE scope == ScopeOfToken(user)
             r == [kind |-> "teacher", scope |-> scope, user |-> user, fresh |-> TRUE]
  <2>1. /\ ScopeOwned(scope) /\ scope.organisationid = user.organisationid /\ claimsOf(user)
        /\ user.schoolid \in Schools /\ db.schools[user.schoolid].organisationid = user.organisationid
    BY <1>5, TokenScope DEF AskTeacher, AccessGuard
  <2>2. Ask([kind |-> "teacher", scope |-> scope, user |-> user, fresh |-> FALSE]) BY <1>5 DEF AskTeacher
  <2> HIDE DEF scope
  <2>3. request' = r /\ UNCHANGED <<db, last, pushes>> BY <2>2 DEF Ask
  <2>4. TeacherShape(r) /\ r.user = user /\ r.scope = scope BY DEF TeacherShape
  <2> HIDE DEF r
  <2>5. Asked(r) BY <2>1, <2>4 DEF Asked, TeacherAsked
  <2>6. QED BY <2>3, <2>5
<1>6. \/ \E user \in Callers, ctl \in DOMAIN Controllers :
             \E route \in DOMAIN Controllers[ctl] : \E id \in IdsFor(ctl, route) : AskContent(user, ctl, route, id)
      \/ \E by \in Requesters : AskReport(by) \/ AskLoginTime(by)
      \/ \E user \in Callers : AskExport(user) \/ AskTeacher(user)
  BY DEF AskStep
<1>7. CASE \E user \in Callers, ctl \in DOMAIN Controllers :
             \E route \in DOMAIN Controllers[ctl] : \E id \in IdsFor(ctl, route) : AskContent(user, ctl, route, id)
  BY <1>1, <1>7, Zenon
<1>8. CASE \E by \in Requesters : AskReport(by) \/ AskLoginTime(by) BY <1>3, <1>8
<1>9. CASE \E user \in Callers : AskExport(user) \/ AskTeacher(user) BY <1>4, <1>5, <1>9
<1>10. QED BY <1>6, <1>7, <1>8, <1>9

(* Every handler answers as AnswerHolds says. *)
LEMMA ServeHolds ==
    ASSUME RowsHold, RequestHolds, ServeStep
    PROVE  UNCHANGED <<db, pushes>> /\ request' = None /\ \E a : last' = a /\ AnswerHolds(a)
<1>0. db \in Database /\ OwnReferences(db) /\ OwnDocuments BY DocumentsOwned DEF RowsHold
<1>1. PICK r : request = r OBVIOUS
<1>2. ASSUME request # None PROVE Asked(r) BY <1>1, <1>2 DEF RequestHolds
<1>3. \A q : ContentShape(q) => q.kind = "content" BY DEF ContentShape
<1>4. \A q : TeacherShape(q) => q.kind = "teacher" BY DEF TeacherShape
<1>5. ASSUME NEW rows, NEW learners, NEW logins, Respond(rows, learners, logins),
             AnswerHolds([request |-> r, content |-> rows, learners |-> learners, logins |-> logins])
      PROVE  UNCHANGED <<db, pushes>> /\ request' = None /\ \E a : last' = a /\ AnswerHolds(a)
  BY <1>1, <1>5 DEF Respond
<1>6. ASSUME NEW rows, NEW learners, NEW logins, r.kind \in Scoped \cup {"teacher"},
             learners \subseteq Learners, logins \subseteq Logins, Respond(rows, learners, logins),
             r.scope # Unlimited =>
                /\ \A k \in learners : db.schools[db.students[k].schoolid].organisationid = r.scope.organisationid
                /\ \A u \in logins : db.schools[db.schoolusers[u].schoolid].organisationid = r.scope.organisationid
                /\ \A row \in rows : RowReported(row, r.scope)
      PROVE  UNCHANGED <<db, pushes>> /\ request' = None /\ \E a : last' = a /\ AnswerHolds(a)
  <2>1. r.kind # "content" BY <1>6 DEF Scoped
  <2>2. AnswerHolds([request |-> r, content |-> rows, learners |-> learners, logins |-> logins])
    BY <1>6, <2>1 DEF AnswerHolds
  <2>3. QED BY <1>5, <1>6, <2>2
<1>7. ASSUME r.kind \in Scoped, request # None PROVE r.scope # Unlimited => ScopeOwned(r.scope)
  BY <1>2, <1>3, <1>4, <1>7 DEF Asked, Scoped
<1>8. ASSUME NEW std, ServeContent(std)
      PROVE  UNCHANGED <<db, pushes>> /\ request' = None /\ \E a : last' = a /\ AnswerHolds(a)
  <2> DEFINE rows == Handler(r.ctl, r.route, r.user, r.id, std)
  <2>1. r.kind = "content" /\ request # None /\ Respond(rows, {}, {}) BY <1>1, <1>8 DEF ServeContent
  <2>2. ContentAsked(r) BY <1>2, <1>4, <2>1 DEF Asked, Scoped
  <2>3. \A row \in rows : RowServed(row, r) BY <1>0, <2>2, ContentServed
  <2> HIDE DEF rows
  <2>4. AnswerHolds([request |-> r, content |-> rows, learners |-> {}, logins |-> {}])
    BY <2>1, <2>3 DEF AnswerHolds, Scoped
  <2>5. QED BY <1>5, <2>1, <2>4
<1>9. ASSUME NEW f, NEW k, ServeReport(f, k)
      PROVE  UNCHANGED <<db, pushes>> /\ request' = None /\ \E a : last' = a /\ AnswerHolds(a)
  <2>1. request # None /\ r.kind = "report" BY <1>1, <1>9 DEF ServeReport
  <2>2. PICK answer \in ReportController(r.scope, f, k) : Respond(answer.content, answer.learners, {})
    BY <1>1, <1>9 DEF ServeReport
  <2> DEFINE scope == r.scope
  <2>3. answer.learners \subseteq learnersInScope(scope) BY <1>0, <2>2, ReportLearners
  <2>4. answer.learners \subseteq Learners BY <1>0, <2>3, InScope
  <2>5. ASSUME scope # Unlimited
        PROVE  /\ \A x \in answer.learners : db.schools[db.students[x].schoolid].organisationid = scope.organisationid
               /\ \A row \in answer.content : RowReported(row, scope)
    <3>1. ScopeOwned(scope) BY <1>7, <2>1, <2>5 DEF Scoped
    <3>2. Reported(answer, scope) BY <1>0, <2>2, <3>1, ReportsReported
    <3>3. \A x \in learnersInScope(scope) : db.schools[db.students[x].schoolid].organisationid = scope.organisationid
      BY <1>0, <3>1, LoginsInScope
    <3>4. QED BY <2>3, <3>2, <3>3 DEF Reported
  <2>6. QED BY <1>6, <2>1, <2>2, <2>4, <2>5 DEF Scoped
<1>10. CASE ServeExport
  <2> DEFINE scope == r.scope
             keys  == ExportController(scope).keys
  <2>1. request # None /\ r.kind = "export" /\ Respond({}, keys.studentids, keys.schooluserids)
    BY <1>1, <1>10 DEF ServeExport
  <2>2. keys.studentids = learnersInScope(scope)
        /\ \A u \in keys.schooluserids : u \in Logins /\ (db.schoolusers[u].schoolid \in scope.schoolids
                                              \/ \E k \in learnersInScope(scope) : u = db.students[k].schooluserid)
    BY <1>0, LoginsNamed
  <2> HIDE DEF keys
  <2>3. keys.studentids \subseteq Learners /\ keys.schooluserids \subseteq Logins BY <1>0, <2>2, InScope
  <2>4. ASSUME scope # Unlimited
        PROVE  /\ \A x \in keys.studentids : db.schools[db.students[x].schoolid].organisationid = scope.organisationid
               /\ \A u \in keys.schooluserids : db.schools[db.schoolusers[u].schoolid].organisationid = scope.organisationid
    <3>1. ScopeOwned(scope) BY <1>7, <2>1, <2>4 DEF Scoped
    <3>2. QED BY <1>0, <2>2, <3>1, LoginsInScope
  <2>5. QED BY <1>6, <2>1, <2>3, <2>4 DEF Scoped
<1>11. CASE ServeLoginTime
  <2> DEFINE scope == r.scope
             logins == getlogintime(scope)
  <2>1. request # None /\ r.kind = "logintime" /\ Respond({}, {}, logins) BY <1>1, <1>11 DEF ServeLoginTime
  <2>2. \A u \in logins : u \in Logins /\ (scope = Unlimited \/ db.schoolusers[u].schoolid \in scope.schoolids
                                              \/ \E k \in learnersInScope(scope) : u = db.students[k].schooluserid)
    BY <1>0, LoginsNamed
  <2> HIDE DEF logins
  <2>3. ASSUME scope # Unlimited
        PROVE  \A u \in logins : db.schools[db.schoolusers[u].schoolid].organisationid = scope.organisationid
    <3>1. ScopeOwned(scope) BY <1>7, <2>1, <2>3 DEF Scoped
    <3>2. QED BY <1>0, <2>2, <2>3, <3>1, LoginsInScope
  <2>4. QED BY <1>6, <2>1, <2>2, <2>3 DEF Scoped
<1>12. ASSUME NEW c, NEW k, NEW s, ServeTeacher(c, k, s)
       PROVE  UNCHANGED <<db, pushes>> /\ request' = None /\ \E a : last' = a /\ AnswerHolds(a)
  <2> DEFINE shown == TeacherController(r.user, c, k, s)
  <2>1. request # None /\ r.kind = "teacher" /\ Respond({}, shown, {}) BY <1>1, <1>12 DEF ServeTeacher
  <2>2. TeacherAsked(r) BY <1>2, <1>3, <2>1 DEF Asked, Scoped
  <2>3. \A x \in shown : x \in Learners /\ db.students[x].schoolid \in {r.user.schoolid, db.schoolusers[r.user.schooluserid].schoolid}
    BY <1>0, TeacherShows
  <2> HIDE DEF shown
  <2>4. db.schools[db.schoolusers[r.user.schooluserid].schoolid].organisationid = r.user.organisationid
    BY <1>0, <2>2 DEF OwnReferences, TeacherAsked, SchoolOwnerIn
  <2>5. \A x \in shown : db.schools[db.students[x].schoolid].organisationid = r.scope.organisationid
    BY <2>2, <2>3, <2>4 DEF TeacherAsked
  <2>6. QED BY <1>6, <2>1, <2>3, <2>5
<1>13. QED BY <1>8, <1>9, <1>10, <1>11, <1>12 DEF ServeStep

(* A write makes the last answer old and the request on its way no longer fresh. *)
LEMMA WriteShape ==
    ASSUME WriteStep
    PROVE  /\ pushes < MaxPushes /\ pushes' = pushes + 1 /\ last' = None
           /\ request' = IF request = None THEN None ELSE [request EXCEPT !.fresh = FALSE]
<1> DEFINE Shape == /\ pushes' = pushes + 1 /\ last' = None
                    /\ request' = IF request = None THEN None ELSE [request EXCEPT !.fresh = FALSE]
<1>1. \A new : Write(new) => Shape BY DEF Write
<1> HIDE DEF Shape
<1>2. \A o : SwitchContent(o) => Shape BY <1>1, Zenon DEF SwitchContent
<1>3. \A o : SwitchActivity(o) => Shape BY <1>1, Zenon DEF SwitchActivity
<1>4. \A o : MoveContent(o) => Shape BY <1>1, Zenon DEF MoveContent
<1>5. \A o : WeighContent(o) => Shape BY <1>1, Zenon DEF WeighContent
<1>6. \A o : WriteSchool(o) => Shape BY <1>1, Zenon DEF WriteSchool
<1>7. \A o : WriteLearner(o) => Shape BY <1>1, Zenon DEF WriteLearner
<1>8. \A o : SuspendOrganisation(o) => Shape BY <1>1, Zenon DEF SuspendOrganisation
<1>9. \A user : EarnPoints(user) \/ SubmitPractice(user) => Shape BY <1>1, Zenon DEF EarnPoints, SubmitPractice
<1>10. pushes < MaxPushes /\ Shape BY <1>2, <1>3, <1>4, <1>5, <1>6, <1>7, <1>8, <1>9, Zenon DEF WriteStep
<1>11. QED BY <1>10 DEF Shape

(* The invariant holds at the start and is kept by every step. *)
LEMMA AccessInvInit == AccessInit => AccessInv
<1> SUFFICES ASSUME AccessInit PROVE AccessInv OBVIOUS
<1>1. RowsHold BY StartAssumption DEF AccessInit, RowsHold
<1>2. pushes \in 0..MaxPushes BY AccessAssumption DEF AccessInit
<1>3. RequestHolds /\ LastHolds BY DEF AccessInit, RequestHolds, LastHolds
<1>4. QED BY <1>1, <1>2, <1>3 DEF AccessInv

LEMMA RowsUnwritten == ASSUME RowsHold, db' = db PROVE RowsHold'
<1>1. Kept BY NothingMoved DEF RowsHold, Kept
<1>2. QED BY <1>1, ReferencesKept DEF RowsHold, Kept

LEMMA AccessInvKept == AccessInv /\ [AccessNext]_accessVars => AccessInv'
<1> SUFFICES ASSUME AccessInv, [AccessNext]_accessVars PROVE AccessInv' OBVIOUS
<1>0. db \in Database /\ OwnReferences(db) /\ RowsHold /\ RequestHolds /\ LastHolds
      /\ pushes \in 0..MaxPushes /\ MaxPushes \in Nat
  BY AccessAssumption DEF AccessInv, RowsHold
<1>1. CASE AskStep
  <2>1. UNCHANGED <<db, last, pushes>> BY <1>0, <1>1, AskHolds
  <2>2. PICK r : request' = r /\ Asked(r) BY <1>0, <1>1, AskHolds
  <2>3. Asked(r)' BY <1>0, <2>1, <2>2, AskedUnwritten
  <2>4. RequestHolds' BY <2>2, <2>3 DEF RequestHolds
  <2>5. LastHolds'
    <3>1. ASSUME NEW a, last' = a, a # None PROVE AnswerHolds(a)'
      <4>1. AnswerHolds(a) BY <1>0, <2>1, <3>1 DEF LastHolds
      <4>2. QED BY <2>1, <4>1, AnswerUnwritten
    <3>2. QED BY <3>1 DEF LastHolds
  <2>6. RowsHold' BY <1>0, <2>1, RowsUnwritten
  <2>7. QED BY <1>0, <2>1, <2>4, <2>5, <2>6 DEF AccessInv
<1>2. CASE ServeStep
  <2>1. UNCHANGED <<db, pushes>> /\ request' = None BY <1>0, <1>2, ServeHolds
  <2>2. PICK a : last' = a /\ AnswerHolds(a) BY <1>0, <1>2, ServeHolds
  <2>3. AnswerHolds(a)' BY <2>1, <2>2, AnswerUnwritten
  <2>4. LastHolds' BY <2>2, <2>3 DEF LastHolds
  <2>5. RequestHolds' BY <2>1 DEF RequestHolds
  <2>6. RowsHold' BY <1>0, <2>1, RowsUnwritten
  <2>7. QED BY <1>0, <2>1, <2>4, <2>5, <2>6 DEF AccessInv
<1>3. CASE WriteStep
  <2>1. Kept BY <1>0, <1>3, WritesKeep
  <2>2. /\ pushes < MaxPushes /\ pushes' = pushes + 1 /\ last' = None
        /\ request' = IF request = None THEN None ELSE [request EXCEPT !.fresh = FALSE]
    BY <1>3, WriteShape
  <2>3. RowsHold' BY <1>0, <2>1, ReferencesKept DEF RowsHold, Kept
  <2>4. LastHolds' BY <2>2 DEF LastHolds
  <2>5. RequestHolds'
    <3>1. ASSUME NEW r, request' = r, r # None PROVE Asked(r)'
      <4>1. PICK q : request = q OBVIOUS
      <4>2. q # None /\ r = [q EXCEPT !.fresh = FALSE] BY <2>2, <3>1, <4>1
      <4>3. Asked(q) BY <1>0, <4>1, <4>2 DEF RequestHolds
      <4>4. QED BY <1>0, <2>1, <4>2, <4>3, AskedWritten
    <3>2. QED BY <3>1 DEF RequestHolds
  <2>6. QED BY <1>0, <2>2, <2>3, <2>4, <2>5 DEF AccessInv
<1>4. CASE Delivered \/ UNCHANGED accessVars
  <2>1. UNCHANGED <<db, request, pushes>> /\ (last' = None \/ last' = last) BY <1>4 DEF Delivered, accessVars
  <2>2. RowsHold' BY <1>0, <2>1, RowsUnwritten
  <2>3. RequestHolds'
    <3>1. ASSUME NEW r, request' = r, r # None PROVE Asked(r)'
      <4>1. Asked(r) BY <1>0, <2>1, <3>1 DEF RequestHolds
      <4>2. QED BY <1>0, <2>1, <4>1, AskedUnwritten
    <3>2. QED BY <3>1 DEF RequestHolds
  <2>4. LastHolds'
    <3>1. ASSUME NEW a, last' = a, a # None PROVE AnswerHolds(a)'
      <4>1. AnswerHolds(a) BY <1>0, <2>1, <3>1 DEF LastHolds
      <4>2. QED BY <2>1, <4>1, AnswerUnwritten
    <3>2. QED BY <3>1 DEF LastHolds
  <2>5. QED BY <1>0, <2>1, <2>2, <2>3, <2>4 DEF AccessInv
<1>5. QED BY <1>1, <1>2, <1>3, <1>4 DEF AccessNext

(***************************************************************************)
(* In every behaviour the rows keep their types and their references       *)
(* within one organisation, a request on its way was asked within the      *)
(* caller's organisation, and the answer out is right about the rows.      *)
(***************************************************************************)
THEOREM AccessInvariant == AccessSpec => []AccessInv
<1>1. AccessInit => AccessInv BY AccessInvInit
<1>2. AccessInv /\ [AccessNext]_accessVars => AccessInv' BY AccessInvKept
<1>3. QED BY <1>1, <1>2, PTL DEF AccessSpec

(* The rows keep their types, and an answer names learners and logins. *)
THEOREM AccessTypes == AccessSpec => []AccessTypeOK
<1>1. AccessInv => AccessTypeOK
  <2> SUFFICES ASSUME AccessInv PROVE AccessTypeOK OBVIOUS
  <2>1. PICK a : last = a OBVIOUS
  <2>2. last # None => AnswerHolds(a) BY <2>1 DEF AccessInv, LastHolds
  <2>3. QED BY <2>1, <2>2 DEF AccessInv, RowsHold, AccessTypeOK, AnswerHolds
<1>2. QED BY <1>1, AccessInvariant, PTL

(***************************************************************************)
(* No content route ever answers with another organisation's content,      *)
(* whatever a push, an import or a suspension commits between the guard's  *)
(* look and the handler's reads, for any rows and any tokens.              *)
(***************************************************************************)
THEOREM ServedContentIsOwn == AccessSpec => []ServedStaysInOrganisation
<1>1. AccessInv => ServedStaysInOrganisation
  <2> SUFFICES ASSUME AccessInv, Answered({"content"}) PROVE
               \A row \in last.content : OwnersOf(row[1], row[2]) = {last.request.user.organisationid}
    BY DEF ServedStaysInOrganisation
  <2>1. PICK a : last = a OBVIOUS
  <2>2. AnswerHolds(a) /\ a.request.kind = "content" BY <2>1 DEF AccessInv, LastHolds, Answered
  <2>3. QED BY <2>1, <2>2 DEF AnswerHolds, RowServed
<1>2. QED BY <1>1, AccessInvariant, PTL

(***************************************************************************)
(* With no write between the guard and the handler, whatever a content     *)
(* route answers with can be opened by its own id: the lists and the       *)
(* guarded routes agree, also on what lies under a level switched off.     *)
(***************************************************************************)
THEOREM ListsAndPathsAgree == AccessSpec => []AnsweredCanBeOpened
<1>1. AccessInv => AnsweredCanBeOpened
  <2> SUFFICES ASSUME AccessInv, Answered({"content"}), last.request.fresh PROVE
               \A row \in last.content : canAccessContent(last.request.user, row[1], row[2])
    BY DEF AnsweredCanBeOpened
  <2>1. PICK a : last = a OBVIOUS
  <2>2. AnswerHolds(a) /\ a.request.kind = "content" BY <2>1 DEF AccessInv, LastHolds, Answered
  <2>3. QED BY <2>1, <2>2 DEF AnswerHolds, RowServed
<1>2. QED BY <1>1, AccessInvariant, PTL

(***************************************************************************)
(* Reports, exports, log-in times and teachers' screens cover learners and *)
(* logins of the scope's organisation and name content of it, or of the    *)
(* curriculum a learner of the scope is recorded under, for any filter.    *)
(***************************************************************************)
THEOREM ReportsKeepToTheirScope == AccessSpec => []ReportsStayInScope
<1>1. AccessInv => ReportsStayInScope
  <2> SUFFICES ASSUME AccessInv, Answered({"report", "export", "logintime", "teacher"}), last.request.scope # Unlimited
               PROVE  /\ \A k \in last.learners :
                            db.schools[db.students[k].schoolid].organisationid = last.request.scope.organisationid
                      /\ \A u \in last.logins :
                            db.schools[db.schoolusers[u].schoolid].organisationid = last.request.scope.organisationid
                      /\ \A row \in last.content :
                            \/ OwnersOf(row[1], row[2]) = {last.request.scope.organisationid}
                            \/ \E k \in learnersInScope(last.request.scope) :
                                   db.students[k].curriculumid \in curriculumIdsOf(row[1], row[2], FALSE)
    BY DEF ReportsStayInScope
  <2>1. PICK a : last = a OBVIOUS
  <2>2. AnswerHolds(a) /\ a.request.kind \in Scoped \cup {"teacher"} /\ a.request.scope # Unlimited
    BY <2>1 DEF AccessInv, LastHolds, Answered, Scoped
  <2>3. QED BY <2>1, <2>2 DEF AnswerHolds, RowReported
<1>2. QED BY <1>1, AccessInvariant, PTL

-----------------------------------------------------------------------------
(* Every total stays below the bound of Scoring's rounding. *)
TotalsBounded == \A l \in Lessons : db.lessons[l].total_points < 4000

LEMMA TotalsStayBounded == AccessSpec => []TotalsBounded
<1>1. AccessInit => TotalsBounded BY WeightAssumption DEF AccessInit, TotalsBounded
<1>2. TotalsBounded /\ AccessInv /\ [AccessNext]_accessVars => TotalsBounded'
  <2> SUFFICES ASSUME TotalsBounded, AccessInv, [AccessNext]_accessVars PROVE TotalsBounded' OBVIOUS
  <2>1. CASE WriteStep
    <3>1. \A l \in Lessons : db'.lessons[l].total_points \in {db.lessons[l].total_points} \cup GivenTotals
      BY <2>1, WritesKeep DEF AccessInv, RowsHold, Kept, LinksStand
    <3>2. \A total \in GivenTotals : total < 4000 BY WeightAssumption DEF GivenTotals
    <3>3. QED BY <3>1, <3>2 DEF TotalsBounded
  <2>2. CASE AskStep \/ ServeStep
    <3>1. db' = db BY <2>2, AskHolds, ServeHolds DEF AccessInv, RowsHold
    <3>2. QED BY <3>1 DEF TotalsBounded
  <2>3. CASE Delivered \/ UNCHANGED accessVars
    BY <2>3 DEF Delivered, accessVars, TotalsBounded
  <2>4. QED BY <2>1, <2>2, <2>3 DEF AccessNext
<1>3. QED BY <1>1, <1>2, AccessInvariant, PTL DEF AccessSpec

(* A full lesson is a completed one, and shown as full from the points and from the stored percentage alike. *)
LEMMA FullLessonIsCompleted ==
    ASSUME NEW points \in Nat, NEW total \in Nat, NEW passing \in Nat, 0 < total, total < 4000, passing <= total
    PROVE  /\ (shownProgress(points, total) >= 10000) <=> points >= total
           /\ (progressPercent(points, total) >= 10000) <=> points >= total
           /\ points >= total => LessonCompleted(points, passing, total)
<1>1. (ToFixed2(points, total) >= 10000) <=> points >= total BY FullIsExact
<1>2. (shownProgress(points, total) >= 10000) <=> points >= total BY <1>1 DEF shownProgress
<1>3. (total * 80 + 99) \div 100 <= total OBVIOUS
<1>4. points >= total => LessonCompleted(points, passing, total)
  BY <1>3 DEF LessonCompleted, lessonPassMark, Unreachable
<1>5. QED BY <1>1, <1>2, <1>4 DEF progressPercent

(* What the four screens ask of a lesson is one question while its row is up to date. *)
Finished(user, l) == \E r \in LessonRows(user, l) : r.completed

LEMMA ScreensAsk ==
    ASSUME db \in Database, TotalsBounded, NEW user, NEW l \in Lessons,
           \A row \in LessonRows(user, l) : UpToDate(row, l)
    PROVE  /\ isLessonComplete(user, l) <=> Finished(user, l)
           /\ LessonTile(user, l).completed <=> Finished(user, l)
           /\ l \in doneLessonIds(user) <=> Finished(user, l)
           /\ (\E r \in LessonRows(user, l) :
                  r.gradeid = db.levels[db.lessons[l].levelid].gradeid
                  /\ LessonCompleted(r.points, db.lessons[l].passing_points, db.lessons[l].total_points))
              <=> Finished(user, l)
<1> DEFINE total == db.lessons[l].total_points
           passing == db.lessons[l].passing_points
<1>1. total \in Nat /\ passing \in Nat /\ total < 4000 BY DEF Database, LessonRow, TotalsBounded
<1>2. ASSUME NEW r \in LessonRows(user, l)
      PROVE  /\ r.points \in Nat /\ 0 < total /\ passing <= total
             /\ r.progress = progressPercent(r.points, total) /\ r.completed = LessonCompleted(r.points, passing, total)
             /\ r.gradeid = db.levels[db.lessons[l].levelid].gradeid
  <2>1. r \in LessonProgressRow
    <3>1. PICK k \in Learners : r = db.studentlessonsprogress[<<k, l>>] /\ r # None BY DEF LessonRows
    <3>2. db.studentlessonsprogress \in [Learners \X Lessons -> LessonProgressRow \cup {None}] BY DEF Database
    <3>3. QED BY <3>1, <3>2
  <2>2. r.points \in Nat BY <2>1 DEF LessonProgressRow
  <2>3. QED BY <2>2 DEF UpToDate
<1> HIDE DEF total, passing
<1>3. ASSUME NEW r \in LessonRows(user, l)
      PROVE  /\ shownProgress(r.points, total) >= 10000 => r.completed
             /\ r.progress >= 10000 => r.completed
  BY <1>1, <1>2, FullLessonIsCompleted
<1>4. isLessonComplete(user, l) <=> Finished(user, l) BY <1>3 DEF isLessonComplete, Finished, total
<1>5. LessonTile(user, l).completed <=> Finished(user, l) BY DEF LessonTile, Finished
<1>6. l \in doneLessonIds(user) <=> Finished(user, l) BY <1>3 DEF doneLessonIds, Finished
<1>7. (\E r \in LessonRows(user, l) :
          r.gradeid = db.levels[db.lessons[l].levelid].gradeid /\ LessonCompleted(r.points, passing, total))
      <=> Finished(user, l)
  BY <1>2 DEF Finished
<1>8. QED BY <1>4, <1>5, <1>6, <1>7 DEF passing, total

(* The sets the four screens count are one set. *)
LEMMA LevelsCounted ==
    ASSUME db \in Database, TotalsBounded, NEW user, NEW v,
           \A l \in LessonsOf(v) : \A row \in LessonRows(user, l) : UpToDate(row, l)
    PROVE  LET finished == Cardinality({l \in LessonsOf(v) : Finished(user, l)})
           IN  /\ LibraryLevel(user, v).number_completed_lessons = finished
               /\ SummaryLevel(user, v).lessonsCompleted = finished
               /\ Cardinality({l \in LessonsOf(v) : LessonTile(user, l).completed}) = finished
               /\ LevelListing(user, db.levels[v].gradeid, v).number_completed_lessons = finished
<1> DEFINE fs == {l \in LessonsOf(v) : Finished(user, l)}
<1>1. \A l \in LessonsOf(v) : l \in Lessons /\ db.lessons[l].levelid = v BY Tables DEF LessonsOf, FindAll
<1>2. {l \in LessonsOf(v) : isLessonComplete(user, l)} = fs BY <1>1, ScreensAsk
<1>3. LessonsOf(v) \cap doneLessonIds(user) = fs BY <1>1, ScreensAsk
<1>4. {l \in LessonsOf(v) : LessonTile(user, l).completed} = fs BY <1>1, ScreensAsk
<1>5. {l \in LessonsOf(v) : \E r \in LessonRows(user, l) :
          r.gradeid = db.levels[v].gradeid
          /\ LessonCompleted(r.points, db.lessons[l].passing_points, db.lessons[l].total_points)} = fs
  <2>1. ASSUME NEW l \in LessonsOf(v)
        PROVE  (\E r \in LessonRows(user, l) :
                   r.gradeid = db.levels[v].gradeid
                   /\ LessonCompleted(r.points, db.lessons[l].passing_points, db.lessons[l].total_points))
               <=> Finished(user, l)
    BY <1>1, ScreensAsk
  <2>2. QED BY <2>1
<1>6. QED BY <1>2, <1>3, <1>4, <1>5 DEF LibraryLevel, SummaryLevel, LevelListing

(* The level to go on with has a lesson left. *)
LEMMA CurrentLevelUnfinished ==
    ASSUME db \in Database, NEW user, NEW c \in DOMAIN getprogresssummary(user),
           NEW v \in getprogresssummary(user)[c].currentLevel
    PROVE  SummaryLevel(user, v).lessonsCompleted < LibraryLevel(user, v).number_lessons
<1> DEFINE done == LessonsOf(v) \cap doneLessonIds(user)
<1>1. getprogresssummary(user)[c] = SummaryCurriculum(user, c) BY DEF getprogresssummary
<1>2. LessonsOf(v) # {} /\ ~SummaryLevel(user, v).completed BY <1>1 DEF SummaryCurriculum
<1>3. done # LessonsOf(v) /\ done \subseteq LessonsOf(v) BY <1>2 DEF SummaryLevel
<1>4. IsFiniteSet(LessonsOf(v))
  <2>1. LessonsOf(v) \subseteq Lessons BY Tables DEF LessonsOf, FindAll
  <2>2. QED BY <2>1, AccessAssumption, FS_Subset
<1>5. Cardinality(done) < Cardinality(LessonsOf(v)) BY <1>3, <1>4, FS_Subset, FS_CardinalityType
<1>6. QED BY <1>5 DEF SummaryLevel, LibraryLevel

(***************************************************************************)
(* The four screens count the same finished lessons of a level whose rows  *)
(* are up to date, and the level to go on with has a lesson left, for any  *)
(* lessons, rows, weights and order of writes.                             *)
(***************************************************************************)
THEOREM ScreensAgree == AccessSpec => []CompletionViewsAgree
<1>1. AccessInv /\ TotalsBounded => CompletionViewsAgree
  <2> SUFFICES ASSUME AccessInv, TotalsBounded, NEW user \in Callers, NEW v,
                      \A l \in LessonsOf(v) : \A row \in LessonRows(user, l) : UpToDate(row, l)
               PROVE  /\ SummaryLevel(user, v).lessonsCompleted = LibraryLevel(user, v).number_completed_lessons
                      /\ Cardinality({l \in LessonsOf(v) : LessonTile(user, l).completed})
                             = LibraryLevel(user, v).number_completed_lessons
                      /\ LevelListing(user, db.levels[v].gradeid, v).number_completed_lessons
                             = LibraryLevel(user, v).number_completed_lessons
                      /\ \A c \in DOMAIN getprogresssummary(user) :
                             v \in getprogresssummary(user)[c].currentLevel =>
                                 LibraryLevel(user, v).number_completed_lessons < LibraryLevel(user, v).number_lessons
    BY DEF CompletionViewsAgree
  <2>1. db \in Database BY DEF AccessInv, RowsHold
  <2>2. QED BY <2>1, LevelsCounted, CurrentLevelUnfinished
<1>2. QED BY <1>1, AccessInvariant, TotalsStayBounded, PTL

(* A learner has one best of a practice, a number. *)
LEMMA PracticeShown ==
    ASSUME db \in Database, NEW user, NEW p \in Practices, NEW marks \in BestOf(user, p)
    PROVE  (buildpracticesprogress(user, p) = "done")
               <=> practicePassResult(marks, Cardinality(getpracticequestions({p}))).ispass
<1> DEFINE qs == FindAll("lessonpracticequestions", LAMBDA q : q.lessonpracticeid \in {p} /\ q.status)
           n == Cardinality(getpracticequestions({p}))
<1>1. BestOf(user, p) = {marks} /\ marks \in Nat
  <2>1. user.studentid \in Learners /\ marks = db.studentprogress[<<user.studentid, p>>] /\ marks # None BY DEF BestOf
  <2>2. marks \in Nat \cup {None} BY <2>1 DEF Database, References
  <2>3. QED BY <2>1, <2>2 DEF BestOf
<1>2. n \in Nat
  <2>1. qs \subseteq PracticeQuestions BY Tables DEF FindAll
  <2>2. IsFiniteSet(qs) /\ IsFiniteSet({"lessonpracticequestion"}) BY <2>1, AccessAssumption, FS_Subset, FS_Singleton
  <2>3. IsFiniteSet({"lessonpracticequestion"} \X qs) BY <2>2, FS_Product
  <2>4. getpracticequestions({p}) = {"lessonpracticequestion"} \X qs BY DEF getpracticequestions, Rows
  <2>5. QED BY <2>3, <2>4, FS_CardinalityType
<1> HIDE DEF n
<1>3. ASSUME n > 0 PROVE CapAt100(ToFixed2(marks, n)) \in Int BY <1>1, <1>2, <1>3 DEF ToFixed2, CapAt100
<1>4. CASE n = 0 BY <1>1, <1>4 DEF buildpracticesprogress, practicePassResult, n
<1>5. CASE n > 0
  <2> DEFINE pct == CapAt100(ToFixed2(marks, n))
  <2>1. pct \in Int BY <1>3, <1>5
  <2> HIDE DEF pct
  <2>2. practicePassResult(marks, n).ispass <=> pct >= 8000
    <3> DEFINE passes == pct >= COMPLETED_PERCENTAGE
    <3>1. practicePassResult(marks, n) = [marks |-> marks, percentage |-> pct, ispass |-> passes]
      BY <1>2, <1>5 DEF practicePassResult, pct
    <3>2. passes <=> pct >= 8000 BY DEF COMPLETED_PERCENTAGE
    <3> HIDE DEF passes
    <3>3. practicePassResult(marks, n).ispass = passes BY <3>1
    <3>4. QED BY <3>2, <3>3
  <2>3. buildpracticesprogress(user, p) = IF pct < 8000 THEN "inProgress" ELSE "done"
    BY <1>1, <1>2, <1>5 DEF buildpracticesprogress, COMPLETED_PERCENTAGE, pct, n
  <2>4. QED BY <2>1, <2>2, <2>3 DEF n
<1>6. QED BY <1>2, <1>4, <1>5

(***************************************************************************)
(* The activity route and the submission route agree on a practice in      *)
(* every state, whatever questions an import has left active.              *)
(***************************************************************************)
THEOREM PracticesShownAsTheyPass == AccessSpec => []PracticeShownAsItPasses
<1>1. AccessInv => PracticeShownAsItPasses
  <2> SUFFICES ASSUME AccessInv PROVE PracticeShownAsItPasses OBVIOUS
  <2>1. db \in Database BY DEF AccessInv, RowsHold
  <2>2. ASSUME NEW user \in Callers, NEW p \in Practices, NEW marks \in BestOf(user, p)
        PROVE  (buildpracticesprogress(user, p) = "done")
                   <=> practicePassResult(marks, Cardinality(getpracticequestions({p}))).ispass
    BY <2>1, <2>2, PracticeShown
  <2>3. QED BY <2>2, Zenon DEF PracticeShownAsItPasses
<1>2. QED BY <1>1, AccessInvariant, PTL

=============================================================================
