-------------------------- MODULE GradeSubmission --------------------------
(***************************************************************************)
(* The server-grading protocol: one result submitted for one practice,     *)
(* quiz, level quiz or baseline, from the items the client sends to the    *)
(* verdict the row is stored with (result.controller.ts, result-items.ts,  *)
(* gradesubmission.ts, quizscore.ts, practicescore.ts).                    *)
(*                                                                         *)
(* The handler asks the database three separate questions about the same   *)
(* content: which rows the container has (confineToContainer), which of    *)
(* them are active, for grading, and which are active, for scoring.  No    *)
(* transaction spans them, so a content import can commit between any two. *)
(***************************************************************************)
EXTENDS Scoring, Sequences, FiniteSets

CONSTANTS
    Questions,   \* question-row ids that may exist in the container
    Foreign,     \* ids of other containers, or of none
    MaxItems,    \* bound: items in a submission
    MaxImports   \* bound: content imports during the request

ASSUME GradeAssumption ==
    /\ Questions \cap Foreign = {} /\ IsFiniteSet(Questions)
    /\ MaxItems \in Nat
    /\ MaxImports \in Nat

(***************************************************************************)
(* What the grading library makes of an item's `answer` (graded against    *)
(* its question): none was sent; it is malformed or of the wrong shape; it *)
(* is right; it is wrong; or it is well formed and cannot be graded.       *)
(***************************************************************************)
Answers == {"absent", "malformed", "right", "wrong", "unsupported"}

(* A submitted item: the question it names, the client's own claim, the answer. *)
Item == [q : Questions \cup Foreign, claim : BOOLEAN, answer : Answers]

VARIABLES
    kind,      \* "practice", or "quiz" for lesson quiz, level quiz and baseline
    mode,      \* GRADING_MODE: "shadow" or "enforce"
    require,   \* REQUIRE_GRADED_ANSWERS
    own,       \* the container's question rows, whatever their status
    active,    \* the rows among them that are switched on and renderable
    phase,     \* the await the handler is at
    items,     \* the submission; the confined items from phase "confined" on
    gradedOn,  \* the active set the grading query returned
    result,    \* the verdict, from phase "scored" on
    imports    \* content imports so far

content == <<own, active, imports>>
config  == <<kind, mode, require>>
vars    == <<kind, mode, require, own, active, phase, items, gradedOn, result, imports>>

NoResult == [ispass |-> FALSE, verified |-> FALSE, marks |-> 0, percentage |-> 0, stored |-> <<>>]

-----------------------------------------------------------------------------
(* The category of an item; a question that is not in the map cannot be graded. *)
classify(item, known) ==
    CASE item.q \notin known                    -> "noinfo"
      [] item.answer \in {"right", "wrong"}     -> "gradable"
      [] item.answer = "malformed"              -> "badanswer"
      [] OTHER                                  -> "noinfo"

(* Shadow: always the claim.  Enforce: the server's verdict; malformed is wrong; else the claim. *)
effectiveIscorrect(m, item, category) ==
    CASE m = "shadow"           -> item.claim
      [] category = "gradable"  -> item.answer = "right"
      [] category = "badanswer" -> FALSE
      [] OTHER                  -> item.claim

servergrade(item, known) ==
    CASE item.q \notin known                       -> "null"
      [] classify(item, known) = "gradable"        -> IF item.answer = "right" THEN "correct" ELSE "incorrect"
      [] OTHER                                     -> "ungradable"

(* The stored form of an item: its own verdict beside the claim and the server's grade. *)
answerrow(m, item, known) ==
    [q |-> item.q, claim |-> item.claim, answer |-> item.answer,
     iscorrect       |-> effectiveIscorrect(m, item, classify(item, known)),
     servergrade     |-> servergrade(item, known)]

(* The positions of the first item of each question, in submission order. *)
FirstItems(s) == {i \in DOMAIN s : \A j \in 1..(i-1) : s[j].q # s[i].q}

(* Every item is handed to the scorer, also when the server grades. *)
scoringItems_all(m, s) == DOMAIN s

(* The items handed to the scorer: the first per question in enforce, all of them in shadow. *)
scoringItems(m, s) == IF m = "enforce" THEN FirstItems(s) ELSE DOMAIN s

(* Any graded item will do, not only the one that counts. *)
verified_any(m, s, known) ==
    m = "enforce" /\ \A q \in known : \E i \in DOMAIN s : s[i].q = q /\ classify(s[i], known) = "gradable"

(* Every active question's counted item got a real grade (vacuously so for an empty activity). *)
verified(m, s, known) ==
    m = "enforce" /\ \A q \in known : \E i \in FirstItems(s) : s[i].q = q /\ classify(s[i], known) = "gradable"

(* The distinct active questions with an item the scorer is given that counts as correct. *)
CorrectQuestions(m, s, known, activeids) ==
    {q \in activeids : \E i \in scoringItems(m, s) : s[i].q = q /\ answerrow(m, s[i], known).iscorrect}

(* scorelessonquiz, scorelevelquiz, scorebaseline, scorepractice. *)
score(k, m, s, known, activeids) ==
    LET marks == Cardinality(CorrectQuestions(m, s, known, activeids))
        n     == Cardinality(activeids)
    IN  IF k = "practice" THEN practicePassResult(marks, n) ELSE quizPassResult(marks, n)

(* The gate forgotten. *)
GatedPass_open(k, m, req, isverified, ispass) == ispass

(* REQUIRE_GRADED_ANSWERS, for everything but practice, and only where the server grades. *)
GatedPass(k, m, req, isverified, ispass) ==
    IF k # "practice" /\ m = "enforce" /\ req /\ ~isverified THEN FALSE ELSE ispass

(* The verdict of submission s graded on `known` and scored on `activeids`. *)
Verdict(k, m, req, s, known, activeids) ==
    LET sc == score(k, m, s, known, activeids)
        v  == verified(m, s, known)
    IN  [ispass |-> GatedPass(k, m, req, v, sc.ispass), verified |-> v,
         marks |-> sc.marks, percentage |-> sc.percentage,
         stored |-> [i \in DOMAIN s |-> answerrow(m, s[i], known)]]

-----------------------------------------------------------------------------
Init ==
    /\ kind \in {"practice", "quiz"}
    /\ mode \in {"shadow", "enforce"}
    /\ require \in BOOLEAN
    /\ own = Questions
    /\ active \in SUBSET Questions
    /\ phase = "compose"
    /\ items = <<>>
    /\ gradedOn = {}
    /\ result = NoResult
    /\ imports = 0

(* The client adds an item to the result it is about to send. *)
AddItem ==
    /\ phase = "compose"
    /\ Len(items) < MaxItems
    /\ \E it \in Item : items' = Append(items, it)
    /\ UNCHANGED <<phase, gradedOn, result>>
    /\ UNCHANGED content /\ UNCHANGED config

(* The items of s that name a row, in their order. *)
keptItems(s, ids) ==
    LET kept[n \in 0..Len(s)] ==
            IF n = 0 THEN <<>> ELSE IF s[n].q \in ids THEN Append(kept[n-1], s[n]) ELSE kept[n-1]
    IN  kept[Len(s)]

(* The request arrives: only items that name a row of the container are kept. *)
confineToContainer ==
    /\ phase = "compose"
    /\ items' = keptItems(items, own)
    /\ phase' = "confined"
    /\ UNCHANGED <<gradedOn, result>>
    /\ UNCHANGED content /\ UNCHANGED config

(* get*gradablequestions: the first reading of the active questions. *)
ReadGradable ==
    /\ phase = "confined"
    /\ gradedOn' = active
    /\ phase' = "graded"
    /\ UNCHANGED <<items, result>>
    /\ UNCHANGED content /\ UNCHANGED config

(* score*: the second reading, and the verdict the row is stored with. *)
ScoreAndStore ==
    /\ phase = "graded"
    /\ result' = Verdict(kind, mode, require, items, gradedOn, active)
    /\ phase' = "scored"
    /\ UNCHANGED <<items, gradedOn>>
    /\ UNCHANGED content /\ UNCHANGED config

(* A content import commits: the container's question rows are replaced. *)
ImportContent ==
    /\ phase \in {"confined", "graded"}
    /\ imports < MaxImports
    /\ \E o \in SUBSET Questions : own' = o /\ active' \in SUBSET o
    /\ imports' = imports + 1
    /\ UNCHANGED <<phase, items, gradedOn, result>>
    /\ UNCHANGED config

Next == AddItem \/ confineToContainer \/ ReadGradable \/ ScoreAndStore \/ ImportContent

Spec == Init /\ [][Next]_vars

-----------------------------------------------------------------------------
(* Types; active questions are among the container's own, whatever an import does meanwhile. *)
TypeOK ==
    /\ kind \in {"practice", "quiz"} /\ mode \in {"shadow", "enforce"} /\ require \in BOOLEAN
    /\ own \subseteq Questions /\ active \subseteq own /\ gradedOn \subseteq Questions
    /\ phase \in {"compose", "confined", "graded", "scored"}
    /\ items \in Seq(Item) /\ Len(items) <= MaxItems
    /\ result.marks \in 0..Cardinality(Questions) /\ result.percentage \in 0..10000
    /\ imports \in 0..MaxImports

(* The question's counted item was graded right by the server. *)
EarnedOn(q) == \E i \in FirstItems(items) : items[i].q = q /\ items[i].answer = "right"

(***************************************************************************)
(* In enforce mode an extra item for a question already answered, whatever *)
(* it claims and whatever answer it carries, changes neither the marks nor *)
(* the pass nor `verified` (the duplicate-item rule of gradesubmission.ts).*)
(***************************************************************************)
DuplicateItemsAreInert ==
    [][AddItem /\ mode = "enforce" /\ (\E i \in DOMAIN items : items[i].q = items'[Len(items')].q)
        => LET before == Verdict(kind, mode, require, items, active, active)
               after  == Verdict(kind, mode, require, items', active, active)
           IN  /\ after.marks = before.marks
               /\ after.ispass = before.ispass
               /\ after.verified = before.verified]_vars

(***************************************************************************)
(* A verified result scored on the content it was graded on counts exactly *)
(* the questions the server itself found right: no claim of the client's   *)
(* contributes to it.                                                      *)
(***************************************************************************)
VerifiedMarksAreEarned ==
    phase = "scored" /\ result.verified /\ gradedOn = active
        => result.marks = Cardinality({q \in active : EarnedOn(q)})

(***************************************************************************)
(* With enforce and REQUIRE_GRADED_ANSWERS a quiz, level quiz or baseline  *)
(* is passed only with four fifths of its active questions right by the    *)
(* server's own grading, however the client claims, omits, repeats or      *)
(* malforms items.                                                         *)
(***************************************************************************)
RequiredPassIsEarned ==
    phase = "scored" /\ mode = "enforce" /\ require /\ kind = "quiz" /\ gradedOn = active /\ result.ispass
        => /\ active # {}
           /\ 5 * Cardinality({q \in active : EarnedOn(q)}) >= 4 * Cardinality(active)

-----------------------------------------------------------------------------
=============================================================================
