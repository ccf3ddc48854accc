----------------------------- MODULE MCProgress -----------------------------
(***************************************************************************)
(* Small curricula for TLC.  Strings name the activities: "n" a learning   *)
(* item, "p" and "r" practices, "q" a quiz, of lessons "L" and "M" in level*)
(* "V".                                                                    *)
(***************************************************************************)
EXTENDS Recalculation

(* L has a quiz, M a learning item, and their level a quiz: two attempts at each. *)
FullLessonOf == [a \in {"n", "q"} |-> IF a = "n" THEN "M" ELSE "L"]
FullLevelOf == [l \in {"L", "M"} |-> "V"]
FullMax == [a \in {"n", "q", "V"} |-> IF a = "q" THEN 2 ELSE 1]
FullStart == [a \in {"q", "V"} |-> 2]
SlackTotals == [l \in {"L", "M"} |-> IF l = "L" THEN 2 ELSE 1]

(* L's two practices are worth more than L's total; M has a quiz. *)
TightLessonOf == [a \in {"p", "r", "q"} |-> IF a = "q" THEN "M" ELSE "L"]
TightMax == [a \in {"p", "q", "r", "V"} |-> IF a = "V" THEN 0 ELSE 2]
TightStart == [a \in {"p", "q", "r", "V"} |-> CASE a = "q" -> 3 [] a = "V" -> 0 [] OTHER -> 1]
TightTotals == [l \in {"L", "M"} |-> IF l = "L" THEN 3 ELSE 2]

NoPassing(ls) == [l \in ls |-> 0]
FullPassing == NoPassing({"L", "M"})
Level10 == [v \in {"V"} |-> 10]
Fail == 5000
Pass == 10000
MCPercentages == {Fail, Pass}
=============================================================================
