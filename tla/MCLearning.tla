----------------------------- MODULE MCLearning -----------------------------
(***************************************************************************)
(* What an open lesson posts: learning reports and usage reports.  The two *)
(* share no table, so each is walked with the other at rest.               *)
(***************************************************************************)
EXTENDS Learning, AppUsage

MCSpan == {[start |-> s, end |-> e] : s \in {0, 3, 4}, e \in {2, 5, 8}}

vars == <<lvars, uvars>>

Init == LInit /\ UInit

Reporting == \E r \in Reports : pc[r] # "idle"
Posting   == \E p \in Posts : at[p] # "idle"

Next ==
    \/ ~Posting /\ LNext /\ UNCHANGED uvars
    \/ ~Reporting /\ UNext /\ UNCHANGED lvars

Spec == Init /\ [][Next]_vars /\ LFairness

=============================================================================
