------------------------------ MODULE AppUsage ------------------------------
(***************************************************************************)
(* The time a learner spends in the app (updatestudentusage): each report  *)
(* looks for the usage row of its days and adds its seconds to it, or      *)
(* makes one, in no transaction and with no unique key.                    *)
(***************************************************************************)
EXTENDS Naturals, FiniteSets, Functions

CONSTANTS
    Posts,      \* usage reports
    Span,       \* the start and end each may give: reports can be late, or have their clock wrong
    Day,        \* seconds of a day
    Tomorrow    \* where the server's day ends

ASSUME UsageAssumption ==
    /\ IsFiniteSet(Posts)
    /\ Day \in Nat \ {0} /\ Tomorrow \in Nat
    /\ \A s \in Span : s.start \in Nat /\ s.end \in Nat

VARIABLES
    at,         \* each report: "idle", "found" or "done"
    span,       \* its start and end
    found,      \* the row it found, named by the report that made it, and the time in it
    usage,      \* the studentappusages rows, named by the report that made them
    crossed     \* history: two reports were in progress at once

uvars == <<at, span, found, usage, crossed>>

NoUsage == [spent |-> 0, created |-> 0, absent |-> TRUE]
UsageRows == {p \in Posts : usage[p] # NoUsage}

UInit ==
    /\ at = [p \in Posts |-> "idle"] /\ span = [p \in Posts |-> [start |-> 0, end |-> 0]]
    /\ found = [p \in Posts |-> <<>>] /\ usage = [p \in Posts |-> NoUsage] /\ crossed = FALSE

startOfDay(t) == (t \div Day) * Day

(* A difference below zero counts as none, one above a day as a day. *)
seconds(s) == IF s.end < s.start THEN 0 ELSE IF s.end - s.start > Day THEN Day ELSE s.end - s.start

(* findOne: any row created from the day of the start to the end of today. *)
FindUsage(p) ==
    \E s \in Span :
    LET rows == {q \in UsageRows : startOfDay(s.start) <= usage[q].created /\ usage[q].created <= Tomorrow}
    IN  /\ at[p] = "idle"
        /\ span' = [span EXCEPT ![p] = s]
        /\ \/ rows = {} /\ found' = found
           \/ \E q \in rows : found' = [found EXCEPT ![p] = <<q, usage[q].spent>>]
        /\ at' = [at EXCEPT ![p] = "found"]
        /\ crossed' = (crossed \/ \E q \in Posts : at[q] = "found")
        /\ UNCHANGED usage

(* The difference is taken as it is given. *)
SaveUsage_unchecked(p) ==
    /\ at[p] = "found"
    /\ usage' = [usage EXCEPT ![p] = [spent |-> span[p].end - span[p].start, created |-> span[p].end]]
    /\ at' = [at EXCEPT ![p] = "done"]
    /\ UNCHANGED <<span, found, crossed>>

(* The row is created, or saved with the time that was read and the seconds. *)
SaveUsage(p) ==
    /\ at[p] = "found"
    /\ usage' = IF found[p] = <<>>
                THEN [usage EXCEPT ![p] = [spent |-> seconds(span[p]), created |-> span[p].end]]
                ELSE [usage EXCEPT ![found[p][1]].spent = found[p][2] + seconds(span[p])]
    /\ at' = [at EXCEPT ![p] = "done"]
    /\ UNCHANGED <<span, found, crossed>>

UNext == \E p \in Posts : FindUsage(p) \/ SaveUsage(p)

(***************************************************************************)
(* Time is never invented: the rows together hold at most the seconds of   *)
(* the reports that were saved, however these overlap, arrive late or name *)
(* impossible times; and exactly that as long as no two overlap.           *)
(***************************************************************************)
UsageNeverInvented ==
    LET held  == SumFunctionOnSet([p \in Posts |-> usage[p].spent], UsageRows)
        given == SumFunctionOnSet([p \in Posts |-> seconds(span[p])], {p \in Posts : at[p] = "done"})
    IN  held <= given /\ (~crossed => held = given)

=============================================================================
