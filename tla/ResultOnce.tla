----------------------------- MODULE ResultOnce -----------------------------
(***************************************************************************)
(* What the result endpoints promise an at-least-once client: however      *)
(* often a result is sent, it is saved once, its points and its stars are  *)
(* added at most once, and it is acknowledged only when it, or a pass that *)
(* makes it pointless, is saved.                                           *)
(***************************************************************************)
EXTENDS Naturals

CONSTANTS
    Req,         \* requests, retries included
    Keys,        \* what identifies a result
    KeyOf,       \* request -> key
    ActivityOf,  \* request -> activity
    Tables       \* where stars are added up

VARIABLES
    saved,       \* keys with a stored result
    credits,     \* key -> how often its points were added
    stars,       \* key, table -> how often its stars were added
    answered     \* requests that were acknowledged

vars == <<saved, credits, stars, answered>>

Init ==
    /\ saved = {}
    /\ credits = [k \in Keys |-> 0]
    /\ stars = [k \in Keys |-> [t \in Tables |-> 0]]
    /\ answered = {}

(* The result is stored, and in the same step its points are added or never will be. *)
Save(k) ==
    /\ k \notin saved
    /\ saved' = saved \cup {k}
    /\ credits' = [credits EXCEPT ![k] = 1] \/ credits' = credits
    /\ UNCHANGED <<stars, answered>>

(* The stars of a stored result are added to one of the totals. *)
Star(k, t) ==
    /\ k \in saved
    /\ stars[k][t] = 0
    /\ stars' = [stars EXCEPT ![k][t] = 1]
    /\ UNCHANGED <<saved, credits, answered>>

(* A request is acknowledged: its own result, or one of the same activity, is stored. *)
Answer(r) ==
    /\ r \notin answered
    /\ \E s \in Req : ActivityOf[s] = ActivityOf[r] /\ KeyOf[s] \in saved
    /\ answered' = answered \cup {r}
    /\ UNCHANGED <<saved, credits, stars>>

Next ==
    \/ \E k \in Keys : Save(k)
    \/ \E k \in Keys, t \in Tables : Star(k, t)
    \/ \E r \in Req : Answer(r)

Spec == Init /\ [][Next]_vars
=============================================================================
