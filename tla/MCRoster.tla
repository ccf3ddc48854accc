------------------------------ MODULE MCRoster ------------------------------
(***************************************************************************)
(* Two schools of central and one made here; the first of central's has a  *)
(* second name and a second organisation.  Two logins of central and the   *)
(* administrator made here, all under one user name.                       *)
(***************************************************************************)
EXTENDS Provisioning, TLC

MCCentral == "s1" :> {"A", "B"} @@ "s2" :> {"B"}
MCNamesOf == "s1" :> {"north", "nord"} @@ "s2" :> {"south"}
MCStatusOf == "A" :> {"active", "suspended"} @@ "B" :> {"active"}
MCNames   == {"north", "NORTH", "north*", "nord", "south", "local"}
MCNorm    == [n \in MCNames |-> IF n = "NORTH" THEN "north" ELSE n]
MCCollate == [n \in MCNames |-> IF n \in {"NORTH", "north*"} THEN "north" ELSE n]

MCUsername == [l \in {"u1", "u2", "v"} |-> "anna"]

Ref(id, name) == [id |-> id, name |-> name]
BaseRef == Ref("s1", "NORTH")
MCRefs  == {BaseRef, Ref("s1", None), Ref("s1", "north*"), Ref(None, "north*"), Ref(None, "north"), Ref("s2", "local"), Ref(None, "local"), Ref("s1", "south"), Ref("s2", "south")}

Base == [login |-> "u1", learner |-> "k1", ref |-> BaseRef, own |-> BaseRef, role |-> "student", off |-> FALSE,
         class |-> None, curriculum |-> "single", progressKnown |-> TRUE]

MCEntries ==
    {[Base EXCEPT !.ref = r, !.own = r] : r \in MCRefs}
    \cup {[Base EXCEPT !.own = r] : r \in MCRefs}
    \cup {[Base EXCEPT !.login = "u2"], [Base EXCEPT !.class = "c1"], [Base EXCEPT !.role = "teacher"], [Base EXCEPT !.off = TRUE],
          [Base EXCEPT !.curriculum = "none"], [Base EXCEPT !.progressKnown = FALSE]}

Command(name, class, content, replace) ==
    [school |-> name, class |-> class, content |-> content, replace |-> replace, reset |-> FALSE]
MCOptions ==
    {Command(n, FALSE, content, replace) : n \in {"NORTH", "local"}, content \in BOOLEAN, replace \in BOOLEAN}
    \cup {Command("local", TRUE, content, TRUE) : content \in BOOLEAN}
    \cup {[Command("local", FALSE, FALSE, replace) EXCEPT !.reset = TRUE] : replace \in BOOLEAN}

=============================================================================
