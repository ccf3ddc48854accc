------------------------------ MODULE MCAccess ------------------------------
(***************************************************************************)
(* Two organisations on one server: A with two schools, two curricula and  *)
(* every kind of content, B with one of each.  A's rows change, B's stay   *)
(* for A's callers to reach for.  The walk over the scoring arithmetic,    *)
(* which the screens' numbers are made of, is checked beside it.           *)
(***************************************************************************)
EXTENDS Access, ScoringWalk, TLC

MCOrgs == {"A", "B"}
MCSchools == {"sA", "sA2", "sB"}
MCCurricula == {"c1", "c2", "c3"}
MCGrades == {"g1", "g2", "g3"}
MCLevels == {"v1", "v2", "v3"}
MCLessons == {"l1", "l3"}
MCDocuments == {"dA", "dB"}
MCLearners == {"kA", "tA", "kB"}
MCLogins == {"uA", "utA", "uB"}
MCClasses == {"classA", "classA2", "classB"}
MCLearnings == {"n1", "n3"}
MCPlans == {"p1", "p3"}
MCPractices == {"r1", "r3"}
MCQuizzes == {"q1", "q3"}
MCBaselines == {"b1", "b3"}
MCLinks == {"k1"}
MCPracticeQuestions == {"rq1", "rq3"}
MCQuizQuestions == {"qq1", "qq3"}
MCLevelQuestions == {"vq1", "vq3"}
MCBaselineQuestions == {"bq1", "bq3"}

(* x for A's row, y for B's. *)
Two(names, x, y) == [n \in names |-> IF n \in {"n1", "p1", "r1", "q1", "b1", "rq1", "qq1", "vq1", "bq1", "dA"}
                                     THEN x ELSE y]

Curriculum(org) == [organisationid |-> org, status |-> TRUE, isdeleted |-> FALSE]
Grade(c, n) == [curriculumid |-> c, status |-> TRUE, isdeleted |-> FALSE, gradeorder |-> n]
Level(g) == [gradeid |-> g, status |-> TRUE, isdeleted |-> FALSE, levelorder |-> 1, points |-> 5]
Lesson(v) == [levelid |-> v, status |-> TRUE, isdeleted |-> FALSE, total_points |-> 5, passing_points |-> 0]
Of(column, x) == column :> x @@ ("status" :> TRUE)
School(org, list) == [organisationid |-> org, isdeleted |-> FALSE, curriculums |-> list]
Student(u, s, c, teacher, cur, list) ==
    [schooluserid |-> u, schoolid |-> s, standard |-> c, is_teacher_acc |-> teacher,
     curriculumid |-> cur, curriculumids |-> list]
Baseline(c, s) == [curriculumid |-> c, status |-> TRUE, isdeleted |-> FALSE, schoolid |-> {s}]
Item(l, d) == [lessonid |-> l, status |-> TRUE, documentid |-> d]

MCStart ==
    [organisations |-> [o \in MCOrgs |-> TRUE],
     schools |-> "sA" :> School("A", {"c1"}) @@ "sA2" :> School("A", {"c2"}) @@ "sB" :> School("B", {"c3"}),
     curriculums |-> [c \in MCCurricula |-> Curriculum(IF c = "c3" THEN "B" ELSE "A")],
     grades |-> "g1" :> Grade("c1", 1) @@ "g2" :> Grade("c2", 2) @@ "g3" :> Grade("c3", 1),
     levels |-> "v1" :> Level("g1") @@ "v2" :> Level("g2") @@ "v3" :> Level("g3"),
     lessons |-> "l1" :> Lesson("v1") @@ "l3" :> Lesson("v3"),
     lessonlearnings |-> Two(MCLearnings, Item("l1", "dA"), Item("l3", "dB")),
     lessonlearningdocuments |-> [k \in MCLinks |-> [lessonlearningid |-> "n1", documentid |-> "dB"]],
     lessonplans |-> Two(MCPlans, Item("l1", "dA"), Item("l3", "dB")),
     lessonpractices |-> Two(MCPractices, Of("lessonid", "l1"), Of("lessonid", "l3")),
     lessonquizzes |-> Two(MCQuizzes, Of("lessonid", "l1"), Of("lessonid", "l3")),
     curriculumbaseline |-> Two(MCBaselines, Baseline("c1", "sA"), Baseline("c3", "sB")),
     documents |-> Two(MCDocuments, [organisationid |-> "A"], [organisationid |-> "B"]),
     lessonpracticequestions |-> Two(MCPracticeQuestions, Of("lessonpracticeid", "r1"), Of("lessonpracticeid", "r3")),
     lessonquizquestions |-> Two(MCQuizQuestions, Of("lessonquizid", "q1"), Of("lessonquizid", "q3")),
     levelquizquestions |-> Two(MCLevelQuestions, Of("levelid", "v1"), Of("levelid", "v3")),
     baselinequestion |-> Two(MCBaselineQuestions, Of("curriculumbaselineid", "b1"), Of("curriculumbaselineid", "b3")),
     standards |-> "classA" :> [schoolid |-> "sA"] @@ "classA2" :> [schoolid |-> "sA2"]
                   @@ "classB" :> [schoolid |-> "sB"],
     students |-> "kA" :> Student("uA", "sA", "classA", FALSE, "c1", {"c1"})
                  @@ "tA" :> Student("utA", "sA", "classA", TRUE, "c1", {"c1", "c2"})
                  @@ "kB" :> Student("uB", "sB", "classB", FALSE, "c3", {"c3"}),
     schoolusers |-> "uA" :> [schoolid |-> "sA"] @@ "utA" :> [schoolid |-> "sA"] @@ "uB" :> [schoolid |-> "sB"],
     studentlessonsprogress |-> [x \in MCLearners \X MCLessons |-> None],
     studentprogress |-> [x \in MCLearners \X (MCPractices \cup MCQuizzes \cup MCLevels \cup MCBaselines) |->
                             IF x \in {<<"kA", "q1">>, <<"kA", "v1">>, <<"kB", "q3">>, <<"kA", "b1">>}
                             THEN 8000 ELSE None]]

Token(u, role, org, s, k, teacher) ==
    [schooluserid |-> u, schooluserrole |-> role, organisationid |-> org, schoolid |-> s,
     studentid |-> k, is_teacher_acc |-> teacher]

MCCallers == {Token("uA", "learner", "A", "sA", "kA", FALSE), Token("utA", "teacher", "A", "sA", "tA", TRUE)}

(* No filter, one filter of each kind on A's and on B's side, and a class with a lesson. *)
MCFilters ==
    {NoFilter}
    \cup {[NoFilter EXCEPT !.studentid = k] : k \in {"kA", "kB"}}
    \cup {[NoFilter EXCEPT !.standard = c] : c \in {"classA", "classB"}}
    \cup {[NoFilter EXCEPT !.curriculumid = c] : c \in {"c2", "c3"}}
    \cup {[NoFilter EXCEPT !.gradeid = g] : g \in {"g1", "g3"}}
    \cup {[NoFilter EXCEPT !.levelid = v] : v \in {"v1", "v3"}}
    \cup {[NoFilter EXCEPT !.standard = "classA", !.lessonid = l] : l \in {"l1", "l3"}}

(* Another organisation's curriculum among them; the other school's. *)
MCLists == {{"c1", "c3"}, {"c2"}}

MCWeights == {[total_points |-> 10, passing_points |-> 0], [total_points |-> 5, passing_points |-> 3]}

-----------------------------------------------------------------------------
MCInit == AccessInit /\ WalkInit

(* Scoring walks while nobody has asked or written anything, and the other way round. *)
Walk   == db = Start /\ request = None /\ last = None /\ WalkNext /\ UNCHANGED accessVars
Traffic == marks = 0 /\ active = 0 /\ AccessNext /\ UNCHANGED walkVars

MCNext == Walk \/ Traffic

MCSpec == MCInit /\ [][MCNext]_<<accessVars, walkVars>>

=============================================================================
