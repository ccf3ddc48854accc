---------------------------- MODULE Provisioning ----------------------------
(***************************************************************************)
(* The provisioning command of a classroom server (src/provisioning) next  *)
(* to the pushes of Roster.  The command reads and plans first, then       *)
(* writes and verifies in one transaction; a push may arrive in between,   *)
(* so the plan may be stale when it is applied.                            *)
(***************************************************************************)
EXTENDS Roster

CONSTANTS
    Coded,      \* the organisations with the code the operator gives: central's, and the one minted here
    Minted,     \* the id minted for a new organisation
    NewSchool,  \* the id minted for a new school
    NewClass,   \* the id minted for a new class
    NewLogin,   \* the id minted for a new administrator
    Options,    \* command lines: the school's name and either --reset-password, or a class, content and --replace-school or not
    NamesApart  \* operators never give a new school a name that central uses

ASSUME ProvisioningAssumption ==
    /\ Minted \in Coded /\ Coded \subseteq Orgs
    /\ NewSchool \in Schools \ DOMAIN Central /\ NewClass \in Classes /\ NewLogin \in Logins
    /\ \A o \in Options : o.school \in Names

VARIABLE plan   \* the plan between reading and writing; None when no command runs

vars == <<tables, plan>>

LiveOf(org, table) == {s \in Live(table) : table[s].org = org}
ClassesOf(s) == {c \in Classes : classes[c] = s}

-----------------------------------------------------------------------------
(* Nothing that provisions may come with --reset-password. *)
parseArgs(o) == o.reset => ~(o.class \/ o.content \/ o.replace)

(* The organisation by its code: one that is here and active, else a new one. *)
resolveOrganisation == {o \in Coded : orgs[o] # "absent"}

(* The school by its name, else a new one. *)
SchoolFor(name) ==
    IF sameNameCandidates(schools, name) = {} THEN NewSchool
    ELSE CHOOSE s \in sameNameCandidates(schools, name) : TRUE

isAdminOf(s, row) == row.school = s /\ row.role = "admin" /\ ~row.off

(* An administrator of that user name that is here must be this school's. *)
loginFits(s, action) ==
    \A l \in LoginNamed(Username[NewLogin]) : action # "create" /\ isAdminOf(s, logins[l])

loginPlan ==
    LET named == LoginNamed(Username[NewLogin])
    IN  IF named = {} THEN NewLogin ELSE CHOOSE l \in named : TRUE

(* Every class the school has, and the one asked for. *)
classRows(o, s) == ClassesOf(s) \cup (IF o.class THEN {NewClass} ELSE {})

Planned(o) ==
    LET org    == IF resolveOrganisation = {} THEN Minted ELSE CHOOSE g \in resolveOrganisation : TRUE
        s      == SchoolFor(o.school)
        action == IF schools[s] = None THEN "create" ELSE IF schools[s].deleted THEN "restore" ELSE "reuse"
    IN  [options |-> o, org |-> org, school |-> s, action |-> action,
         name |-> IF action = "create" THEN o.school ELSE schools[s].name,
         classes |-> classRows(o, s),
         others |-> LiveOf(org, schools) \ {s},
         login |-> loginPlan, newLogin |-> LoginNamed(Username[NewLogin]) = {}]

CentralUses(name) == \E s \in DOMAIN Central : \E n \in NamesOf[s] : Collate[n] = Collate[name]

OneActiveOrganisation ==
    Cardinality(resolveOrganisation) <= 1 /\ \A g \in resolveOrganisation : orgs[g] = "active"

(* The school of that name, if there is one, is the organisation's. *)
schoolFits(p) ==
    /\ Cardinality(sameNameCandidates(schools, p.options.school)) <= 1
    /\ p.action # "create" => schools[p.school].org = p.org

(* Provisioner.plan: reads only; any refusal ends the command. *)
Plan(o) ==
    LET p == Planned(o) IN
    /\ plan = None /\ parseArgs(o) /\ ~o.reset
    /\ OneActiveOrganisation
    /\ schoolFits(p)
    /\ p.others # {} => o.replace
    /\ loginFits(p.school, p.action)
    /\ p.action = "create" => schools[NewSchool] = None /\ (NamesApart => ~CentralUses(o.school))
    /\ NewClass \in p.classes => classes[NewClass] \in {None, p.school}
    /\ plan' = p
    /\ UNCHANGED tables

(* ... with --reset-password: the login must be one of that live school. *)
PlanReset(o) ==
    LET p == Planned(o) IN
    /\ plan = None /\ parseArgs(o) /\ o.reset
    /\ OneActiveOrganisation /\ resolveOrganisation # {}
    /\ schoolFits(p) /\ p.action = "reuse"
    /\ ~p.newLogin /\ logins[p.login].school = p.school /\ ~logins[p.login].off
    /\ plan' = p
    /\ UNCHANGED tables

-----------------------------------------------------------------------------
(* The content made this organisation's and this school's: one school, the local one, with its classes. *)
rehomeContent(p) == [org |-> p.org, school |-> p.school, name |-> p.name, classes |-> p.classes]

(* What the transaction leaves, before it is verified. *)

SchoolsAfter(p) ==
    IF p.options.content THEN LET c == rehomeContent(p) IN masterSchools(c.org, c.school, c.name)
    ELSE LET row   == [name |-> p.name, org |-> p.org, deleted |-> FALSE]
             named == CASE p.action = "create"  -> [schools EXCEPT ![p.school] = row]
                        [] p.action = "restore" -> [schools EXCEPT ![p.school].deleted = FALSE]
                        [] OTHER -> schools
         IN  IF p.others = {} THEN named
             ELSE [s \in Schools |-> IF s \in LiveOf(p.org, named) \ {p.school}
                                     THEN [named[s] EXCEPT !.deleted = TRUE] ELSE named[s]]

ClassesAfter(p) ==
    IF p.options.content THEN LET c == rehomeContent(p) IN replaceClasses(c.school, c.classes)
    ELSE [c \in Classes |-> IF c \in p.classes /\ classes[c] = None /\ c = NewClass THEN p.school ELSE classes[c]]

LoginsAfter(p) ==
    IF p.newLogin
    THEN [logins EXCEPT ![p.login] = [school |-> p.school, role |-> "admin", off |-> FALSE, password |-> "here"]]
    ELSE logins

OrgsAfter(p) ==
    IF p.options.content \/ orgs[p.org] = "absent" THEN [orgs EXCEPT ![p.org] = "active"] ELSE orgs

(* A statement of the transaction fails: a name taken meanwhile, a refused import. *)
writeFails(p) ==
    \/ p.options.content /\ LET c == rehomeContent(p) IN masterRefuses(c.org, c.school, c.name, c.classes)
    \/ ~p.options.content /\ p.action = "create" /\ Twins(p.school, p.name) # {}
    \/ ~p.options.content /\ NewClass \in p.classes \ ClassesOf(p.school) /\ classes[NewClass] # None
    \/ p.newLogin /\ LoginNamed(Username[p.login]) # {}

loginVerified(p) == LoginsAfter(p)[p.login] # None /\ isAdminOf(p.school, LoginsAfter(p)[p.login])

verify_login(p) == loginVerified(p)

verify(p) ==
    /\ {o \in Coded : OrgsAfter(p)[o] # "absent"} = {p.org} /\ OrgsAfter(p)[p.org] = "active"
    /\ LiveOf(p.org, SchoolsAfter(p)) = {p.school}
    /\ ~p.options.replace => p.others \subseteq LiveOf(p.org, SchoolsAfter(p))
    /\ \A c \in ClassesOf(p.school) : ClassesAfter(p)[c] = p.school
    /\ p.options.class => \E c \in p.classes : ClassesAfter(p)[c] = p.school
    /\ p.options.content => \A c \in p.classes : ClassesAfter(p)[c] = p.school
    /\ loginVerified(p)

(* Provisioner.apply: one transaction, committed only when it verifies. *)
Apply ==
    /\ plan # None /\ ~plan.options.reset
    /\ ~writeFails(plan) /\ verify(plan)
    /\ orgs' = OrgsAfter(plan) /\ schools' = SchoolsAfter(plan)
    /\ classes' = ClassesAfter(plan) /\ logins' = LoginsAfter(plan)
    /\ plan' = None
    /\ UNCHANGED learners

(* ... with --reset-password: the row is read back, and must be in the school. *)
ApplyReset_unread ==
    /\ plan # None /\ plan.options.reset
    /\ logins[plan.login] # None
    /\ logins' = [logins EXCEPT ![plan.login].password = "here"]
    /\ plan' = None
    /\ UNCHANGED <<orgs, schools, classes, learners>>

ApplyReset ==
    /\ plan # None /\ plan.options.reset
    /\ logins[plan.login] # None /\ logins[plan.login].school = plan.school
    /\ logins' = [logins EXCEPT ![plan.login].password = "here"]
    /\ plan' = None
    /\ UNCHANGED <<orgs, schools, classes, learners>>

(* A dry run, a failed statement, a failed verification, or the command is killed. *)
GiveUp ==
    /\ plan # None
    /\ plan' = None
    /\ UNCHANGED tables

-----------------------------------------------------------------------------
ServerInit == Init /\ plan = None

Next ==
    \/ Push /\ UNCHANGED plan
    \/ \E o \in Options : Plan(o)
    \/ \E o \in Options : PlanReset(o)
    \/ Apply
    \/ ApplyReset
    \/ GiveUp

Spec == ServerInit /\ [][Next]_vars

-----------------------------------------------------------------------------
Applied(reset) == plan # None /\ plan' = None /\ tables' # tables /\ plan.options.reset = reset

(***************************************************************************)
(* What a provisioned server is, however stale the plan: the organisation  *)
(* active, the named school its only live one, an administrator in it; and *)
(* what the command leaves alone: every login and class that was there and *)
(* every school of another organisation (apply and verify).                *)
(***************************************************************************)
ProvisionedIsWhole ==
    [][Applied(FALSE) =>
        /\ orgs'[plan.org] = "active"
        /\ {s \in Schools : schools'[s] # None /\ schools'[s].org = plan.org /\ ~schools'[s].deleted} = {plan.school}
        /\ \E l \in Logins : logins'[l] # None /\ isAdminOf(plan.school, logins'[l])
        /\ \A l \in Logins : logins[l] # None => logins'[l] = logins[l]
        /\ \A c \in ClassesOf(plan.school) : classes'[c] = plan.school
        /\ \A s \in Here(schools) : schools[s].org # plan.org => schools'[s] = schools[s]]_vars

(***************************************************************************)
(* A password reset only ever hands out a password of a login that is in   *)
(* the school the operator named at that moment, although a roster push    *)
(* may have moved the login since the plan was made (apply, the read-back).*)
(***************************************************************************)
ResetStaysInSchool ==
    [][Applied(TRUE) => \A l \in Logins : logins'[l] # logins[l] => logins[l].school = plan.school]_vars

=============================================================================
