------------------------------- MODULE Roster -------------------------------
(***************************************************************************)
(* Who is on this server: organisations, schools, classes, logins and      *)
(* learners, and every way central changes them: the content push (the     *)
(* organisation, its schools and their classes), the students' and         *)
(* teachers' rosters and the ownership push.  Each is one transaction that *)
(* refuses from reads, writes, and is rolled back whole on any error.      *)
(* Pushes arrive in any order and any number of times.                     *)
(***************************************************************************)
EXTENDS SchoolIdentity

CONSTANTS
    Orgs,       \* organisations
    NoOrg,      \* a school from before schools had owners
    Central,    \* the schools central knows, with the organisations it may put each in: a function
    NamesOf,    \* the names central may give each of them
    StatusOf,   \* the states central may give each of its organisations
    Classes,    \* class ids
    CentralClasses,  \* those central knows
    Logins,     \* login ids
    Username,   \* the user name of each, unique in the table
    Learners,   \* learner ids
    Entries     \* the rows a students' roster may carry

SchoolRow == [name : Names, org : Orgs \cup {NoOrg}, deleted : BOOLEAN]
LoginRow  == [school : Schools, role : {"student", "teacher", "admin"}, off : BOOLEAN, password : {"central", "here"}]
Learner   == [login : Logins, school : Schools, class : Classes \cup {None}, listed : BOOLEAN]

ASSUME RosterAssumption ==
    /\ NoOrg \notin Orgs
    /\ DOMAIN Central \subseteq Schools
    /\ \A s \in DOMAIN Central : Central[s] \subseteq DOMAIN StatusOf /\ NamesOf[s] \subseteq Names
    /\ DOMAIN StatusOf \subseteq Orgs /\ \A o \in DOMAIN StatusOf : StatusOf[o] \subseteq {"active", "suspended"}
    /\ CentralClasses \subseteq Classes
    /\ \A e \in Entries :
        /\ e.login \in Logins /\ e.learner \in Learners /\ e.ref \in Refs /\ e.own \in Refs
        /\ e.role \in {"student", "teacher", "admin"} /\ e.off \in BOOLEAN /\ e.class \in Classes \cup {None}
    /\ None \notin SchoolRow \cup LoginRow \cup Learner \cup Orgs \cup Logins

VARIABLES
    orgs,       \* organisations: "absent", "active" or "suspended" (or deleted)
    schools,    \* schools: name, owner, soft delete
    classes,    \* standards: the school each hangs from
    logins,     \* schoolusers: school, role, disabled or deleted, whose password it is
    learners    \* students: login, school, class, and whether their curriculum list is filled

tables == <<orgs, schools, classes, logins, learners>>

Init ==
    /\ orgs = [o \in Orgs |-> "absent"]
    /\ \E s \in DOMAIN Central, n \in Names :
        /\ n \in NamesOf[s]
        /\ schools \in {[t \in Schools |-> None],
                        [t \in Schools |-> IF t = s THEN [name |-> n, org |-> NoOrg, deleted |-> FALSE] ELSE None]}
    /\ classes = [c \in Classes |-> None]
    /\ logins = [l \in Logins |-> None]
    /\ learners = [k \in Learners |-> None]

OwnedBy(org) == {s \in Here(schools) : schools[s].org = org}

-----------------------------------------------------------------------------
(* The content push of one organisation: at most one school and its classes. *)

Twins(s, name) == {t \in Here(schools) \ {s} : Collate[schools[t].name] = Collate[name]}

refuseRowsOfOtherOrganisations(org, s) ==
    s \in Here(schools) /\ schools[s].org \notin {org, NoOrg}

(***************************************************************************)
(* bulkCreate with updateOnDuplicate is INSERT ... ON DUPLICATE KEY UPDATE *)
(* and schools has two unique keys: a new id with the name of another row  *)
(* updates that row, a known id that takes another row's name is an error. *)
(***************************************************************************)
writeSchool(org, s, name) ==
    LET target == IF s \notin Here(schools) /\ Twins(s, name) # {} THEN CHOOSE t \in Twins(s, name) : TRUE ELSE s
    IN  [schools EXCEPT ![target] = [name |-> name, org |-> org, deleted |-> FALSE]]

uniqueName(s, name) == s \in Here(schools) => Twins(s, name) = {}

markMissing(org, after, payload) ==
    [s \in Schools |-> IF s \in OwnedBy(org) \ payload /\ after[s].org = org
                       THEN [after[s] EXCEPT !.deleted = TRUE] ELSE after[s]]

(* The classes of the payload's school are replaced; foreign keys are off. *)
replaceClasses(s, new) ==
    [c \in Classes |-> IF c \in new THEN s ELSE IF classes[c] = s THEN None ELSE classes[c]]

(* A class id still here is taken over only from an absent school of the organisation. *)
strayClass(org, s, new) ==
    \E c \in new : classes[c] \notin {None, s} \cup (OwnedBy(org) \ {s})

masterRefuses(org, s, name, new) ==
    \/ refuseRowsOfOtherOrganisations(org, s)
    \/ strayClass(org, s, new)
    \/ ~uniqueName(s, name)

masterSchools(org, s, name) == markMissing(org, writeSchool(org, s, name), {s})

(* PUT /import/master with the school s. *)
master(org, s, name, new, status) ==
    /\ ~masterRefuses(org, s, name, new)
    /\ orgs' = [orgs EXCEPT ![org] = status]
    /\ schools' = masterSchools(org, s, name)
    /\ classes' = replaceClasses(s, new)
    /\ UNCHANGED <<logins, learners>>

(* PUT /import/master of an organisation that has no school any more. *)
masterWithoutSchool(org, status) ==
    /\ orgs' = [orgs EXCEPT ![org] = status]
    /\ schools' = markMissing(org, schools, {})
    /\ UNCHANGED <<classes, logins, learners>>

-----------------------------------------------------------------------------
(* PUT /import/ownership: the organisations, and an owner for what has none. *)

assertOrganisationsExist(named, given) ==
    \A s \in DOMAIN named : named[s] \in given \/ orgs[named[s]] # "absent"

applyTable_moves(named) ==
    [s \in Schools |-> IF s \in DOMAIN named \cap Here(schools)
                       THEN [schools[s] EXCEPT !.org = named[s]] ELSE schools[s]]

applyTable(named) ==
    [s \in Schools |-> IF s \in DOMAIN named \cap OwnedBy(NoOrg)
                       THEN [schools[s] EXCEPT !.org = named[s]] ELSE schools[s]]

upsertOrganisations(given, status) == [o \in Orgs |-> IF o \in given THEN status ELSE orgs[o]]

ownership(named, given, status) ==
    /\ assertOrganisationsExist(named, given)
    /\ orgs' = upsertOrganisations(given, status)
    /\ schools' = applyTable(named)
    /\ UNCHANGED <<classes, logins, learners>>

-----------------------------------------------------------------------------
(* PUT /import/students, one login with its learner; header is the roster's school. *)

LoginNamed(name) == {l \in Logins : logins[l] # None /\ Username[l] = name}

(* The upsert by id meets the unique user name: the row that has it is the one updated. *)
LoginWritten(l) ==
    IF logins[l] = None /\ LoginNamed(Username[l]) # {}
    THEN CHOOSE t \in LoginNamed(Username[l]) : TRUE ELSE l

importschoolusers(l, ref, role, off) ==
    [logins EXCEPT ![LoginWritten(l)] =
        [school |-> CHOOSE s \in withImportSchoolIds(schools, ref) : TRUE,
         role |-> role, off |-> off, password |-> "central"]]

assertRosterClassesKnown(e) == e.class # None => classes[e.class] # None

withCurriculumLists(e) == e.curriculum # "none"

(* The foreign key of students.schooluserid. *)
loginIsHere_off(e) == TRUE

loginIsHere(e) == importschoolusers(e.login, e.ref, e.role, e.off)[e.login] # None

studentsAccepted(e, header) ==
    /\ header # None => /\ assertRosterBelongsToSchool(schools, e.ref, header)
                        /\ assertRosterBelongsToSchool(schools, e.own, header)
    /\ withRequiredSchoolIds(schools, e.own)
    /\ assertRosterClassesKnown(e)
    /\ withCurriculumLists(e)
    /\ e.progressKnown
    /\ withRequiredSchoolIds(schools, e.ref)
    /\ loginIsHere(e)

importstudents(e) ==
    [learners EXCEPT ![e.learner] =
        [login |-> e.login, class |-> e.class, listed |-> TRUE,
         school |-> CHOOSE s \in withImportSchoolIds(schools, e.own) : TRUE]]

studentsimport(e, header) ==
    /\ studentsAccepted(e, header)
    /\ logins' = importschoolusers(e.login, e.ref, e.role, e.off)
    /\ learners' = importstudents(e)
    /\ UNCHANGED <<orgs, schools, classes>>

(* PUT /import/teachers: logins only. *)
teachersimport(l, ref, off, header) ==
    /\ header # None => assertRosterBelongsToSchool(schools, ref, header)
    /\ withRequiredSchoolIds(schools, ref)
    /\ logins' = importschoolusers(l, ref, "teacher", off)
    /\ UNCHANGED <<orgs, schools, classes, learners>>

-----------------------------------------------------------------------------
(* Central pushes what it knows: its schools, each under an organisation it has or had. *)
Owners == {<<>>} \cup {named \in [DOMAIN Central -> Orgs] : \A s \in DOMAIN Central : named[s] \in Central[s]}

Push ==
    \/ \E s \in DOMAIN Central, new \in SUBSET CentralClasses : \E org \in Central[s], name \in NamesOf[s] :
        \E status \in StatusOf[org] : master(org, s, name, new, status)
    \/ \E org \in DOMAIN StatusOf : \E status \in StatusOf[org] : masterWithoutSchool(org, status)
    \/ \E org \in DOMAIN StatusOf : \E status \in StatusOf[org], named \in Owners : ownership(named, {org}, status)
    \/ \E e \in Entries, header \in DOMAIN Central \cup {None} : studentsimport(e, header)
    \/ \E e \in Entries, header \in DOMAIN Central \cup {None} : teachersimport(e.login, e.ref, e.off, header)

-----------------------------------------------------------------------------
TypeOK ==
    /\ orgs \in [Orgs -> {"absent", "active", "suspended"}]
    /\ schools \in [Schools -> SchoolRow \cup {None}]
    /\ classes \in [Classes -> Schools \cup {None}]
    /\ logins \in [Logins -> LoginRow \cup {None}]
    /\ learners \in [Learners -> Learner \cup {None}]

(***************************************************************************)
(* Nobody is nobody's: in whatever order schools and rosters arrive, every *)
(* login and learner is in a school that is here, and every learner has a  *)
(* login and a curriculum list, without which the content guard would lock *)
(* them out (withRequiredSchoolIds, roster-refs.ts).                       *)
(***************************************************************************)
RosterComplete ==
    /\ \A l \in Logins : logins[l] # None => logins[l].school \in Here(schools)
    /\ \A k \in Learners : learners[k] # None =>
        /\ learners[k].school \in Here(schools)
        /\ logins[learners[k].login] # None
        /\ learners[k].listed

(***************************************************************************)
(* A roster that names a school this server has puts both the login and    *)
(* the learner of every row it accepts into that school: the check of the  *)
(* header (assertRosterBelongsToSchool) and the resolution of the row      *)
(* (withImportSchoolIds) agree in every state of the schools table.        *)
(***************************************************************************)
RosterStaysInItsSchool ==
    \A e \in Entries, s \in Here(schools) : studentsAccepted(e, s) =>
        /\ importschoolusers(e.login, e.ref, e.role, e.off)[LoginWritten(e.login)].school = s
        /\ importstudents(e)[e.learner].school = s

(***************************************************************************)
(* The owner of a school is filled in once and never changes: no push of   *)
(* content, ownership or roster, and no provisioning, moves a school from  *)
(* one organisation to another ("Ownership is never moved by this call").  *)
(***************************************************************************)
OwnershipNeverMoves ==
    [][\A s \in Here(schools) : schools[s].org # NoOrg => schools'[s].org = schools[s].org]_schools

=============================================================================
