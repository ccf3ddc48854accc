---------------------------- MODULE RosterProofs ----------------------------
(***************************************************************************)
(* For any schools, classes, logins, learners, rosters and command lines:  *)
(* the roster stays complete and in its school, a provisioned server is    *)
(* whole however stale the plan was, and no school changes owner.          *)
(***************************************************************************)
EXTENDS Provisioning, TLAPS, FiniteSetTheorems

(* What a plan may be; no push makes it untrue while the command runs. *)
PlanFits(p) ==
    /\ p.org \in Orgs /\ p.school \in Schools /\ p.login \in Logins /\ p.name \in Names
    /\ p.action = "create" => p.school = NewSchool
    /\ p.action # "create" => p.school \in Here(schools)
    /\ p.school \in Here(schools) => schools[p.school].org # NoOrg

PlanOK == plan # None => PlanFits(plan)

TypeInv == TypeOK /\ PlanOK

IInv == TypeInv /\ RosterComplete

(* What every write leaves of the schools: no row goes, no owner goes, and what is new is owned. *)
Keeps(table) ==
    /\ table \in [Schools -> SchoolRow \cup {None}]
    /\ Here(schools) \subseteq Here(table)
    /\ \A s \in Here(table) : table[s].org = NoOrg => s \in Here(schools) /\ schools[s].org = NoOrg

(* The id of a school made here is minted, and central never has it. *)
MintedHere == NewSchool \notin DOMAIN Central

-----------------------------------------------------------------------------
(* What the types say of the rows that are here and of the missing row. *)
LEMMA HereFacts ==
    ASSUME TypeOK
    PROVE  /\ \A s \in Here(schools) : schools[s] \in SchoolRow
           /\ \A s \in Schools : s \notin Here(schools) => schools[s] = None
           /\ Here(schools) \subseteq Schools /\ None \notin Here(schools)
           /\ \A row \in SchoolRow : row # None
           /\ \A row \in LoginRow : row # None
           /\ \A row \in Learner : row # None
  BY RosterAssumption, NamesAssumption DEF TypeOK, Here

(* A reference that is accepted means one school, and that school is here. *)
LEMMA OneSchoolMeant ==
    ASSUME TypeOK, NEW ref \in Refs, withRequiredSchoolIds(schools, ref)
    PROVE  \E s \in Here(schools) : withImportSchoolIds(schools, ref) = {s}
<1> DEFINE X == withImportSchoolIds(schools, ref)
<1>1. X \subseteq Here(schools)
  BY DEF withImportSchoolIds, findSchoolIdByName, sameNameCandidates
<1>2. IsFiniteSet(X) BY <1>1, HereFacts, NamesAssumption, FS_Subset
<1>3. Cardinality(X) = 1 BY DEF withRequiredSchoolIds
<1> HIDE DEF X
<1>4. PICK s : X = {s} BY <1>2, <1>3, FS_Singleton
<1>5. QED BY <1>1, <1>4 DEF X

(* A header that is accepted is what the reference means. *)
LEMMA HeaderIsMeant ==
    ASSUME TypeOK, NEW ref \in Refs, NEW s \in Here(schools),
           withRequiredSchoolIds(schools, ref), assertRosterBelongsToSchool(schools, ref, s)
    PROVE  withImportSchoolIds(schools, ref) = {s}
<1>1. PICK t \in Here(schools) : withImportSchoolIds(schools, ref) = {t} BY OneSchoolMeant
<1>2. CASE ref.id = None
  <2>1. ref.id \notin Here(schools) BY <1>2, HereFacts
  <2>2. QED BY <1>2, <2>1 DEF assertRosterBelongsToSchool, withImportSchoolIds
<1>3. CASE ref.id # None
  <2>1. ref.id = s BY <1>3 DEF assertRosterBelongsToSchool
  <2>2. withImportSchoolIds(schools, ref) \subseteq {s} BY <2>1 DEF withImportSchoolIds
  <2>3. QED BY <1>1, <2>2
<1>4. QED BY <1>2, <1>3

(* Where a login is written: in the row that has the user name already, if there is one. *)
LEMMA LoginTarget ==
    ASSUME TypeOK, NEW l \in Logins
    PROVE  LoginWritten(l) \in Logins
<1>1. CASE logins[l] = None /\ LoginNamed(Username[l]) # {}
  <2>1. LoginWritten(l) \in LoginNamed(Username[l]) BY <1>1 DEF LoginWritten
  <2>2. QED BY <2>1 DEF LoginNamed
<1>2. QED BY <1>1 DEF LoginWritten

(* The login written, and all others left alone. *)
LEMMA LoginsWritten ==
    ASSUME TypeOK, NEW l \in Logins, NEW ref \in Refs, withRequiredSchoolIds(schools, ref),
           NEW role \in {"student", "teacher", "admin"}, NEW off \in BOOLEAN,
           NEW new, new = importschoolusers(l, ref, role, off)
    PROVE  /\ new \in [Logins -> LoginRow \cup {None}]
           /\ new[LoginWritten(l)].school \in Here(schools) /\ new[LoginWritten(l)] # None
           /\ \A k \in Logins : k # LoginWritten(l) => new[k] = logins[k]
           /\ \A s : withImportSchoolIds(schools, ref) = {s} => new[LoginWritten(l)].school = s
<1>1. PICK s \in Here(schools) : withImportSchoolIds(schools, ref) = {s} BY OneSchoolMeant
<1> DEFINE row == [school |-> s, role |-> role, off |-> off, password |-> "central"]
<1>2. (CHOOSE t \in withImportSchoolIds(schools, ref) : TRUE) = s BY <1>1
<1>3. new = [logins EXCEPT ![LoginWritten(l)] = row] BY <1>2 DEF importschoolusers
<1>4. row \in LoginRow /\ row.school = s BY HereFacts DEF LoginRow
<1>5. LoginWritten(l) \in Logins BY LoginTarget
<1> HIDE DEF row
<1>6. QED BY <1>1, <1>3, <1>4, <1>5, HereFacts DEF TypeOK

-----------------------------------------------------------------------------
(* The same rows but for the mark of deletion. *)
SameRows(T, table) ==
    /\ T \in [Schools -> SchoolRow \cup {None}]
    /\ \A s \in Schools : T[s] # None <=> table[s] # None
    /\ \A s \in Here(table) : T[s].org = table[s].org /\ T[s].name = table[s].name

(* Marking rows deleted changes neither which rows are here nor their owners. *)
LEMMA MarkedRows ==
    ASSUME TypeOK, NEW table \in [Schools -> SchoolRow \cup {None}], NEW M, M \subseteq Here(table),
           NEW T, T = [s \in Schools |-> IF s \in M THEN [table[s] EXCEPT !.deleted = TRUE] ELSE table[s]]
    PROVE  SameRows(T, table) /\ \A s \in Schools \ M : T[s] = table[s]
<1>1. \A s \in M : s \in Schools /\ table[s] \in SchoolRow /\ table[s] # None BY DEF Here
<1>2. \A s \in M : /\ [table[s] EXCEPT !.deleted = TRUE] \in SchoolRow
                   /\ [table[s] EXCEPT !.deleted = TRUE].org = table[s].org
                   /\ [table[s] EXCEPT !.deleted = TRUE].name = table[s].name
  BY <1>1 DEF SchoolRow
<1>3. \A s \in M : T[s] = [table[s] EXCEPT !.deleted = TRUE] BY <1>1
<1>4. \A s \in M : T[s] \in SchoolRow /\ T[s] # None /\ T[s].org = table[s].org /\ T[s].name = table[s].name
  BY <1>2, <1>3, HereFacts
<1>5. \A s \in Schools \ M : T[s] = table[s] OBVIOUS
<1>6. T = [s \in Schools |-> T[s]] OBVIOUS
<1>7. QED BY <1>1, <1>4, <1>5, <1>6 DEF SameRows, Here

(* A table with the same rows and owners is as good. *)
LEMMA SameRowsKeep ==
    ASSUME NEW table, Keeps(table), NEW T, SameRows(T, table)
    PROVE  Keeps(T)
<1>1. Here(T) = Here(table) BY DEF SameRows, Here
<1>2. QED BY <1>1 DEF Keeps, SameRows

(* A school made absent keeps its row, its name and its owner; only the organisation's are. *)
LEMMA MissingMarked ==
    ASSUME TypeOK, NEW org, NEW table \in [Schools -> SchoolRow \cup {None}], Here(schools) \subseteq Here(table), NEW payload
    PROVE  /\ SameRows(markMissing(org, table, payload), table)
           /\ \A s \in Schools : schools[s] # None /\ schools[s].org # org => markMissing(org, table, payload)[s] = table[s]
           /\ \A s \in payload \cap Schools : markMissing(org, table, payload)[s] = table[s]
<1> DEFINE T == markMissing(org, table, payload)
           M == {s \in OwnedBy(org) \ payload : table[s].org = org}
<1>1. M \subseteq Here(table) BY DEF OwnedBy
<1>2. T = [s \in Schools |-> IF s \in M THEN [table[s] EXCEPT !.deleted = TRUE] ELSE table[s]] BY DEF markMissing
<1>3. \A s \in M : schools[s].org = org /\ s \notin payload BY DEF OwnedBy
<1> HIDE DEF M, T
<1>4. SameRows(T, table) /\ \A s \in Schools \ M : T[s] = table[s] BY <1>1, <1>2, MarkedRows
<1>5. QED BY <1>3, <1>4 DEF T

(* Marking what a payload no longer names keeps the schools. *)
LEMMA MarkingKeeps ==
    ASSUME TypeOK, NEW org, NEW after, Keeps(after), NEW payload
    PROVE  Keeps(markMissing(org, after, payload))
  BY MissingMarked, SameRowsKeep DEF Keeps

(* The school of a payload is written with its owner, in its row or its twin's. *)
LEMMA WritingKeeps ==
    ASSUME TypeOK, NEW org \in Orgs, NEW s \in Schools, NEW name \in Names
    PROVE  Keeps(writeSchool(org, s, name))
<1> DEFINE row == [name |-> name, org |-> org, deleted |-> FALSE]
<1>1. row \in SchoolRow /\ row # None /\ row.org # NoOrg BY HereFacts, RosterAssumption DEF SchoolRow
<1>2. PICK target \in Schools : writeSchool(org, s, name) = [schools EXCEPT ![target] = row]
  <2>1. CASE s \notin Here(schools) /\ Twins(s, name) # {}
    <3>1. (CHOOSE t \in Twins(s, name) : TRUE) \in Schools BY <2>1 DEF Twins, Here
    <3>2. QED BY <2>1, <3>1 DEF writeSchool
  <2>2. QED BY <2>1 DEF writeSchool
<1> HIDE DEF row
<1>3. QED BY <1>1, <1>2 DEF Keeps, TypeOK, Here

(* The master import keeps the schools. *)
LEMMA MasterKeeps ==
    ASSUME TypeOK, NEW org \in Orgs, NEW s \in Schools, NEW name \in Names
    PROVE  Keeps(masterSchools(org, s, name))
  BY WritingKeeps, MarkingKeeps DEF masterSchools

(* So does leaving them alone. *)
LEMMA SameKeeps == ASSUME TypeOK PROVE Keeps(schools)
  BY DEF Keeps, TypeOK

(* An ownership push fills in owners only. *)
LEMMA OwnersKept ==
    ASSUME TypeOK, NEW named \in Owners
    PROVE  Keeps(applyTable(named))
<1>1. \A s \in DOMAIN named \cap OwnedBy(NoOrg) : named[s] \in Orgs
  BY DEF Owners
<1>2. \A s \in OwnedBy(NoOrg) : schools[s] \in SchoolRow BY HereFacts DEF OwnedBy
<1>3. \A s \in DOMAIN named \cap OwnedBy(NoOrg) :
        [schools[s] EXCEPT !.org = named[s]] \in SchoolRow /\ [schools[s] EXCEPT !.org = named[s]].org # NoOrg
  BY <1>1, <1>2, RosterAssumption DEF SchoolRow
<1>4. \A s \in Schools : applyTable(named)[s] \in SchoolRow \cup {None} BY <1>3 DEF applyTable, TypeOK
<1>5. \A s \in Schools :
        /\ applyTable(named)[s] # None <=> schools[s] # None
        /\ applyTable(named)[s] # None /\ schools[s].org # NoOrg => applyTable(named)[s].org # NoOrg
  BY <1>3, HereFacts DEF applyTable, OwnedBy, Here
<1>6. applyTable(named) \in [Schools -> SchoolRow \cup {None}] BY <1>4 DEF applyTable
<1>7. Here(schools) \subseteq Here(applyTable(named)) BY <1>5, HereFacts DEF Here
<1>8. QED BY <1>5, <1>6, <1>7 DEF Keeps, Here

(* What the provisioning command leaves of the schools, with or without content. *)
LEMMA CommandKeeps ==
    ASSUME TypeOK, NEW p, PlanFits(p)
    PROVE  Keeps(SchoolsAfter(p))
<1>1. CASE p.options.content BY <1>1, MasterKeeps DEF SchoolsAfter, rehomeContent, PlanFits
<1>2. CASE ~p.options.content
  <2> DEFINE row   == [name |-> p.name, org |-> p.org, deleted |-> FALSE]
             named == CASE p.action = "create"  -> [schools EXCEPT ![p.school] = row]
                        [] p.action = "restore" -> [schools EXCEPT ![p.school].deleted = FALSE]
                        [] OTHER -> schools
  <2>1. Keeps(named)
    <3>1. CASE p.action = "create"
      <4>1. row \in SchoolRow /\ row # None /\ row.org # NoOrg
        BY HereFacts, RosterAssumption DEF SchoolRow, PlanFits
      <4>2. named = [schools EXCEPT ![p.school] = row] BY <3>1
      <4> HIDE DEF row, named
      <4>3. QED BY <4>1, <4>2 DEF Keeps, TypeOK, Here, PlanFits
    <3>2. CASE p.action = "restore"
      <4>1. named = [schools EXCEPT ![p.school].deleted = FALSE] BY <3>2
      <4>2. schools[p.school] \in SchoolRow BY <3>2, HereFacts DEF PlanFits
      <4> DEFINE new == [schools[p.school] EXCEPT !.deleted = FALSE]
      <4>3. new \in SchoolRow /\ new.org = schools[p.school].org BY <4>2 DEF SchoolRow
      <4>4. named = [schools EXCEPT ![p.school] = new] BY <4>1
      <4> HIDE DEF new, named
      <4>5. p.school \in Here(schools) BY <3>2 DEF PlanFits
      <4>6. new # None BY <4>3, HereFacts
      <4>7. \A s \in Schools : named[s] = IF s = p.school THEN new ELSE schools[s] BY <4>4 DEF TypeOK
      <4>8. named \in [Schools -> SchoolRow \cup {None}] BY <4>3, <4>4 DEF TypeOK
      <4>9. QED BY <4>3, <4>5, <4>6, <4>7, <4>8 DEF Keeps, Here
    <3>3. CASE p.action \notin {"create", "restore"}
      <4>1. named = schools BY <3>3
      <4>2. QED BY <4>1, SameKeeps
    <3>4. QED BY <3>1, <3>2, <3>3
  <2> HIDE DEF named
  <2> DEFINE T == [s \in Schools |-> IF s \in LiveOf(p.org, named) \ {p.school}
                                     THEN [named[s] EXCEPT !.deleted = TRUE] ELSE named[s]]
  <2>2. SchoolsAfter(p) = IF p.others = {} THEN named ELSE T BY <1>2 DEF SchoolsAfter, named
  <2>3. Keeps(T)
    <3>1. named \in [Schools -> SchoolRow \cup {None}] BY <2>1 DEF Keeps
    <3>2. LiveOf(p.org, named) \ {p.school} \subseteq Here(named) BY DEF LiveOf, Live
    <3>3. SameRows(T, named) BY <3>1, <3>2, MarkedRows
    <3> HIDE DEF T
    <3>4. QED BY <2>1, <3>3, SameRowsKeep
  <2>4. QED BY <2>1, <2>2, <2>3
<1>3. QED BY <1>1, <1>2

-----------------------------------------------------------------------------
(* A plan that passes the school check is one for a school that is here or to be made. *)
LEMMA PlannedFits ==
    ASSUME TypeOK, NEW o \in Options, schoolFits(Planned(o))
    PROVE  PlanFits(Planned(o))
<1> DEFINE p == Planned(o)
<1>1. p.org \in Orgs
  <2>1. (IF resolveOrganisation = {} THEN Minted ELSE CHOOSE g \in resolveOrganisation : TRUE) \in Orgs
    <3>1. resolveOrganisation \subseteq Orgs BY ProvisioningAssumption DEF resolveOrganisation
    <3>2. resolveOrganisation # {} => (CHOOSE g \in resolveOrganisation : TRUE) \in resolveOrganisation OBVIOUS
    <3>3. QED BY <3>1, <3>2, ProvisioningAssumption
  <2>2. QED BY <2>1 DEF Planned
<1>2. p.school = SchoolFor(o.school) BY DEF Planned
<1>3. p.school \in Schools /\ (schools[p.school] = None => p.school = NewSchool)
  <2>1. CASE sameNameCandidates(schools, o.school) = {}
    BY <1>2, <2>1, ProvisioningAssumption DEF SchoolFor
  <2>2. CASE sameNameCandidates(schools, o.school) # {}
    <3>1. SchoolFor(o.school) \in sameNameCandidates(schools, o.school) BY <2>2 DEF SchoolFor
    <3>2. QED BY <1>2, <3>1 DEF sameNameCandidates, Here
  <2>3. QED BY <2>1, <2>2
<1>4. p.action = IF schools[p.school] = None THEN "create" ELSE IF schools[p.school].deleted THEN "restore" ELSE "reuse"
  BY <1>2 DEF Planned
<1>5. p.name = (IF p.action = "create" THEN o.school ELSE schools[p.school].name) BY <1>2, <1>4 DEF Planned
<1>6. p.login \in Logins
  <2>1. loginPlan \in Logins
    <3>1. LoginNamed(Username[NewLogin]) # {} => (CHOOSE l \in LoginNamed(Username[NewLogin]) : TRUE) \in LoginNamed(Username[NewLogin])
      OBVIOUS
    <3>2. QED BY <3>1, ProvisioningAssumption DEF loginPlan, LoginNamed
  <2>2. QED BY <2>1 DEF Planned
<1>7. p.action # "create" => schools[p.school].org = p.org BY DEF schoolFits
<1> HIDE DEF p
<1>8. p.action # "create" <=> p.school \in Here(schools) BY <1>3, <1>4 DEF Here
<1>9. p.name \in Names
  <2>1. p.school \in Here(schools) => schools[p.school].name \in Names BY HereFacts DEF SchoolRow
  <2>2. QED BY <2>1, <1>5, <1>8, ProvisioningAssumption
<1>10. p.action = "create" => p.school = NewSchool BY <1>3, <1>8 DEF Here
<1>11. p.org # NoOrg BY <1>1, RosterAssumption
<1>12. PlanFits(p) BY <1>1, <1>3, <1>6, <1>7, <1>8, <1>9, <1>10, <1>11 DEF PlanFits
<1>13. QED BY <1>12 DEF p

(* A plan that fits still fits after any write. *)
LEMMA PlansFitOn ==
    ASSUME TypeOK, Keeps(schools'), NEW p, PlanFits(p)
    PROVE  PlanFits(p)'
  BY DEF Keeps, PlanFits, Here

-----------------------------------------------------------------------------
(* What a write of logins leaves: typed rows, none gone, each in a school that is here afterwards. *)
Housed(new) ==
    /\ new \in [Logins -> LoginRow \cup {None}]
    /\ \A l \in Logins : logins[l] # None => new[l] # None
    /\ \A l \in Logins : new[l] # None => new[l].school \in Here(schools')

(* A step that writes neither logins nor learners. *)
LEMMA TablesStep ==
    ASSUME IInv, Keeps(schools'), UNCHANGED <<logins, learners>>
    PROVE  RosterComplete'
  BY DEF IInv, Keeps, RosterComplete

(* A roster's login, whatever row it lands in. *)
LEMMA LoginHoused ==
    ASSUME IInv, UNCHANGED schools, NEW l \in Logins, NEW ref \in Refs, withRequiredSchoolIds(schools, ref),
           NEW role \in {"student", "teacher", "admin"}, NEW off \in BOOLEAN,
           logins' = importschoolusers(l, ref, role, off)
    PROVE  Housed(logins')
<1>1. LoginWritten(l) \in Logins BY LoginTarget DEF IInv, TypeInv
<1>2. /\ logins' \in [Logins -> LoginRow \cup {None}]
      /\ logins'[LoginWritten(l)].school \in Here(schools) /\ logins'[LoginWritten(l)] # None
      /\ \A k \in Logins : k # LoginWritten(l) => logins'[k] = logins[k]
  BY LoginsWritten DEF IInv, TypeInv
<1>3. \A k \in Logins : logins[k] # None => logins[k].school \in Here(schools) BY DEF IInv, RosterComplete
<1>4. Here(schools') = Here(schools) OBVIOUS
<1>5. QED BY <1>1, <1>2, <1>3, <1>4 DEF Housed

(* What a line of a roster file is made of. *)
LEMMA EntryFacts ==
    ASSUME NEW e \in Entries
    PROVE  /\ e.login \in Logins /\ e.learner \in Learners /\ e.ref \in Refs /\ e.own \in Refs
           /\ e.role \in {"student", "teacher", "admin"} /\ e.off \in BOOLEAN /\ e.class \in Classes \cup {None}
  BY RosterAssumption

(* A students import keeps the types, the completeness of the roster and the schools. *)
LEMMA StudentsStep ==
    ASSUME IInv, NEW e \in Entries, NEW header, studentsimport(e, header)
    PROVE  TypeOK' /\ RosterComplete' /\ Keeps(schools')
<1>1. UNCHANGED schools /\ studentsAccepted(e, header) BY DEF studentsimport
<1>2. Housed(logins')
  BY <1>1, LoginHoused, EntryFacts DEF studentsimport, studentsAccepted
<1>3. PICK s \in Here(schools) : withImportSchoolIds(schools, e.own) = {s}
  BY <1>1, OneSchoolMeant, EntryFacts DEF studentsAccepted, IInv, TypeInv
<1> DEFINE row == [login |-> e.login, class |-> e.class, listed |-> TRUE, school |-> s]
<1>4. (CHOOSE t \in withImportSchoolIds(schools, e.own) : TRUE) = s BY <1>3
<1>5. learners' = [learners EXCEPT ![e.learner] = row] BY <1>4 DEF studentsimport, importstudents
<1>6. row \in Learner /\ row # None BY EntryFacts, HereFacts DEF Learner, IInv, TypeInv
<1>7. row.school \in Here(schools) /\ logins'[row.login] # None /\ row.listed
  BY <1>1 DEF studentsimport, studentsAccepted, loginIsHere
<1>8. e.learner \in Learners BY EntryFacts
<1>9. learners' \in [Learners -> Learner \cup {None}] BY <1>5, <1>6, <1>8 DEF IInv, TypeInv, TypeOK
<1>10. \A k \in Learners : learners[k] # None => learners[k].login \in Logins
  BY DEF IInv, TypeInv, TypeOK, Learner
<1> HIDE DEF row
<1>11. \A k \in Learners : learners'[k] = IF k = e.learner THEN row ELSE learners[k]
  BY <1>5, <1>8 DEF IInv, TypeInv, TypeOK
<1>12. \A k \in Learners : learners'[k] # None =>
          learners'[k].school \in Here(schools) /\ logins'[learners'[k].login] # None /\ learners'[k].listed
  BY <1>2, <1>7, <1>10, <1>11 DEF IInv, RosterComplete, Housed
<1>13. RosterComplete' BY <1>1, <1>2, <1>12 DEF RosterComplete, Housed
<1>14. TypeOK' BY <1>2, <1>9 DEF studentsimport, TypeOK, Housed, IInv, TypeInv
<1>15. Keeps(schools') BY <1>1, SameKeeps DEF IInv, TypeInv
<1>16. QED BY <1>13, <1>14, <1>15

(* A step that leaves the learners alone and houses every login. *)
LEMMA LoginsStep ==
    ASSUME IInv, Keeps(schools'), Housed(logins'), UNCHANGED learners
    PROVE  RosterComplete'
<1>1. \A k \in Learners : learners[k] # None => learners[k].login \in Logins
  BY DEF IInv, TypeInv, TypeOK, Learner
<1>2. \A k \in Learners : learners'[k] # None =>
        learners'[k].school \in Here(schools') /\ logins'[learners'[k].login] # None /\ learners'[k].listed
  BY <1>1 DEF IInv, RosterComplete, Housed, Keeps
<1>3. QED BY <1>2 DEF RosterComplete, Housed

(* So does a teachers import. *)
LEMMA TeachersStep ==
    ASSUME IInv, NEW e \in Entries, NEW header, teachersimport(e.login, e.ref, e.off, header)
    PROVE  TypeOK' /\ RosterComplete' /\ Keeps(schools')
<1>1. UNCHANGED <<orgs, schools, classes, learners>> BY DEF teachersimport
<1>2. Housed(logins') BY <1>1, LoginHoused, EntryFacts DEF teachersimport
<1>3. Keeps(schools') BY <1>1, SameKeeps DEF IInv, TypeInv
<1>4. RosterComplete' BY <1>1, <1>2, <1>3, LoginsStep
<1>5. TypeOK' BY <1>1, <1>2 DEF TypeOK, Housed, IInv, TypeInv
<1>6. QED BY <1>3, <1>4, <1>5

(* Replacing the classes of a school keeps the type of the class table. *)
LEMMA ClassesTyped ==
    ASSUME TypeOK, NEW s \in Schools, NEW new
    PROVE  replaceClasses(s, new) \in [Classes -> Schools \cup {None}]
  BY DEF TypeOK, replaceClasses

(* A push from central keeps the types, the completeness of the roster and the schools. *)
LEMMA PushStep ==
    ASSUME IInv, Push
    PROVE  TypeOK' /\ RosterComplete' /\ Keeps(schools')
<1>0. TypeOK BY DEF IInv, TypeInv
<1>1. ASSUME NEW s \in DOMAIN Central, NEW new \in SUBSET CentralClasses, NEW org \in Central[s],
             NEW name \in NamesOf[s], NEW status \in StatusOf[org], master(org, s, name, new, status)
      PROVE  TypeOK' /\ RosterComplete' /\ Keeps(schools')
  <2>1. s \in Schools /\ org \in Orgs /\ name \in Names /\ status \in {"active", "suspended"} BY RosterAssumption
  <2>2. Keeps(schools') BY <1>0, <1>1, <2>1, MasterKeeps DEF master
  <2>3. classes' \in [Classes -> Schools \cup {None}] BY <1>0, <1>1, <2>1, ClassesTyped DEF master
  <2>4. orgs' \in [Orgs -> {"absent", "active", "suspended"}] BY <1>0, <1>1, <2>1 DEF master, TypeOK
  <2>5. UNCHANGED <<logins, learners>> BY <1>1 DEF master
  <2>6. QED BY <1>0, <2>2, <2>3, <2>4, <2>5, TablesStep DEF TypeOK, Keeps
<1>2. ASSUME NEW org \in DOMAIN StatusOf, NEW status \in StatusOf[org], masterWithoutSchool(org, status)
      PROVE  TypeOK' /\ RosterComplete' /\ Keeps(schools')
  <2>1. org \in Orgs /\ status \in {"active", "suspended"} BY RosterAssumption
  <2>2. Keeps(schools') BY <1>0, <1>2, <2>1, MarkingKeeps, SameKeeps DEF masterWithoutSchool
  <2>3. orgs' \in [Orgs -> {"absent", "active", "suspended"}] BY <1>0, <1>2, <2>1 DEF masterWithoutSchool, TypeOK
  <2>4. UNCHANGED <<classes, logins, learners>> BY <1>2 DEF masterWithoutSchool
  <2>5. QED BY <1>0, <2>2, <2>3, <2>4, TablesStep DEF TypeOK, Keeps
<1>3. ASSUME NEW org \in DOMAIN StatusOf, NEW status \in StatusOf[org], NEW named \in Owners,
             ownership(named, {org}, status)
      PROVE  TypeOK' /\ RosterComplete' /\ Keeps(schools')
  <2>1. status \in {"active", "suspended"} BY RosterAssumption
  <2>2. Keeps(schools') BY <1>0, <1>3, OwnersKept DEF ownership
  <2>3. orgs' \in [Orgs -> {"absent", "active", "suspended"}] BY <1>0, <1>3, <2>1 DEF ownership, upsertOrganisations, TypeOK
  <2>4. UNCHANGED <<classes, logins, learners>> BY <1>3 DEF ownership
  <2>5. QED BY <1>0, <2>2, <2>3, <2>4, TablesStep DEF TypeOK, Keeps
<1>4. QED BY <1>1, <1>2, <1>3, StudentsStep, TeachersStep DEF Push

(* The school verify looks for is in the table the command has written. *)
LEMMA VerifiedSchoolIsHere ==
    ASSUME NEW p, verify(p)
    PROVE  p.school \in Here(SchoolsAfter(p))
  BY DEF verify, LiveOf, Live

(* The administrator's login: a new one in the school, or none written. *)
LEMMA CommandHouses ==
    ASSUME IInv, NEW p, PlanFits(p), verify(p), Keeps(schools'), schools' = SchoolsAfter(p)
    PROVE  Housed(LoginsAfter(p))
<1>1. \A l \in Logins : logins[l] # None => logins[l].school \in Here(schools')
  BY DEF IInv, RosterComplete, Keeps
<1>2. CASE p.newLogin
  <2> DEFINE row == [school |-> p.school, role |-> "admin", off |-> FALSE, password |-> "here"]
  <2>1. row \in LoginRow /\ row # None BY HereFacts DEF LoginRow, PlanFits, IInv, TypeInv
  <2>2. row.school \in Here(schools') BY VerifiedSchoolIsHere
  <2>3. LoginsAfter(p) = [logins EXCEPT ![p.login] = row] BY <1>2 DEF LoginsAfter
  <2> HIDE DEF row
  <2>4. QED BY <1>1, <2>1, <2>2, <2>3 DEF Housed, IInv, TypeInv, TypeOK, PlanFits
<1>3. CASE ~p.newLogin
  <2>1. LoginsAfter(p) = logins BY <1>3 DEF LoginsAfter
  <2>2. QED BY <1>1, <2>1 DEF Housed, IInv, TypeInv, TypeOK
<1>4. QED BY <1>2, <1>3

(* The provisioning command keeps the types, the completeness of the roster and the schools. *)
LEMMA ApplyStep ==
    ASSUME IInv, Apply
    PROVE  TypeOK' /\ RosterComplete' /\ Keeps(schools')
<1>0. TypeOK BY DEF IInv, TypeInv
<1>1. PlanFits(plan) /\ verify(plan) BY DEF IInv, TypeInv, PlanOK, Apply
<1>2. schools' = SchoolsAfter(plan) /\ Keeps(schools') BY <1>0, <1>1, CommandKeeps DEF Apply
<1>3. Housed(logins') BY <1>1, <1>2, CommandHouses DEF Apply
<1>4. RosterComplete' BY <1>2, <1>3, LoginsStep DEF Apply
<1>5. classes' \in [Classes -> Schools \cup {None}]
  <2>1. plan.school \in Schools BY <1>1 DEF PlanFits
  <2>2. classes' = ClassesAfter(plan) BY DEF Apply
  <2>3. CASE plan.options.content BY <1>0, <2>1, <2>2, <2>3, ClassesTyped DEF ClassesAfter, rehomeContent
  <2>4. CASE ~plan.options.content BY <1>0, <2>1, <2>2, <2>4 DEF ClassesAfter, TypeOK
  <2>5. QED BY <2>3, <2>4
<1>6. orgs' \in [Orgs -> {"absent", "active", "suspended"}] BY <1>0, <1>1 DEF Apply, OrgsAfter, TypeOK, PlanFits
<1>7. learners' \in [Learners -> Learner \cup {None}] BY <1>0 DEF Apply, TypeOK
<1>8. TypeOK' BY <1>2, <1>3, <1>5, <1>6, <1>7 DEF TypeOK, Keeps, Housed
<1>9. QED BY <1>2, <1>4, <1>8

(* So does the reset command. *)
LEMMA ResetStep ==
    ASSUME IInv, ApplyReset
    PROVE  TypeOK' /\ RosterComplete' /\ Keeps(schools')
<1>0. TypeOK BY DEF IInv, TypeInv
<1>1. plan.login \in Logins /\ logins[plan.login] \in LoginRow
  BY <1>0 DEF IInv, TypeInv, PlanOK, PlanFits, ApplyReset, TypeOK
<1> DEFINE row == [logins[plan.login] EXCEPT !.password = "here"]
<1>2. row \in LoginRow /\ row.school = logins[plan.login].school BY <1>1 DEF LoginRow
<1>3. logins' = [logins EXCEPT ![plan.login] = row] BY DEF ApplyReset
<1>4. UNCHANGED <<orgs, schools, classes, learners>> BY DEF ApplyReset
<1>5. row # None BY <1>0, <1>2, HereFacts
<1>6. row.school \in Here(schools) BY <1>1, <1>2 DEF IInv, RosterComplete, ApplyReset
<1> HIDE DEF row
<1>7. \A l \in Logins : logins[l] # None => logins[l].school \in Here(schools) BY DEF IInv, RosterComplete
<1>8. Here(schools') = Here(schools) BY <1>4
<1>9. Housed(logins') BY <1>0, <1>1, <1>2, <1>3, <1>5, <1>6, <1>7, <1>8 DEF Housed, TypeOK
<1>10. Keeps(schools') BY <1>0, <1>4, SameKeeps
<1>11. QED BY <1>0, <1>4, <1>9, <1>10, LoginsStep DEF TypeOK, Housed

(* So does a step that writes no table. *)
LEMMA StutterStep ==
    ASSUME IInv, UNCHANGED tables
    PROVE  TypeOK' /\ RosterComplete' /\ Keeps(schools')
<1>1. UNCHANGED <<orgs, schools, classes, logins, learners>> BY DEF tables
<1>2. Keeps(schools') BY <1>1, SameKeeps DEF IInv, TypeInv
<1>3. QED BY <1>1, <1>2, TablesStep DEF TypeOK, IInv, TypeInv

(* Every step keeps the inductive invariant. *)
LEMMA ServerStep ==
    ASSUME IInv, [Next]_vars
    PROVE  IInv' /\ Keeps(schools')
<1>1. TypeOK' /\ RosterComplete' /\ Keeps(schools')
  <2>1. CASE Push /\ UNCHANGED plan BY <2>1, PushStep
  <2>2. CASE (\E o \in Options : Plan(o)) \/ (\E o \in Options : PlanReset(o)) \/ GiveUp
    BY <2>2, StutterStep DEF Plan, PlanReset, GiveUp
  <2>3. CASE UNCHANGED vars BY <2>3, StutterStep DEF vars
  <2>4. QED BY <2>1, <2>2, <2>3, ApplyStep, ResetStep DEF Next
<1>2. PlanOK'
  <2>1. CASE plan' = plan BY <1>1, <2>1, PlansFitOn DEF PlanOK, IInv, TypeInv
  <2>2. CASE plan' = None BY <2>2 DEF PlanOK
  <2>3. ASSUME NEW o \in Options, Plan(o) \/ PlanReset(o)
        PROVE  PlanOK'
    <3>1. schoolFits(Planned(o)) /\ plan' = Planned(o) BY <2>3 DEF Plan, PlanReset
    <3>2. PlanFits(Planned(o)) BY <3>1, PlannedFits DEF IInv, TypeInv
    <3>3. UNCHANGED schools BY <2>3 DEF Plan, PlanReset, tables
    <3>4. QED BY <3>1, <3>2, <3>3 DEF PlanOK, PlanFits, Here
  <2>4. QED BY <2>1, <2>2, <2>3 DEF Next, Apply, ApplyReset, GiveUp, vars
<1>3. QED BY <1>1, <1>2 DEF IInv, TypeInv

(* A fresh server satisfies it. *)
LEMMA InitInv == ServerInit => IInv
<1> SUFFICES ASSUME ServerInit PROVE IInv OBVIOUS
<1>1. PICK s \in DOMAIN Central, n \in Names :
        schools \in {[t \in Schools |-> None],
                     [t \in Schools |-> IF t = s THEN [name |-> n, org |-> NoOrg, deleted |-> FALSE] ELSE None]}
  BY DEF ServerInit, Init
<1>2. [name |-> n, org |-> NoOrg, deleted |-> FALSE] \in SchoolRow BY DEF SchoolRow
<1>3. schools \in [Schools -> SchoolRow \cup {None}] BY <1>1, <1>2
<1>4. QED BY <1>3 DEF ServerInit, Init, IInv, TypeInv, TypeOK, PlanOK, RosterComplete

(* It holds throughout. *)
LEMMA Invariance == Spec => []IInv
<1>1. IInv /\ [Next]_vars => IInv' BY ServerStep
<1>2. QED BY InitInv, <1>1, PTL DEF Spec

(***************************************************************************)
(* In whatever order schools, rosters, ownership and a provisioning        *)
(* command with a stale plan arrive, every login and every learner is in a *)
(* school that is here and every learner has a login and a curriculum list.*)
(***************************************************************************)
THEOREM NobodyIsNobodys == Spec => []RosterComplete
<1>1. IInv => RosterComplete BY DEF IInv
<1>2. QED BY Invariance, <1>1, PTL

(***************************************************************************)
(* Whatever the schools table holds, the check of a roster's header and    *)
(* the resolution of its rows agree: a row is written into that school.    *)
(***************************************************************************)
THEOREM HeaderHolds == Spec => []RosterStaysInItsSchool
<1>1. ASSUME TypeOK, NEW e \in Entries, NEW s \in Here(schools), studentsAccepted(e, s)
      PROVE  /\ importschoolusers(e.login, e.ref, e.role, e.off)[LoginWritten(e.login)].school = s
             /\ importstudents(e)[e.learner].school = s
  <2>1. s # None BY <1>1, HereFacts
  <2>2. withImportSchoolIds(schools, e.ref) = {s} /\ withImportSchoolIds(schools, e.own) = {s}
    BY <1>1, <2>1, HeaderIsMeant, EntryFacts DEF studentsAccepted
  <2>3. importschoolusers(e.login, e.ref, e.role, e.off)[LoginWritten(e.login)].school = s
    <3>1. (CHOOSE t \in withImportSchoolIds(schools, e.ref) : TRUE) = s BY <2>2
    <3> DEFINE row == [school |-> s, role |-> e.role, off |-> e.off, password |-> "central"]
    <3>2. importschoolusers(e.login, e.ref, e.role, e.off) = [logins EXCEPT ![LoginWritten(e.login)] = row]
      BY <3>1 DEF importschoolusers
    <3>3. LoginWritten(e.login) \in Logins BY <1>1, EntryFacts, LoginTarget
    <3>4. row.school = s OBVIOUS
    <3> HIDE DEF row
    <3>5. QED BY <1>1, <3>2, <3>3, <3>4 DEF TypeOK
  <2>4. (CHOOSE t \in withImportSchoolIds(schools, e.own) : TRUE) = s BY <2>2
  <2>5. importstudents(e)[e.learner].school = s
    BY <1>1, <2>4, EntryFacts DEF importstudents, TypeOK
  <2>6. QED BY <2>3, <2>5
<1>2. IInv => RosterStaysInItsSchool BY <1>1 DEF IInv, TypeInv, RosterStaysInItsSchool
<1>3. QED BY Invariance, <1>2, PTL

(***************************************************************************)
(* However the login moved since the command was planned, a password is    *)
(* handed out only of a login of the school the operator named.            *)
(***************************************************************************)
THEOREM ResetIsLocal == Spec => ResetStaysInSchool
<1>1. ASSUME IInv, [Next]_vars, Applied(TRUE), NEW l \in Logins, logins'[l] # logins[l]
      PROVE  logins[l].school = plan.school
  <2>1. ~(Push /\ UNCHANGED plan) /\ ~UNCHANGED vars BY <1>1 DEF Applied, vars
  <2>2. ~GiveUp /\ ~Apply BY <1>1 DEF Applied, GiveUp, Apply
  <2>3. ~(\E o \in Options : Plan(o)) /\ ~(\E o \in Options : PlanReset(o)) BY <1>1 DEF Applied, Plan, PlanReset
  <2>4. ApplyReset BY <1>1, <2>1, <2>2, <2>3 DEF Next
  <2>5. l = plan.login BY <1>1, <2>4 DEF ApplyReset, IInv, TypeInv, TypeOK
  <2>6. QED BY <2>4, <2>5 DEF ApplyReset
<1>2. IInv /\ [Next]_vars =>
        [Applied(TRUE) => \A l \in Logins : logins'[l] # logins[l] => logins[l].school = plan.school]_vars
  BY <1>1
<1>3. QED BY Invariance, <1>2, PTL DEF Spec, ResetStaysInSchool

-----------------------------------------------------------------------------
(* No push makes the school whose id was minted here: a plan to create it finds it absent. *)
MintedAbsent == plan # None /\ plan.action = "create" => schools[NewSchool] = None

Inv == IInv /\ MintedAbsent

(* A school is minted by an apply of its plan only, so the planned id is absent until then. *)
LEMMA MintedStep ==
    ASSUME Inv, [Next]_vars
    PROVE  MintedAbsent'
<1>0. TypeOK /\ Here(schools) = {s \in Schools : schools[s] # None} BY DEF Inv, IInv, TypeInv, Here
<1>1. ASSUME schools[NewSchool] = None, Push
      PROVE  schools'[NewSchool] = None
  <2>0. NewSchool \in Schools BY ProvisioningAssumption
  <2>1. ASSUME NEW s \in DOMAIN Central, NEW new \in SUBSET CentralClasses, NEW org \in Central[s],
               NEW name \in NamesOf[s], NEW status \in StatusOf[org], master(org, s, name, new, status)
        PROVE  schools'[NewSchool] = None
    <3>1. s \in Schools /\ org \in Orgs /\ name \in Names BY RosterAssumption
    <3>2. writeSchool(org, s, name)[NewSchool] = None
      <4>1. s # NewSchool BY ProvisioningAssumption
      <4>2. Twins(s, name) # {} => (CHOOSE t \in Twins(s, name) : TRUE) \in Twins(s, name) OBVIOUS
      <4>3. NewSchool \notin Twins(s, name) BY <1>1 DEF Twins, Here
      <4>4. QED BY <1>0, <1>1, <2>0, <4>1, <4>2, <4>3 DEF writeSchool, TypeOK
    <3>3. Keeps(writeSchool(org, s, name)) BY <1>0, <3>1, WritingKeeps
    <3>4. SameRows(masterSchools(org, s, name), writeSchool(org, s, name))
      BY <1>0, <3>3, MissingMarked DEF Keeps, masterSchools
    <3>5. QED BY <2>0, <2>1, <3>2, <3>4 DEF SameRows, master
  <2>2. ASSUME NEW org \in DOMAIN StatusOf, NEW status \in StatusOf[org], masterWithoutSchool(org, status)
        PROVE  schools'[NewSchool] = None
    <3>1. SameRows(markMissing(org, schools, {}), schools) BY <1>0, MissingMarked DEF TypeOK
    <3>2. QED BY <1>1, <2>0, <2>2, <3>1 DEF SameRows, masterWithoutSchool
  <2>3. ASSUME NEW org \in DOMAIN StatusOf, NEW status \in StatusOf[org], NEW named \in Owners,
               ownership(named, {org}, status)
        PROVE  schools'[NewSchool] = None
    BY <1>1, <2>0, <2>3 DEF ownership, applyTable, OwnedBy, Here
  <2>4. QED BY <1>1, <2>1, <2>2, <2>3 DEF Push, studentsimport, teachersimport
<1>2. CASE Push /\ UNCHANGED plan BY <1>1, <1>2 DEF MintedAbsent, Inv
<1>3. ASSUME NEW o \in Options, Plan(o) PROVE MintedAbsent'
  BY <1>3 DEF Plan, tables, MintedAbsent
<1>4. ASSUME NEW o \in Options, PlanReset(o) PROVE MintedAbsent'
  BY <1>4 DEF PlanReset, MintedAbsent
<1>5. CASE Apply \/ ApplyReset \/ GiveUp BY <1>5 DEF Apply, ApplyReset, GiveUp, MintedAbsent
<1>6. CASE UNCHANGED vars BY <1>6 DEF vars, tables, MintedAbsent, Inv
<1>7. QED BY <1>2, <1>3, <1>4, <1>5, <1>6 DEF Next

(* With the minted id, the invariant holds throughout. *)
LEMMA FullInvariance == Spec => []Inv
<1>1. ServerInit => MintedAbsent BY DEF ServerInit, MintedAbsent
<1>2. Inv /\ [Next]_vars => Inv' BY ServerStep, MintedStep DEF Inv
<1>3. ServerInit => Inv BY <1>1, InitInv DEF Inv
<1>4. QED BY <1>2, <1>3, PTL DEF Spec

-----------------------------------------------------------------------------
(* The schools with s written for org, all others as they were but for the mark of deletion of its own. *)
OwnRow(T, org, s, name) ==
    /\ T[s] = [name |-> name, org |-> org, deleted |-> FALSE]
    /\ \A t \in Schools \ {s} : T[t] # None <=> schools[t] # None
    /\ \A t \in Here(schools) \ {s} : T[t].org = schools[t].org /\ T[t].name = schools[t].name
    /\ \A t \in Here(schools) \ {s} : schools[t].org # org => T[t] = schools[t]

(* A payload is written into its own row when it is here, or no other row has its name. *)
LEMMA OwnRowWritten ==
    ASSUME TypeOK, NEW org \in Orgs, NEW s \in Schools, NEW name \in Names,
           s \in Here(schools) \/ Twins(s, name) = {}
    PROVE  OwnRow(masterSchools(org, s, name), org, s, name)
<1> DEFINE row == [name |-> name, org |-> org, deleted |-> FALSE]
           W == writeSchool(org, s, name)
           T == masterSchools(org, s, name)
<1>1. W = [schools EXCEPT ![s] = row] BY DEF writeSchool
<1>2. \A t \in Schools : W[t] = IF t = s THEN row ELSE schools[t] BY <1>1 DEF TypeOK
<1>3. Keeps(W) BY WritingKeeps
<1>4. T = markMissing(org, W, {s}) BY DEF masterSchools
<1> HIDE DEF row, W, T
<1>5. W \in [Schools -> SchoolRow \cup {None}] /\ Here(schools) \subseteq Here(W) BY <1>3 DEF Keeps
<1>6. /\ SameRows(T, W)
      /\ \A t \in Schools : schools[t] # None /\ schools[t].org # org => T[t] = W[t]
      /\ \A t \in {s} \cap Schools : T[t] = W[t]
  BY <1>4, <1>5, MissingMarked
<1>7. T[s] = row BY <1>2, <1>6
<1>8. \A t \in Schools \ {s} : W[t] = schools[t] BY <1>2
<1>9. \A t \in Schools \ {s} : T[t] # None <=> schools[t] # None BY <1>6, <1>8 DEF SameRows
<1>10. \A t \in Here(schools) \ {s} : T[t].org = schools[t].org /\ T[t].name = schools[t].name
  BY <1>6, <1>8 DEF SameRows, Here
<1>11. \A t \in Here(schools) \ {s} : schools[t].org # org => T[t] = schools[t] BY <1>6, <1>8 DEF Here
<1>12. QED BY <1>7, <1>9, <1>10, <1>11 DEF OwnRow, row, T

(* The schools of other organisations, after the command. *)
LEMMA OthersAlone ==
    ASSUME Inv, Apply, NEW s \in Here(schools), schools[s].org # plan.org
    PROVE  schools'[s] = schools[s]
<1>0. TypeOK /\ PlanFits(plan) BY DEF Inv, IInv, TypeInv, PlanOK, Apply
<1>1. schools' = SchoolsAfter(plan) BY DEF Apply
<1>2. plan.school \in Here(schools') /\ schools'[plan.school].org = plan.org
  BY <1>1 DEF Apply, verify, LiveOf, Live
<1>3. CASE plan.options.content
  <2> DEFINE org == plan.org
             name == plan.name
             t == plan.school
  <2>1. org \in Orgs /\ t \in Schools /\ name \in Names /\ s \in Schools BY <1>0 DEF PlanFits, Here
  <2>2. schools' = masterSchools(org, t, name) BY <1>1, <1>3 DEF SchoolsAfter, rehomeContent
  <2>3. ~refuseRowsOfOtherOrganisations(org, t)
    BY <1>3 DEF Apply, writeFails, rehomeContent, masterRefuses
  <2>4. t \in Here(schools) => schools[t].org = org BY <1>0, <2>3 DEF refuseRowsOfOtherOrganisations, PlanFits
  <2>5. t \in Here(schools) \/ Twins(t, name) = {}
    <3> SUFFICES ASSUME t \notin Here(schools), Twins(t, name) # {} PROVE FALSE OBVIOUS
    <3>1. PICK u \in Twins(t, name) : writeSchool(org, t, name) = [schools EXCEPT ![u] = [name |-> name, org |-> org, deleted |-> FALSE]]
      BY DEF writeSchool
    <3>2. u # t BY DEF Twins
    <3>3. writeSchool(org, t, name)[t] = None BY <1>0, <2>1, <3>1, <3>2 DEF Here, TypeOK
    <3>4. SameRows(schools', writeSchool(org, t, name))
      BY <1>0, <2>1, <2>2, WritingKeeps, MissingMarked DEF masterSchools, Keeps
    <3>5. QED BY <1>2, <2>1, <3>3, <3>4 DEF SameRows, Here
  <2>6. s # t BY <2>4
  <2> HIDE DEF org, name, t
  <2>7. OwnRow(schools', org, t, name) BY <1>0, <2>1, <2>2, <2>5, OwnRowWritten
  <2>8. QED BY <2>6, <2>7 DEF OwnRow, org
<1>4. CASE ~plan.options.content
  <2> DEFINE p == plan
             row   == [name |-> p.name, org |-> p.org, deleted |-> FALSE]
             named == CASE p.action = "create"  -> [schools EXCEPT ![p.school] = row]
                        [] p.action = "restore" -> [schools EXCEPT ![p.school].deleted = FALSE]
                        [] OTHER -> schools
  <2>1. schools' = IF p.others = {} THEN named
                   ELSE [u \in Schools |-> IF u \in LiveOf(p.org, named) \ {p.school}
                                           THEN [named[u] EXCEPT !.deleted = TRUE] ELSE named[u]]
    BY <1>1, <1>4 DEF SchoolsAfter
  <2>2. s # p.school => named[s] = schools[s] BY <1>0 DEF TypeOK, Here
  <2>3. CASE s # p.school
    <3>1. s \notin LiveOf(p.org, named) BY <2>2, <2>3 DEF LiveOf
    <3> HIDE DEF named
    <3>2. QED BY <2>1, <2>2, <2>3, <3>1 DEF Here
  <2>4. CASE s = p.school
    <3>1. p.action # "create"
      BY <2>4 DEF Inv, MintedAbsent, Apply, IInv, TypeInv, PlanOK, PlanFits, Here
    <3>2. schools'[s] = named[s]
      <4> HIDE DEF named
      <4> QED BY <2>1, <2>4 DEF Here
    <3>3. CASE p.action = "restore"
      <4>1. schools[s] \in SchoolRow BY <1>0, HereFacts
      <4>2. named = [schools EXCEPT ![s] = [schools[s] EXCEPT !.deleted = FALSE]] BY <2>4, <3>3
      <4>3. [schools[s] EXCEPT !.deleted = FALSE].org = schools[s].org BY <4>1 DEF SchoolRow
      <4> HIDE DEF named
      <4>4. named[s].org = schools[s].org BY <1>0, <4>2, <4>3 DEF TypeOK, Here
      <4>5. QED BY <1>2, <2>4, <3>2, <4>4
    <3>4. CASE p.action # "restore"
      <4>1. named = schools BY <3>1, <3>4
      <4>2. QED BY <3>2, <4>1
    <3>5. QED BY <3>3, <3>4
  <2>5. QED BY <2>3, <2>4
<1>5. QED BY <1>3, <1>4

(***************************************************************************)
(* Whatever was pushed between the plan and the write, a provisioned server*)
(* is whole: its organisation active, the named school its only live one,  *)
(* an administrator in it, and the rows of everybody else as they were.    *)
(***************************************************************************)
THEOREM ProvisioningIsWhole == Spec => ProvisionedIsWhole
<1> DEFINE Whole ==
        /\ orgs'[plan.org] = "active"
        /\ {s \in Schools : schools'[s] # None /\ schools'[s].org = plan.org /\ ~schools'[s].deleted} = {plan.school}
        /\ \E l \in Logins : logins'[l] # None /\ isAdminOf(plan.school, logins'[l])
        /\ \A l \in Logins : logins[l] # None => logins'[l] = logins[l]
        /\ \A c \in ClassesOf(plan.school) : classes'[c] = plan.school
        /\ \A s \in Here(schools) : schools[s].org # plan.org => schools'[s] = schools[s]
<1>1. ASSUME Inv, [Next]_vars, Applied(FALSE)
      PROVE  Whole
  <2>1. Apply
    <3>1. ~(Push /\ UNCHANGED plan) /\ ~UNCHANGED vars /\ ~GiveUp BY <1>1 DEF Applied, vars, GiveUp
    <3>2. ~ApplyReset BY <1>1 DEF Applied, ApplyReset
    <3>3. ~(\E o \in Options : Plan(o)) /\ ~(\E o \in Options : PlanReset(o)) BY <1>1 DEF Applied, Plan, PlanReset
    <3>4. QED BY <1>1, <3>1, <3>2, <3>3 DEF Next
  <2>2. verify(plan) /\ ~writeFails(plan) BY <2>1 DEF Apply
  <2>3. PlanFits(plan) /\ TypeOK BY <1>1, <2>1 DEF Inv, IInv, TypeInv, PlanOK, Apply
  <2>4. orgs'[plan.org] = "active" BY <2>1, <2>2 DEF Apply, verify
  <2>5. LiveOf(plan.org, schools') = {plan.school} BY <2>1, <2>2 DEF Apply, verify
  <2>6. {s \in Schools : schools'[s] # None /\ schools'[s].org = plan.org /\ ~schools'[s].deleted} = LiveOf(plan.org, schools')
    BY DEF LiveOf, Live, Here
  <2>7. logins'[plan.login] # None /\ isAdminOf(plan.school, logins'[plan.login])
    BY <2>1, <2>2 DEF Apply, verify, loginVerified
  <2>8. plan.login \in Logins BY <2>3 DEF PlanFits
  <2>9. ASSUME NEW l \in Logins, logins[l] # None
        PROVE  logins'[l] = logins[l]
    <3>1. CASE plan.newLogin
      <4>1. l # plan.login BY <2>2, <2>9, <3>1 DEF writeFails, LoginNamed
      <4>2. QED BY <2>1, <2>3, <3>1, <4>1 DEF Apply, LoginsAfter, TypeOK
    <3>2. CASE ~plan.newLogin BY <2>1, <3>2 DEF Apply, LoginsAfter
    <3>3. QED BY <3>1, <3>2
  <2>10. \A c \in ClassesOf(plan.school) : classes'[c] = plan.school BY <2>1, <2>2 DEF Apply, verify
  <2>11. \A s \in Here(schools) : schools[s].org # plan.org => schools'[s] = schools[s]
    BY <1>1, <2>1, OthersAlone
  <2>12. QED BY <2>4, <2>5, <2>6, <2>7, <2>8, <2>9, <2>10, <2>11
<1>2. Inv /\ [Next]_vars => [Applied(FALSE) => Whole]_vars BY <1>1
<1>3. QED BY FullInvariance, <1>2, PTL DEF Spec, ProvisionedIsWhole

-----------------------------------------------------------------------------
(* Central never gives two of its schools names the column takes for the same. *)
CentralNamesApart ==
    \A s, t \in DOMAIN Central : s # t => \A n \in NamesOf[s], m \in NamesOf[t] : Collate[n] # Collate[m]

(* The names a school may have: central's for its own schools, none of them for the one made here. *)
NameFits(s, n) == IF s \in DOMAIN Central THEN n \in NamesOf[s] ELSE s = NewSchool /\ ~CentralUses(n)

NamesFit ==
    /\ \A s \in Here(schools) : NameFits(s, schools[s].name)
    /\ plan # None => NameFits(plan.school, plan.name)

NamedInv == Inv /\ NamesFit

(* Where names are apart no payload meets the row of another school. *)
LEMMA NoTwins ==
    ASSUME CentralNamesApart, NamesFit, NEW s, NEW n, NameFits(s, n)
    PROVE  Twins(s, n) = {}
<1> SUFFICES ASSUME NEW t \in Here(schools) \ {s}, Collate[schools[t].name] = Collate[n] PROVE FALSE
  BY DEF Twins
<1>1. NameFits(t, schools[t].name) BY DEF NamesFit
<1>2. CASE t \in DOMAIN Central /\ s \in DOMAIN Central BY <1>1, <1>2 DEF NameFits, CentralNamesApart
<1>3. CASE t \in DOMAIN Central /\ s \notin DOMAIN Central BY <1>1, <1>3 DEF NameFits, CentralUses
<1>4. CASE t \notin DOMAIN Central /\ s \in DOMAIN Central
  <2>1. ~CentralUses(schools[t].name) BY <1>1, <1>4 DEF NameFits
  <2>2. n \in NamesOf[s] BY <1>4 DEF NameFits
  <2>3. QED BY <1>4, <2>1, <2>2 DEF CentralUses
<1>5. CASE t \notin DOMAIN Central /\ s \notin DOMAIN Central BY <1>1, <1>5 DEF NameFits
<1>6. QED BY <1>2, <1>3, <1>4, <1>5

(* What a step may do to the schools here: every owner stays, every name fits. *)
OwnersStay == \A s \in Here(schools) : schools[s].org # NoOrg => schools'[s].org = schools[s].org
NamesFitAfter == \A s \in Here(schools') : NameFits(s, schools'[s].name)

(* A payload of an organisation that may write the school. *)
LEMMA PayloadStep ==
    ASSUME CentralNamesApart, TypeOK, NamesFit, NEW org \in Orgs, NEW s \in Schools, NEW name \in Names, NameFits(s, name),
           ~refuseRowsOfOtherOrganisations(org, s), schools' = masterSchools(org, s, name)
    PROVE  OwnersStay /\ NamesFitAfter
<1>1. OwnRow(schools', org, s, name) BY NoTwins, OwnRowWritten
<1>2. schools'[s].org = org /\ schools'[s].name = name BY <1>1 DEF OwnRow
<1>3. s \in Here(schools) => schools[s].org \in {org, NoOrg} BY DEF refuseRowsOfOtherOrganisations
<1>4. OwnersStay BY <1>1, <1>2, <1>3 DEF OwnRow, OwnersStay
<1>5. ASSUME NEW t \in Here(schools') PROVE NameFits(t, schools'[t].name)
  <2>1. t \in Schools
    <3>1. Keeps(schools') BY MasterKeeps
    <3>2. QED BY <3>1 DEF Keeps, Here
  <2>2. CASE t = s BY <1>2, <2>2
  <2>3. CASE t # s
    <3>1. t \in Here(schools) BY <1>1, <2>1, <2>3, <1>5 DEF OwnRow, Here
    <3>2. QED BY <1>1, <2>3, <3>1 DEF OwnRow, NamesFit
  <2>4. QED BY <2>2, <2>3
<1>6. QED BY <1>4, <1>5 DEF NamesFitAfter

(* A step that only marks schools, or only restores them. *)
LEMMA MarkStep ==
    ASSUME NamesFit, SameRows(schools', schools), TypeOK
    PROVE  OwnersStay /\ NamesFitAfter
<1>1. Here(schools') = Here(schools) BY DEF SameRows, Here
<1>2. QED BY <1>1 DEF SameRows, OwnersStay, NamesFitAfter, NamesFit

(* A push finds its school by id or by a name that is its own: no owner moves. *)
LEMMA PushNames ==
    ASSUME CentralNamesApart, TypeOK, NamesFit, Push
    PROVE  OwnersStay /\ NamesFitAfter
<1>1. ASSUME NEW s \in DOMAIN Central, NEW new \in SUBSET CentralClasses, NEW org \in Central[s],
             NEW name \in NamesOf[s], NEW status \in StatusOf[org], master(org, s, name, new, status)
      PROVE  OwnersStay /\ NamesFitAfter
  <2>1. s \in Schools /\ org \in Orgs /\ name \in Names BY RosterAssumption
  <2>2. NameFits(s, name) BY DEF NameFits
  <2>3. QED BY <1>1, <2>1, <2>2, PayloadStep DEF master, masterRefuses
<1>2. ASSUME NEW org \in DOMAIN StatusOf, NEW status \in StatusOf[org], masterWithoutSchool(org, status)
      PROVE  OwnersStay /\ NamesFitAfter
  <2>1. SameRows(markMissing(org, schools, {}), schools) BY MissingMarked DEF TypeOK
  <2>2. QED BY <1>2, <2>1, MarkStep DEF masterWithoutSchool
<1>3. ASSUME NEW org \in DOMAIN StatusOf, NEW status \in StatusOf[org], NEW named \in Owners,
             ownership(named, {org}, status)
      PROVE  OwnersStay /\ NamesFitAfter
  <2>1. schools' = applyTable(named) BY <1>3 DEF ownership
  <2>2. \A s \in Here(schools) : schools[s] \in SchoolRow /\ s \in Schools BY HereFacts
  <2>3. \A s \in Here(schools) : schools'[s].name = schools[s].name
    BY <2>1, <2>2 DEF applyTable, SchoolRow
  <2>4. \A s \in Here(schools) : schools[s].org # NoOrg => schools'[s] = schools[s]
    BY <2>1, <2>2 DEF applyTable, OwnedBy
  <2>5. Here(schools') \subseteq Here(schools) BY <2>1 DEF applyTable, Here, OwnedBy
  <2>6. QED BY <2>3, <2>4, <2>5 DEF OwnersStay, NamesFitAfter, NamesFit
<1>4. CASE UNCHANGED schools BY <1>4 DEF OwnersStay, NamesFitAfter, NamesFit
<1>5. QED BY <1>1, <1>2, <1>3, <1>4 DEF Push, studentsimport, teachersimport

(* Marking comes after: it changes neither owners nor names. *)
LEMMA MarkAfter ==
    ASSUME NEW named \in [Schools -> SchoolRow \cup {None}], SameRows(schools', named),
           \A s \in Here(schools) : s \in Here(named) /\ (schools[s].org # NoOrg => named[s].org = schools[s].org),
           \A s \in Here(named) : NameFits(s, named[s].name)
    PROVE  OwnersStay /\ NamesFitAfter
<1>1. Here(schools') = Here(named) BY DEF SameRows, Here
<1>2. QED BY <1>1 DEF SameRows, OwnersStay, NamesFitAfter

(* The command finds its school by the name it was planned with: no owner moves. *)
LEMMA ApplyNames ==
    ASSUME CentralNamesApart, NamedInv, Apply
    PROVE  OwnersStay /\ NamesFitAfter
<1>0. TypeOK /\ PlanFits(plan) /\ NamesFit /\ NameFits(plan.school, plan.name)
  BY DEF NamedInv, Inv, IInv, TypeInv, PlanOK, NamesFit, Apply
<1>1. schools' = SchoolsAfter(plan) BY DEF Apply
<1>2. CASE plan.options.content
  <2>1. schools' = masterSchools(plan.org, plan.school, plan.name)
    BY <1>1, <1>2 DEF SchoolsAfter, rehomeContent
  <2>2. ~refuseRowsOfOtherOrganisations(plan.org, plan.school)
    BY <1>2 DEF Apply, writeFails, rehomeContent, masterRefuses
  <2>3. plan.org \in Orgs /\ plan.school \in Schools /\ plan.name \in Names BY <1>0 DEF PlanFits
  <2> DEFINE org == plan.org
             s == plan.school
             name == plan.name
  <2>4. /\ org \in Orgs /\ s \in Schools /\ name \in Names /\ NameFits(s, name)
        /\ ~refuseRowsOfOtherOrganisations(org, s) /\ schools' = masterSchools(org, s, name)
    BY <1>0, <2>1, <2>2, <2>3
  <2> HIDE DEF org, s, name
  <2>5. QED BY <1>0, <2>4, PayloadStep
<1>3. CASE ~plan.options.content
  <2> DEFINE p == plan
             row   == [name |-> p.name, org |-> p.org, deleted |-> FALSE]
             named == CASE p.action = "create"  -> [schools EXCEPT ![p.school] = row]
                        [] p.action = "restore" -> [schools EXCEPT ![p.school].deleted = FALSE]
                        [] OTHER -> schools
  <2>1. /\ named \in [Schools -> SchoolRow \cup {None}]
        /\ \A s \in Here(schools) : s \in Here(named) /\ (schools[s].org # NoOrg => named[s].org = schools[s].org)
        /\ \A s \in Here(named) : NameFits(s, named[s].name)
    <3>1. CASE p.action = "create"
      <4>1. p.school = NewSchool /\ schools[p.school] = None
        BY <1>0, <3>1 DEF NamedInv, Inv, MintedAbsent, Apply, PlanFits
      <4>2. row \in SchoolRow /\ row # None /\ row.name = p.name
        BY <1>0, HereFacts DEF SchoolRow, PlanFits
      <4>3. named = [schools EXCEPT ![p.school] = row] BY <3>1
      <4>4. p.school \in Schools BY <1>0 DEF PlanFits
      <4> HIDE DEF row, named
      <4>5. \A s \in Schools : named[s] = IF s = p.school THEN row ELSE schools[s] BY <1>0, <4>3 DEF TypeOK
      <4>6. named \in [Schools -> SchoolRow \cup {None}] BY <1>0, <4>2, <4>3 DEF TypeOK
      <4>7. \A s \in Here(schools) : s \in Schools /\ s # p.school BY <4>1 DEF Here
      <4>8. \A s \in Here(schools) : s \in Here(named) /\ named[s] = schools[s] BY <4>5, <4>7 DEF Here
      <4>9. \A s \in Here(named) : s = p.school \/ s \in Here(schools) BY <4>5 DEF Here
      <4>10. \A s \in Here(named) : NameFits(s, named[s].name)
        BY <1>0, <4>2, <4>4, <4>5, <4>8, <4>9 DEF NamesFit
      <4>11. QED BY <4>6, <4>8, <4>10
    <3>2. CASE p.action = "restore"
      <4> DEFINE new == [schools[p.school] EXCEPT !.deleted = FALSE]
      <4>1. p.school \in Here(schools) /\ schools[p.school] \in SchoolRow BY <1>0, <3>2, HereFacts DEF PlanFits
      <4>2. new \in SchoolRow /\ new.org = schools[p.school].org /\ new.name = schools[p.school].name BY <4>1 DEF SchoolRow
      <4>3. named = [schools EXCEPT ![p.school] = new] BY <3>2
      <4>4. new # None BY <1>0, <4>2, HereFacts
      <4> HIDE DEF new, named
      <4>5. \A s \in Schools : named[s] = IF s = p.school THEN new ELSE schools[s] BY <1>0, <4>3 DEF TypeOK
      <4>6. named \in [Schools -> SchoolRow \cup {None}] BY <1>0, <4>2, <4>3 DEF TypeOK
      <4>7. \A s \in Here(schools) : s \in Here(named) /\ named[s].org = schools[s].org /\ named[s].name = schools[s].name
        BY <4>2, <4>4, <4>5 DEF Here
      <4>8. Here(named) \subseteq Here(schools) BY <4>1, <4>5 DEF Here
      <4>9. QED BY <1>0, <4>6, <4>7, <4>8 DEF NamesFit
    <3>3. CASE p.action \notin {"create", "restore"}
      <4>1. named = schools BY <3>3
      <4>2. QED BY <1>0, <4>1 DEF TypeOK, NamesFit
    <3>4. QED BY <3>1, <3>2, <3>3
  <2>2. schools' = IF p.others = {} THEN named
                   ELSE [u \in Schools |-> IF u \in LiveOf(p.org, named) \ {p.school}
                                           THEN [named[u] EXCEPT !.deleted = TRUE] ELSE named[u]]
    BY <1>1, <1>3 DEF SchoolsAfter
  <2> HIDE DEF named
  <2>3. SameRows(schools', named)
    <3>1. CASE p.others = {} BY <2>1, <2>2, <3>1 DEF SameRows
    <3>2. CASE p.others # {}
      <4>1. LiveOf(p.org, named) \ {p.school} \subseteq Here(named) BY DEF LiveOf, Live
      <4>2. QED BY <1>0, <2>1, <2>2, <3>2, <4>1, MarkedRows
    <3>3. QED BY <3>1, <3>2
  <2>4. QED BY <2>1, <2>3, MarkAfter
<1>4. QED BY <1>2, <1>3

(* No step moves an owner, and names stay apart. *)
LEMMA NamedStep ==
    ASSUME NamesApart, CentralNamesApart, NamedInv, [Next]_vars
    PROVE  OwnersStay /\ NamedInv'
<1>1. Inv' BY ServerStep, MintedStep DEF NamedInv, Inv
<1>2. OwnersStay /\ NamesFitAfter
  <2>1. CASE Push /\ UNCHANGED plan BY <2>1, PushNames DEF NamedInv, Inv, IInv, TypeInv
  <2>2. CASE Apply BY <2>2, ApplyNames
  <2>3. CASE UNCHANGED schools BY <2>3 DEF OwnersStay, NamesFitAfter, NamesFit, NamedInv
  <2>4. QED BY <2>1, <2>2, <2>3 DEF Next, Plan, PlanReset, ApplyReset, GiveUp, vars, tables
<1>3. plan' # None => NameFits(plan'.school, plan'.name)
  <2>1. CASE plan' = plan BY <2>1 DEF NamedInv, NamesFit
  <2>2. ASSUME NEW o \in Options, Plan(o) \/ PlanReset(o)
        PROVE  NameFits(plan'.school, plan'.name)
    <3> DEFINE p == Planned(o)
    <3>1. plan' = p /\ schoolFits(p) BY <2>2 DEF Plan, PlanReset
    <3>2. PlanFits(p) BY <3>1, PlannedFits DEF NamedInv, Inv, IInv, TypeInv
    <3>3. p.name = (IF p.action = "create" THEN o.school ELSE schools[p.school].name) BY DEF Planned
    <3>4. p.action = "create" => ~CentralUses(o.school) BY <2>2 DEF Plan, PlanReset
    <3> HIDE DEF p
    <3>5. CASE p.action = "create"
      <4>1. p.school = NewSchool /\ NewSchool \notin DOMAIN Central BY <3>2, <3>5, ProvisioningAssumption DEF PlanFits
      <4>2. QED BY <3>1, <3>3, <3>4, <3>5, <4>1 DEF NameFits
    <3>6. CASE p.action # "create"
      <4>1. p.school \in Here(schools) BY <3>2, <3>6 DEF PlanFits
      <4>2. QED BY <3>1, <3>3, <3>6, <4>1 DEF NamedInv, NamesFit
    <3>7. QED BY <3>5, <3>6
  <2>3. QED BY <2>1, <2>2 DEF Next, Apply, ApplyReset, GiveUp, vars
<1>4. NamesFit' BY <1>2, <1>3 DEF NamesFit, NamesFitAfter, NameFits, Here, CentralUses
<1>5. QED BY <1>1, <1>2, <1>4 DEF NamedInv

(* A fresh server's names are apart. *)
LEMMA InitNames == ServerInit => NamesFit
<1> SUFFICES ASSUME ServerInit PROVE NamesFit OBVIOUS
<1>1. PICK s \in DOMAIN Central, n \in Names :
        /\ n \in NamesOf[s]
        /\ schools \in {[t \in Schools |-> None],
                        [t \in Schools |-> IF t = s THEN [name |-> n, org |-> NoOrg, deleted |-> FALSE] ELSE None]}
  BY DEF ServerInit, Init
<1>2. \A t \in Here(schools) : t = s /\ schools[t].name = n BY <1>1 DEF Here
<1>3. QED BY <1>1, <1>2 DEF NamesFit, NameFits, ServerInit

(***************************************************************************)
(* As long as neither central nor the operators give two schools one name, *)
(* no push and no provisioning, in any order, moves a school from one      *)
(* organisation to another.  (Where operators do, it moves: the run        *)
(* SchoolTakenOver.)                                                       *)
(***************************************************************************)
THEOREM OwnersNeverMove ==
    ASSUME NamesApart, CentralNamesApart
    PROVE  Spec => OwnershipNeverMoves
<1>1. NamedInv /\ [Next]_vars =>
        [\A s \in Here(schools) : schools[s].org # NoOrg => schools'[s].org = schools[s].org]_schools
  BY NamedStep DEF OwnersStay
<1>2. NamedInv /\ [Next]_vars => NamedInv' BY NamedStep
<1>3. ServerInit => NamedInv BY InitInv, InitNames DEF NamedInv, Inv, MintedAbsent, ServerInit
<1>4. QED BY <1>1, <1>2, <1>3, PTL DEF Spec, OwnershipNeverMoves

=============================================================================
