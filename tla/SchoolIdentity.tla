--------------------------- MODULE SchoolIdentity ---------------------------
(***************************************************************************)
(* What a school reference means (school-identity.ts): an id, a name, both *)
(* or neither, resolved against the schools table as it is.  The table is  *)
(* the argument schools: a function from school ids to rows, None where    *)
(* there is no row.                                                        *)
(***************************************************************************)
EXTENDS Naturals, FiniteSets

CONSTANTS
    Schools,    \* school ids
    Names,      \* school names, as text
    Norm,       \* each name trimmed, in normal form and lower case
    Collate,    \* each name as the column's collation compares it, which tells fewer names apart
    None        \* no row; nothing given

ASSUME NamesAssumption ==
    /\ \A n, m \in Names : Norm[n] = Norm[m] => Collate[n] = Collate[m]
    /\ None \notin Schools \cup Names /\ IsFiniteSet(Schools)

Refs == [id : Schools \cup {None}, name : Names \cup {None}]

Here(schools) == {s \in Schools : schools[s] # None}
Live(schools) == {s \in Here(schools) : ~schools[s].deleted}

normaliseSchoolName(name) == Norm[name]

isSameSchoolName(stored, given) == normaliseSchoolName(stored) = normaliseSchoolName(given)

(* The database's own filter is the wider collation; the text rule decides. *)
sameNameCandidates(schools, name) ==
    {s \in Here(schools) : isSameSchoolName(schools[s].name, name)}

(***************************************************************************)
(* The schools a name means: none, one, or more than one, which every      *)
(* caller refuses.  A writer (strict) takes no live one for the one meant. *)
(***************************************************************************)
findSchoolIdByName(schools, name, strict) ==
    LET same == IF name = None THEN {} ELSE sameNameCandidates(schools, name)
    IN  IF Cardinality(same) > 1 /\ ~strict THEN same \cap Live(schools) ELSE same

(***************************************************************************)
(* The school a roster row is written with: a known id, whose name must be *)
(* the one given; else the school the name means.  Anything but one school *)
(* (no school, an ambiguous name, an id and a name that disagree) refuses  *)
(* the whole write, which is withRequiredSchoolIds.                        *)
(***************************************************************************)
withImportSchoolIds(schools, ref) ==
    IF ref.id \in Here(schools)
    THEN {s \in {ref.id} : ref.name # None => isSameSchoolName(schools[s].name, ref.name)}
    ELSE findSchoolIdByName(schools, ref.name, TRUE)

withRequiredSchoolIds(schools, ref) == Cardinality(withImportSchoolIds(schools, ref)) = 1

(* A row of a roster that names its school: the id it declares, else its name. *)
assertRosterBelongsToSchool_ids(schools, ref, wanted) == ref.id \in {None, wanted}

assertRosterBelongsToSchool(schools, ref, wanted) ==
    IF ref.id # None THEN ref.id = wanted
    ELSE findSchoolIdByName(schools, ref.name, TRUE) = {wanted}

=============================================================================
