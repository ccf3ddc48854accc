---------------------------- MODULE ContentImport ----------------------------
(***************************************************************************)
(* PUT /import/master: one organisation's content is replaced by the       *)
(* payload, in one transaction (OrganisationContentImport), with the       *)
(* database's foreign keys switched off.                                   *)
(*                                                                         *)
(* The tables are reduced to their roles.  Roots are owned and outlive the *)
(* payload: curricula and schools.  Middles hang from a root (grades and   *)
(* baselines from a curriculum, standards from a school), leaves from a    *)
(* middle and may name a flat row (attach rows, learnings).  Flat rows are *)
(* owned and simply replaced: questions, documents, subjects.              *)
(***************************************************************************)
EXTENDS FiniteSets

CONSTANTS
    Orgs,        \* organisations
    Curricula, Schools,
    Middles, Leaves, Flat,
    Homes,       \* middle -> the roots its table hangs from
    Uses,        \* leaf -> the flat row it names
    None,        \* no row, no owner
    Imports,     \* requests
    Retirable,   \* the roots that a payload may carry marked isdeleted
    Serial       \* TRUE: an import starts when no other is in progress

Roots == Curricula \cup Schools
Nodes == Middles \cup Leaves
Owned == Roots \cup Flat

ASSUME ContentAssumption ==
    /\ None \notin Orgs \cup Roots \cup Nodes \cup Flat
    /\ Curricula \cap Schools = {} /\ Middles \cap Leaves = {} /\ Roots \cap Flat = {}
    /\ Roots \cap Nodes = {}
    /\ Homes \in [Middles -> SUBSET Roots] /\ Uses \in [Leaves -> Flat]
    /\ Retirable \subseteq Roots /\ Serial \in BOOLEAN

VARIABLES
    db,     \* the committed content tables
    imp,    \* the imports: idle, or open with a payload and a snapshot
    last    \* history: the payload of each organisation's latest committed import

vars == <<db, imp, last>>

(***************************************************************************)
(* A state of the tables: the owner of each owned row (None: no row), the  *)
(* roots marked isdeleted, the curricula each school lists, and the row    *)
(* above each child row (None: no row).  A payload has the same shape for  *)
(* the rows it carries, and the organisation in its header.                *)
(***************************************************************************)
Above == [Nodes -> Roots \cup Middles \cup {None}]
Tables == [owner : [Owned -> Orgs \cup {None}], hidden : SUBSET Roots,
           lists : [Schools -> SUBSET Curricula], above : Above]
Payload == [org : Orgs, rows : SUBSET Owned, hidden : SUBSET Retirable, lists : [Schools -> SUBSET Curricula],
            above : Above]

Empty == [owner |-> [o \in Owned |-> None], hidden |-> {},
          lists |-> [s \in Schools |-> {}], above |-> [n \in Nodes |-> None]]

Carried(p) == {n \in Nodes : p.above[n] # None}

(* Every parent and every other reference is a row of the same payload; lists may name anything. *)
validateOrganisationContent(p) ==
    /\ \A m \in Middles : p.above[m] # None => p.above[m] \in Homes[m] \cap p.rows
    /\ \A l \in Leaves : p.above[l] # None => p.above[l] \in Middles \cap Carried(p) /\ Uses[l] \in p.rows
    /\ \A s \in Schools \ p.rows : p.lists[s] = {}
    /\ p.hidden \subseteq p.rows

Payloads == {p \in Payload : validateOrganisationContent(p)}

-----------------------------------------------------------------------------
(* What the import decides from its snapshot before its first write. *)
OfAnother(snap, org, ids) == \E r \in ids : snap.owner[r] \notin {org, None}

(* A row of the payload is here under another organisation. *)
refuseRowsOfOtherOrganisations(snap, p) == OfAnother(snap, p.org, p.rows)

(* A list names a row of another organisation; any other entry that is not in the payload is dropped. *)
RefusedLists(snap, p) == \E s \in Schools : OfAnother(snap, p.org, p.lists[s] \ p.rows)

trimLists(p) == [p EXCEPT !.lists = [s \in Schools |-> p.lists[s] \cap p.rows]]

idsOwnedBy(snap, org) == {r \in Roots : snap.owner[r] = org}

(* The curricula and schools of the organisation that the payload no longer has, and what hangs from them. *)
AbsentRoots(snap, p) == idsOwnedBy(snap, p.org) \ p.rows
AbsentMiddles(snap, p) == {m \in Middles : snap.above[m] \in AbsentRoots(snap, p)}

(* Only the middles the payload carries: those it has dropped keep their leaves. *)
chainOf_carried(snap, p) == Middles \cap Carried(p)

(* The middles whose leaves are replaced: those under the payload's roots, and those it carries. *)
chainOf(snap, p) == {m \in Middles : snap.above[m] \in p.rows \/ m \in Carried(p)}

-----------------------------------------------------------------------------
(* The children of all of the organisation's roots. *)
Deleted_all(now, snap, p) ==
    {m \in Middles : now.above[m] \in p.rows \cup AbsentRoots(snap, p)}
        \cup {l \in Leaves : now.above[l] \in chainOf(snap, p) \cup AbsentMiddles(snap, p)}

(* deleteCurriculumChildren and the standards: found in the snapshot, deleted in the tables as they are now. *)
Deleted(now, snap, p) ==
    {m \in Middles : now.above[m] \in p.rows} \cup {l \in Leaves : now.above[l] \in chainOf(snap, p)}

(* A carried row is taken over wherever it is. *)
refuseStrayChildren_off(now, snap, p) == FALSE

(* A carried row is still here, and not under an absent root of the organisation: it is somebody else's. *)
refuseStrayChildren(now, snap, p) ==
    \E n \in Carried(p) \ Deleted(now, snap, p) :
        snap.above[n] \notin AbsentRoots(snap, p) \cup AbsentMiddles(snap, p) \cup {None}

(* Flat rows left out by the payload are kept. *)
Replaced_merge(now, p) == [r \in Owned |-> IF r \in p.rows THEN p.org ELSE now.owner[r]]

(* The organisation's flat rows all go, the payload's rows come with their owner. *)
Replaced(now, p) ==
    [r \in Owned |-> IF r \in p.rows THEN p.org
                     ELSE IF r \in Flat /\ now.owner[r] = p.org THEN None ELSE now.owner[r]]

(* The roots the payload no longer has are kept and marked; those it has are marked as it says. *)
markMissing(now, snap, p) ==
    (now.hidden \ p.rows) \cup p.hidden \cup {r \in AbsentRoots(snap, p) : now.owner[r] = p.org}

(* The tables after the import: deletes, then the payload's rows by id, then the marks. *)
Written(now, snap, p) ==
    [owner  |-> Replaced(now, p),
     hidden |-> markMissing(now, snap, p),
     lists  |-> [s \in Schools |-> IF s \in p.rows THEN p.lists[s] ELSE now.lists[s]],
     above  |-> [n \in Nodes |-> IF n \in Carried(p) THEN p.above[n]
                                 ELSE IF n \in Deleted(now, snap, p) THEN None ELSE now.above[n]]]

-----------------------------------------------------------------------------
Idle == [open |-> FALSE]

NoImport == [org |-> None]

Init ==
    /\ db = Empty
    /\ imp = [i \in Imports |-> Idle]
    /\ last = [o \in Orgs |-> NoImport]

(* The transaction's first read fixes what all its reads see; the checks before the first write. *)
Open(i) ==
    /\ ~imp[i].open
    /\ Serial => \A j \in Imports : ~imp[j].open
    /\ \E p \in Payloads :
         /\ ~refuseRowsOfOtherOrganisations(db, p) /\ ~RefusedLists(db, p)
         /\ imp' = [imp EXCEPT ![i] = [open |-> TRUE, payload |-> trimLists(p), snap |-> db]]
    /\ UNCHANGED <<db, last>>

(* The writes and the commit, from the upsert of the organisation's row (which another import of it waits for) on. *)
Apply(i) ==
    /\ imp[i].open
    /\ LET p == imp[i].payload
           s == imp[i].snap
       IN  /\ ~refuseStrayChildren(db, s, p)
           /\ db' = Written(db, s, p)
           /\ last' = [last EXCEPT ![p.org] = p]
    /\ imp' = [imp EXCEPT ![i] = Idle]

(* Refused because of a stray row, failed, or lost with the server: rolled back. *)
Rollback(i) ==
    /\ imp[i].open
    /\ imp' = [imp EXCEPT ![i] = Idle]
    /\ UNCHANGED <<db, last>>

Next == \E i \in Imports : Open(i) \/ Apply(i) \/ Rollback(i)

Spec == Init /\ [][Next]_vars

-----------------------------------------------------------------------------
(* Types of the tables, the imports and the history; every row hangs from a row of its parent table. *)
TypeOK ==
    /\ db \in Tables
    /\ \A m \in Middles : db.above[m] \in Homes[m] \cup {None}
    /\ \A l \in Leaves : db.above[l] \in Middles \cup {None}
    /\ imp \in [Imports -> [open : {TRUE}, payload : Payload, snap : Tables] \cup {Idle}]
    /\ last \in [Orgs -> Payload \cup {NoImport}]

(* The root a node hangs from, directly or through its middle. *)
RootOf(t, n) == IF n \in Leaves /\ t.above[n] # None THEN t.above[t.above[n]] ELSE t.above[n]

Under(t, rs) == {n \in Nodes : RootOf(t, n) \in rs}

(* What an organisation has: its rows, and where its nodes hang. *)
Content(t, o) ==
    LET mine == {r \in Owned : t.owner[r] = o}
    IN  [rows |-> mine, hidden |-> t.hidden \cap mine,
         lists |-> [s \in Schools \cap mine |-> t.lists[s]],
         above |-> [n \in Under(t, mine) |-> t.above[n]]]

(***************************************************************************)
(* An import touches no other organisation's content, not even when its    *)
(* payload carries rows with ids that are another's, or moves rows between *)
(* its own curricula.                                                      *)
(***************************************************************************)
OthersUntouched ==
    [][\A o \in Orgs : (\A i \in Imports : imp[i].open => imp[i].payload.org # o)
                            => Content(db', o) = Content(db, o)]_vars

(***************************************************************************)
(* What learners can see of an organisation is exactly its latest import,  *)
(* whatever it and others imported before and since: the live curricula    *)
(* and schools, everything under them, the questions and documents, and    *)
(* nothing that an earlier payload left behind.                            *)
(***************************************************************************)
LatestImportIsSeen ==
    \A o \in Orgs : last[o] # NoImport =>
        LET p    == last[o]
            live == {r \in Roots : db.owner[r] = o} \ db.hidden
        IN  /\ {r \in Owned : db.owner[r] = o} \ db.hidden = p.rows \ p.hidden
            /\ \A s \in live \cap Schools : db.lists[s] = p.lists[s]
            /\ Under(db, live) = Carried(p) \ Under(p, p.hidden)
            /\ \A n \in Carried(p) : db.above[n] = p.above[n]

(***************************************************************************)
(* Although the foreign keys are off, no row is left hanging from a row    *)
(* that is gone, hidden content included, and a school lists only          *)
(* curricula of its own organisation, also when the payload's list names   *)
(* others.                                                                 *)
(***************************************************************************)
ReferencesHold ==
    /\ \A n \in Nodes : db.above[n] # None =>
          IF db.above[n] \in Roots THEN db.owner[db.above[n]] # None ELSE db.above[db.above[n]] # None
    /\ \A s \in Schools : \A c \in db.lists[s] : db.owner[c] = db.owner[s]

(***************************************************************************)
(* A curriculum or school the payload no longer has keeps its rows, so     *)
(* learners' progress still points somewhere, except for what the payload  *)
(* takes over to another place.                                            *)
(***************************************************************************)
AbsentKeepsItsRows ==
    [][\A i \in Imports : imp[i].open /\ db' # db =>
        LET p == imp[i].payload
        IN  \A n \in Under(db, AbsentRoots(db, p)) :
                n \notin Carried(p) /\ db.above[n] \notin Carried(p) => db'.above[n] = db.above[n]]_vars

=============================================================================
