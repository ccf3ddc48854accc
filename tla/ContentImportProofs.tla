------------------------ MODULE ContentImportProofs ------------------------
(***************************************************************************)
(* For any content, any organisations and any number of imports, one after *)
(* the other (Serial): what learners see is the latest import, nothing is  *)
(* left hanging, and no other organisation is touched.  The import decides *)
(* from its snapshot, and in turn the snapshot is the database itself.     *)
(***************************************************************************)
EXTENDS ContentImport, TLAPS

(* The tables t: every row hangs from a row of its parent table. *)
Shape(t) ==
    /\ t \in Tables
    /\ \A m \in Middles : t.above[m] \in Homes[m] \cup {None}
    /\ \A l \in Leaves : t.above[l] \in Middles \cup {None}

(* Nothing of t hangs from a row that is gone, and a school that is not there lists nothing. *)
Whole(t) ==
    /\ \A m \in Middles : t.above[m] # None => t.owner[t.above[m]] # None
    /\ \A l \in Leaves : t.above[l] # None => t.above[t.above[l]] # None
    /\ \A s \in Schools : \A c \in t.lists[s] : t.owner[c] = t.owner[s] /\ t.owner[s] # None

(* The payload p has passed the checks against t. *)
Checked(t, p) ==
    /\ p \in Payloads
    /\ \A r \in p.rows : t.owner[r] \in {p.org, None}
    /\ \A s \in Schools : p.lists[s] \subseteq p.rows

(* Of organisation o, t has what the payload p carried, and hidden leftovers of earlier ones. *)
Seen(t, o, p) ==
    /\ p \in Payloads
    /\ \A r \in p.rows : t.owner[r] = o /\ (r \in t.hidden <=> r \in p.hidden)
    /\ \A r \in Owned : t.owner[r] = o /\ r \notin p.rows => r \in t.hidden
    /\ \A s \in Schools \cap p.rows : t.lists[s] = p.lists[s]
    /\ \A n \in Carried(p) : t.above[n] = p.above[n]
    /\ \A m \in Middles \ Carried(p) : t.above[m] \notin p.rows
    /\ \A l \in Leaves \ Carried(p) : t.above[l] # None => t.above[t.above[l]] \notin p.rows

InTurn ==
    \A i \in Imports : imp[i].open =>
        /\ imp[i].snap = db /\ Checked(db, imp[i].payload)
        /\ \A j \in Imports : imp[j].open => j = i

IInv ==
    /\ TypeOK /\ Whole(db) /\ InTurn
    /\ \A o \in Orgs : IF last[o] = NoImport THEN \A r \in Owned : db.owner[r] # o ELSE Seen(db, o, last[o])

-----------------------------------------------------------------------------
(* w has the rows of the payload p, the rows of t that p leaves alone, and the marks and lists of both. *)
RowsWritten(t, p, w) ==
    /\ w.owner \in [Owned -> Orgs \cup {None}] /\ w.lists \in [Schools -> SUBSET Curricula]
    /\ \A r \in p.rows : w.owner[r] = p.org
    /\ \A r \in Owned \ p.rows : w.owner[r] = IF r \in Flat /\ t.owner[r] = p.org THEN None ELSE t.owner[r]
    /\ w.hidden = (t.hidden \ p.rows) \cup p.hidden \cup {r \in Roots \ p.rows : t.owner[r] = p.org}
    /\ \A s \in Schools : w.lists[s] = IF s \in p.rows THEN p.lists[s] ELSE t.lists[s]

(* The children the payload carries hang where it says; those of its roots and middles that it does not are gone. *)
ChildrenWritten(t, p, w) ==
    /\ w.above = [n \in Nodes |-> w.above[n]]
    /\ \A n \in Carried(p) : w.above[n] = p.above[n]
    /\ \A m \in Middles \ Carried(p) : w.above[m] = IF t.above[m] \in p.rows THEN None ELSE t.above[m]
    /\ \A l \in Leaves \ Carried(p) :
          w.above[l] = IF t.above[l] # None /\ (t.above[l] \in Carried(p) \/ t.above[t.above[l]] \in p.rows)
                       THEN None ELSE t.above[l]

(* What a valid payload is made of. *)
LEMMA PayloadFacts ==
    ASSUME NEW p \in Payloads
    PROVE  /\ p \in Payload /\ p.org \in Orgs /\ p.rows \subseteq Owned /\ p.hidden \subseteq p.rows \cap Roots
           /\ \A m \in Middles \cap Carried(p) : p.above[m] \in Homes[m] \cap p.rows
           /\ \A l \in Leaves \cap Carried(p) : p.above[l] \in Middles \cap Carried(p)
           /\ Carried(p) \subseteq Nodes
<1>1. p \in Payload /\ validateOrganisationContent(p) BY DEF Payloads
<1>2. p.org \in Orgs /\ p.rows \subseteq Owned /\ p.hidden \subseteq Retirable BY <1>1 DEF Payload
<1>3. QED BY <1>1, <1>2, ContentAssumption DEF validateOrganisationContent, Carried, Nodes

(* An accepted payload leaves every row with the owner it should have, its own or the one before. *)
LEMMA WrittenRows ==
    ASSUME NEW t, Shape(t), NEW p, Checked(t, p)
    PROVE  RowsWritten(t, p, Written(t, t, p))
<1> DEFINE w == Written(t, t, p)
<1>1. /\ t.owner \in [Owned -> Orgs \cup {None}] /\ t.lists \in [Schools -> SUBSET Curricula]
      /\ p.lists \in [Schools -> SUBSET Curricula] /\ p.org \in Orgs /\ p.rows \subseteq Owned
  BY PayloadFacts DEF Shape, Tables, Checked, Payload
<1>2. /\ w.owner = Replaced(t, p) /\ w.hidden = markMissing(t, t, p)
      /\ w.lists = [s \in Schools |-> IF s \in p.rows THEN p.lists[s] ELSE t.lists[s]]
  BY DEF Written
<1>3. w.hidden = (t.hidden \ p.rows) \cup p.hidden \cup {r \in Roots \ p.rows : t.owner[r] = p.org}
  BY <1>2 DEF markMissing, AbsentRoots, idsOwnedBy
<1>4. QED BY <1>1, <1>2, <1>3 DEF Replaced, RowsWritten

(* An accepted payload leaves every curriculum node under a parent that is there. *)
LEMMA WrittenChildren ==
    ASSUME NEW t, Shape(t), NEW p, Checked(t, p)
    PROVE  ChildrenWritten(t, p, Written(t, t, p))
<1> DEFINE w == Written(t, t, p)
<1>1. w.above = [n \in Nodes |-> IF n \in Carried(p) THEN p.above[n]
                                ELSE IF n \in Deleted(t, t, p) THEN None ELSE t.above[n]]
  BY DEF Written
<1>2. Carried(p) \subseteq Nodes BY DEF Carried
<1>3. \A m \in Middles : m \in Deleted(t, t, p) <=> t.above[m] \in p.rows BY ContentAssumption DEF Deleted
<1>4. ASSUME NEW l \in Leaves
      PROVE  l \in Deleted(t, t, p) <=>
                t.above[l] # None /\ (t.above[l] \in Carried(p) \/ t.above[t.above[l]] \in p.rows)
  <2>1. t.above[l] \in Middles \cup {None} /\ None \notin Middles /\ l \notin Middles
    BY ContentAssumption DEF Shape, Nodes
  <2>2. l \in Deleted(t, t, p) <=> t.above[l] \in chainOf(t, p) BY <2>1 DEF Deleted
  <2>3. QED BY <2>1, <2>2 DEF chainOf
<1>5. QED BY <1>1, <1>2, <1>3, <1>4 DEF Nodes, ChildrenWritten

(* The tables keep their shape. *)
LEMMA WrittenShape ==
    ASSUME NEW t, Shape(t), NEW p, Checked(t, p)
    PROVE  Shape(Written(t, t, p))
<1> DEFINE w == Written(t, t, p)
<1>0. p \in Payloads /\ RowsWritten(t, p, w) /\ ChildrenWritten(t, p, w)
  BY WrittenRows, WrittenChildren DEF Checked
<1>1. w = [owner |-> w.owner, hidden |-> w.hidden, lists |-> w.lists, above |-> w.above] BY DEF Written
<1> HIDE DEF w
<1>2. ASSUME NEW m \in Middles PROVE w.above[m] \in Homes[m] \cup {None}
  <2>1. t.above[m] \in Homes[m] \cup {None} BY DEF Shape
  <2>2. m \in Carried(p) => w.above[m] = p.above[m] /\ p.above[m] \in Homes[m]
    BY <1>0, PayloadFacts DEF ChildrenWritten
  <2>3. m \notin Carried(p) => w.above[m] \in {None, t.above[m]} BY <1>0 DEF ChildrenWritten
  <2>4. QED BY <2>1, <2>2, <2>3
<1>3. ASSUME NEW l \in Leaves PROVE w.above[l] \in Middles \cup {None}
  <2>1. t.above[l] \in Middles \cup {None} BY DEF Shape
  <2>2. l \in Carried(p) => w.above[l] = p.above[l] /\ p.above[l] \in Middles
    BY <1>0, PayloadFacts DEF ChildrenWritten
  <2>3. l \notin Carried(p) => w.above[l] \in {None, t.above[l]} BY <1>0 DEF ChildrenWritten
  <2>4. QED BY <2>1, <2>2, <2>3
<1>4. w.above \in Above
  <2>1. \A m \in Middles : Homes[m] \subseteq Roots BY ContentAssumption
  <2>2. \A n \in Nodes : w.above[n] \in Roots \cup Middles \cup {None} BY <1>2, <1>3, <2>1 DEF Nodes
  <2>3. QED BY <1>0, <2>2 DEF Above, ChildrenWritten
<1>5. w.hidden \subseteq Roots BY <1>0, PayloadFacts DEF RowsWritten, Shape, Tables
<1>6. w \in Tables BY <1>0, <1>1, <1>4, <1>5 DEF RowsWritten, Tables
<1>7. QED BY <1>2, <1>3, <1>6 DEF Shape, w

-----------------------------------------------------------------------------
(* Where a node hangs, by its kind. *)
LEMMA WhereItHangs ==
    ASSUME NEW t, Shape(t)
    PROVE  /\ \A m \in Middles : RootOf(t, m) = t.above[m] /\ t.above[m] \in Roots \cup {None}
           /\ \A l \in Leaves : /\ t.above[l] \in Middles \cup {None}
                               /\ RootOf(t, l) = IF t.above[l] # None THEN t.above[t.above[l]] ELSE None
           /\ \A n \in Nodes : RootOf(t, n) \in Roots \cup {None}
           /\ None \notin Nodes /\ None \notin Roots
<1>1. Middles \cap Leaves = {} /\ None \notin Nodes /\ None \notin Roots BY ContentAssumption
<1>2. \A m \in Middles : t.above[m] \in Roots \cup {None} BY ContentAssumption DEF Shape
<1>3. \A l \in Leaves : t.above[l] \in Middles \cup {None} BY DEF Shape
<1>4. \A m \in Middles : RootOf(t, m) = t.above[m] BY <1>1 DEF RootOf
<1>5. \A l \in Leaves : RootOf(t, l) = IF t.above[l] # None THEN t.above[t.above[l]] ELSE None BY DEF RootOf
<1>6. \A n \in Nodes : RootOf(t, n) \in Roots \cup {None} BY <1>2, <1>3, <1>4, <1>5 DEF Nodes
<1>7. QED BY <1>1, <1>2, <1>3, <1>4, <1>5, <1>6

(* A carried node that is here already hangs under a root of the same organisation, or under nobody's. *)
LEMMA NotStray ==
    ASSUME NEW t, Shape(t), NEW p, Checked(t, p), ~refuseStrayChildren(t, t, p), NEW n \in Carried(p)
    PROVE  RootOf(t, n) # None => t.owner[RootOf(t, n)] \in {p.org, None}
<1>1. \A k \in Carried(p) : k \in Deleted(t, t, p) \/ t.above[k] \in AbsentRoots(t, p) \cup AbsentMiddles(t, p) \cup {None}
  BY DEF refuseStrayChildren
<1>2. \A r \in p.rows : t.owner[r] \in {p.org, None} BY DEF Checked
<1>3. \A r \in AbsentRoots(t, p) : t.owner[r] = p.org BY DEF AbsentRoots, idsOwnedBy
<1>4. ASSUME NEW m \in Middles \cap Carried(p) PROVE t.above[m] # None => t.owner[t.above[m]] \in {p.org, None}
  <2>1. t.above[m] \notin AbsentMiddles(t, p)
    <3>1. t.above[m] \notin Middles BY WhereItHangs, ContentAssumption DEF Nodes
    <3>2. QED BY <3>1 DEF AbsentMiddles
  <2>2. m \in Deleted(t, t, p) => t.above[m] \in p.rows BY ContentAssumption DEF Deleted
  <2>3. QED BY <1>1, <1>2, <1>3, <2>1, <2>2
<1>5. CASE n \in Middles BY <1>4, <1>5, WhereItHangs
<1>6. CASE n \in Leaves
  <2>1. CASE t.above[n] = None BY <1>6, <2>1, WhereItHangs
  <2>2. CASE t.above[n] # None
    <3>1. t.above[n] \in Middles /\ RootOf(t, n) = t.above[t.above[n]] BY <1>6, <2>2, WhereItHangs
    <3>2. t.above[n] \notin AbsentRoots(t, p) BY <3>1, ContentAssumption DEF AbsentRoots, idsOwnedBy, Nodes
    <3>3. n \in Deleted(t, t, p) => t.above[n] \in chainOf(t, p) BY <1>6, ContentAssumption DEF Deleted
    <3>4. CASE t.above[n] \in chainOf(t, p) BY <1>2, <1>4, <3>1, <3>4 DEF chainOf
    <3>5. CASE t.above[n] \in AbsentMiddles(t, p) BY <1>3, <3>1, <3>5 DEF AbsentMiddles
    <3>6. QED BY <1>1, <2>2, <3>2, <3>3, <3>4, <3>5
  <2>3. QED BY <2>1, <2>2
<1>7. QED BY <1>5, <1>6 DEF Carried, Nodes

(* What the organisation's tables hold afterwards. *)
LEMMA WholeStays ==
    ASSUME NEW t, Shape(t), Whole(t), NEW p, Checked(t, p)
    PROVE  Whole(Written(t, t, p))
<1> DEFINE w == Written(t, t, p)
<1>0. p \in Payloads /\ RowsWritten(t, p, w) /\ ChildrenWritten(t, p, w)
  BY WrittenRows, WrittenChildren DEF Checked
<1>p. p.org # None /\ (\A r \in p.rows : t.owner[r] \in {p.org, None})
  BY <1>0, PayloadFacts, ContentAssumption DEF Checked
<1> HIDE DEF w
<1>1. \A r \in Roots : w.owner[r] = IF r \in p.rows THEN p.org ELSE t.owner[r]
  BY <1>0, ContentAssumption DEF RowsWritten, Owned
<1>2. ASSUME NEW m \in Middles, w.above[m] # None PROVE w.owner[w.above[m]] # None
  <2>1. CASE m \in Carried(p)
    <3>1. w.above[m] \in p.rows BY <1>0, <2>1, PayloadFacts DEF ChildrenWritten
    <3>2. QED BY <1>0, <1>p, <3>1 DEF RowsWritten
  <2>2. CASE m \notin Carried(p)
    <3>1. w.above[m] = t.above[m] /\ t.above[m] \in Roots BY <1>0, <1>2, <2>2, WhereItHangs DEF ChildrenWritten
    <3>2. QED BY <1>1, <1>2, <1>p, <3>1 DEF Whole
  <2>3. QED BY <2>1, <2>2
<1>3. ASSUME NEW l \in Leaves, w.above[l] # None PROVE w.above[w.above[l]] # None
  <2>1. CASE l \in Carried(p)
    <3>1. w.above[l] = p.above[l] /\ p.above[l] \in Carried(p) BY <1>0, <2>1, PayloadFacts DEF ChildrenWritten
    <3>2. QED BY <1>0, <3>1 DEF ChildrenWritten, Carried
  <2>2. CASE l \notin Carried(p)
    <3>1. /\ w.above[l] = t.above[l] /\ t.above[l] \in Middles
          /\ t.above[l] \notin Carried(p) /\ t.above[t.above[l]] \notin p.rows
      BY <1>0, <1>3, <2>2, WhereItHangs DEF ChildrenWritten
    <3>2. w.above[t.above[l]] = t.above[t.above[l]] BY <1>0, <3>1 DEF ChildrenWritten
    <3>3. QED BY <1>3, <3>1, <3>2 DEF Whole
  <2>3. QED BY <2>1, <2>2
<1>4. ASSUME NEW s \in Schools, NEW c \in w.lists[s] PROVE w.owner[c] = w.owner[s] /\ w.owner[s] # None
  <2>1. c \in Roots /\ s \in Roots BY <1>0 DEF RowsWritten, Roots
  <2>2. CASE s \in p.rows
    <3>1. c \in p.rows BY <1>0, <1>4, <2>2 DEF RowsWritten, Checked
    <3>2. QED BY <1>1, <1>p, <2>1, <2>2, <3>1
  <2>3. CASE s \notin p.rows
    <3>1. t.owner[c] = t.owner[s] /\ t.owner[s] # None BY <1>0, <1>4, <2>3 DEF RowsWritten, Whole
    <3>2. QED BY <1>1, <1>p, <2>1, <2>3, <3>1
  <2>4. QED BY <2>2, <2>3
<1>5. QED BY <1>2, <1>3, <1>4 DEF Whole, w

(* The organisation's content is now the payload's. *)
LEMMA SeenAfter ==
    ASSUME NEW t, Shape(t), NEW p, Checked(t, p)
    PROVE  Seen(Written(t, t, p), p.org, p)
<1> DEFINE w == Written(t, t, p)
<1>0. p \in Payloads /\ RowsWritten(t, p, w) /\ ChildrenWritten(t, p, w)
  BY WrittenRows, WrittenChildren DEF Checked
<1>p. p.org \in Orgs /\ p.org # None /\ p.rows \subseteq Owned /\ p.hidden \subseteq p.rows \cap Roots
  BY <1>0, PayloadFacts, ContentAssumption
<1> HIDE DEF w
<1>1. \A r \in p.rows : w.owner[r] = p.org /\ (r \in w.hidden <=> r \in p.hidden) BY <1>0 DEF RowsWritten
<1>2. \A r \in Owned : w.owner[r] = p.org /\ r \notin p.rows => r \in w.hidden
  BY <1>0, <1>p DEF RowsWritten, Owned
<1>3. \A s \in Schools \cap p.rows : w.lists[s] = p.lists[s] BY <1>0 DEF RowsWritten
<1>4. \A n \in Carried(p) : w.above[n] = p.above[n] BY <1>0 DEF ChildrenWritten
<1>n. None \notin p.rows BY <1>p, ContentAssumption DEF Owned
<1>5. \A m \in Middles \ Carried(p) : w.above[m] \notin p.rows BY <1>0, <1>n DEF ChildrenWritten
<1>6. ASSUME NEW l \in Leaves \ Carried(p), w.above[l] # None PROVE w.above[w.above[l]] \notin p.rows
  <2>1. w.above[l] = t.above[l] /\ t.above[l] \notin Carried(p) /\ t.above[l] \in Middles
    BY <1>0, <1>6, WhereItHangs DEF ChildrenWritten
  <2>2. QED BY <1>5, <2>1
<1>7. QED BY <1>0, <1>1, <1>2, <1>3, <1>4, <1>5, <1>6 DEF Seen, w

-----------------------------------------------------------------------------
(* Of another organisation's rows neither owner, mark nor list is written. *)
LEMMA OthersRows ==
    ASSUME NEW t, Shape(t), NEW p, Checked(t, p), NEW o \in Orgs, o # p.org, NEW r \in Owned
    PROVE  LET w == Written(t, t, p)
           IN  /\ w.owner[r] = o <=> t.owner[r] = o
               /\ t.owner[r] = o => r \notin p.rows /\ (r \in w.hidden <=> r \in t.hidden)
               /\ t.owner[r] = o /\ r \in Schools => w.lists[r] = t.lists[r]
<1> DEFINE w == Written(t, t, p)
<1>0. p \in Payloads /\ RowsWritten(t, p, w) BY WrittenRows DEF Checked
<1>1. p.org \in Orgs /\ o # None /\ p.hidden \subseteq p.rows BY <1>0, PayloadFacts, ContentAssumption
<1> HIDE DEF w
<1>2. t.owner[r] = o => r \notin p.rows BY <1>1 DEF Checked
<1>3. w.owner[r] = o <=> t.owner[r] = o
  <2>1. r \in p.rows => w.owner[r] = p.org BY <1>0 DEF RowsWritten
  <2>2. r \notin p.rows => w.owner[r] = IF r \in Flat /\ t.owner[r] = p.org THEN None ELSE t.owner[r]
    BY <1>0 DEF RowsWritten
  <2>3. QED BY <1>1, <1>2, <2>1, <2>2
<1>4. t.owner[r] = o => (r \in w.hidden <=> r \in t.hidden) BY <1>0, <1>1, <1>2 DEF RowsWritten
<1>5. t.owner[r] = o /\ r \in Schools => w.lists[r] = t.lists[r] BY <1>0, <1>2 DEF RowsWritten
<1>6. QED BY <1>2, <1>3, <1>4, <1>5 DEF w

(* Nor is anything moved under, or away from, a root of another organisation. *)
LEMMA OthersNodes ==
    ASSUME NEW t, Shape(t), NEW p, Checked(t, p), ~refuseStrayChildren(t, t, p), NEW o \in Orgs, o # p.org,
           NEW n \in Nodes, NEW w, w = Written(t, t, p),
           \/ RootOf(t, n) # None /\ t.owner[RootOf(t, n)] = o
           \/ RootOf(w, n) # None /\ w.owner[RootOf(w, n)] = o
    PROVE  n \notin Carried(p) /\ w.above[n] = t.above[n] /\ RootOf(w, n) = RootOf(t, n)
<1>0. p \in Payloads /\ RowsWritten(t, p, w) /\ ChildrenWritten(t, p, w) /\ Shape(w)
  BY WrittenRows, WrittenChildren, WrittenShape DEF Checked
<1>1. p.org \in Orgs /\ p.org # None /\ o # None /\ None \notin p.rows
  BY <1>0, PayloadFacts, ContentAssumption DEF Owned
<1> DEFINE mine(r) == r # None /\ t.owner[r] = o
<1>2. \A r \in Roots : (w.owner[r] = o <=> t.owner[r] = o) /\ (mine(r) => r \notin p.rows)
  BY OthersRows DEF Owned
<1>3. mine(RootOf(t, n)) \/ mine(RootOf(w, n)) BY <1>0, <1>2, WhereItHangs
<1>4. ASSUME NEW m \in Middles, mine(t.above[m]) \/ mine(w.above[m])
      PROVE  m \notin Carried(p) /\ t.above[m] \notin p.rows /\ w.above[m] = t.above[m]
  <2>1. t.above[m] \in Roots \cup {None} /\ w.above[m] \in Roots \cup {None} /\ RootOf(t, m) = t.above[m]
    BY <1>0, WhereItHangs
  <2>2. ASSUME m \in Carried(p) PROVE FALSE
    <3>1. w.above[m] \in p.rows BY <1>0, <2>2, PayloadFacts DEF ChildrenWritten
    <3>2. mine(t.above[m]) BY <1>2, <1>4, <2>1, <3>1
    <3>3. QED BY <1>1, <2>1, <2>2, <3>2, NotStray
  <2>3. w.above[m] = IF t.above[m] \in p.rows THEN None ELSE t.above[m] BY <1>0, <2>2 DEF ChildrenWritten
  <2>4. QED BY <1>1, <1>2, <1>4, <2>1, <2>2, <2>3
<1>5. CASE n \in Middles
  <2>1. RootOf(t, n) = t.above[n] /\ RootOf(w, n) = w.above[n] BY <1>0, <1>5, WhereItHangs
  <2>2. QED BY <1>3, <1>4, <1>5, <2>1
<1>6. CASE n \in Leaves
  <2>1. /\ t.above[n] \in Middles \cup {None} /\ w.above[n] \in Middles \cup {None} /\ None \notin Middles
        /\ RootOf(t, n) = IF t.above[n] # None THEN t.above[t.above[n]] ELSE None
        /\ RootOf(w, n) = IF w.above[n] # None THEN w.above[w.above[n]] ELSE None
    BY <1>0, <1>6, WhereItHangs DEF Nodes
  <2>2. ASSUME n \in Carried(p) PROVE FALSE
    <3>1. w.above[n] = p.above[n] /\ p.above[n] \in Middles \cap Carried(p)
      BY <1>0, <1>6, <2>2, PayloadFacts DEF ChildrenWritten
    <3>2. ~mine(w.above[w.above[n]]) BY <1>4, <3>1
    <3>3. mine(RootOf(t, n)) BY <1>3, <2>1, <3>2
    <3>4. QED BY <1>1, <2>2, <3>3, NotStray
  <2>3. w.above[n] = IF t.above[n] # None /\ (t.above[n] \in Carried(p) \/ t.above[t.above[n]] \in p.rows)
                     THEN None ELSE t.above[n]
    BY <1>0, <1>6, <2>2 DEF ChildrenWritten
  <2>4. t.above[n] \in Middles /\ (mine(t.above[t.above[n]]) \/ mine(w.above[t.above[n]]))
    <3>1. CASE mine(RootOf(t, n)) BY <2>1, <3>1
    <3>2. CASE mine(RootOf(w, n))
      <4>1. w.above[n] # None BY <2>1, <3>2
      <4>2. w.above[n] = t.above[n] BY <2>3, <4>1
      <4>3. QED BY <2>1, <3>2, <4>1, <4>2
    <3>3. QED BY <1>3, <3>1, <3>2
  <2>5. /\ t.above[n] \notin Carried(p) /\ t.above[t.above[n]] \notin p.rows
        /\ w.above[t.above[n]] = t.above[t.above[n]]
    BY <1>4, <2>4
  <2>6. w.above[n] = t.above[n] BY <2>3, <2>5
  <2>7. QED BY <2>1, <2>2, <2>5, <2>6
<1>7. QED BY <1>5, <1>6 DEF Nodes

(* So another organisation still has what it had. *)
LEMMA OthersSeen ==
    ASSUME NEW t, Shape(t), NEW p, Checked(t, p), ~refuseStrayChildren(t, t, p), NEW o \in Orgs, o # p.org,
           NEW q, Seen(t, o, q)
    PROVE  Seen(Written(t, t, p), o, q)
<1> DEFINE w == Written(t, t, p)
<1>0. q \in Payloads /\ Shape(w) BY WrittenShape DEF Seen
<1>1. q.rows \subseteq Owned /\ None \notin q.rows BY <1>0, PayloadFacts, ContentAssumption DEF Owned
<1>r. \A r \in Owned : /\ w.owner[r] = o <=> t.owner[r] = o
                       /\ t.owner[r] = o => r \notin p.rows /\ (r \in w.hidden <=> r \in t.hidden)
                       /\ t.owner[r] = o /\ r \in Schools => w.lists[r] = t.lists[r]
  BY OthersRows
<1>n. \A n \in Nodes : \/ RootOf(t, n) # None /\ t.owner[RootOf(t, n)] = o
                       \/ RootOf(w, n) # None /\ w.owner[RootOf(w, n)] = o
                       => n \notin Carried(p) /\ w.above[n] = t.above[n] /\ RootOf(w, n) = RootOf(t, n)
  BY OthersNodes
<1> HIDE DEF w
<1>2. \A r \in q.rows : w.owner[r] = o /\ t.owner[r] = o /\ (r \in w.hidden <=> r \in q.hidden)
  BY <1>1, <1>r DEF Seen
<1>3. \A r \in Owned : w.owner[r] = o /\ r \notin q.rows => r \in w.hidden BY <1>r DEF Seen
<1>4. \A s \in Schools \cap q.rows : w.lists[s] = q.lists[s] BY <1>1, <1>r DEF Seen
<1>5. ASSUME NEW n \in Carried(q) PROVE w.above[n] = q.above[n]
  <2>1. n \in Nodes /\ t.above[n] = q.above[n] /\ t.above[n] # None BY DEF Carried, Seen
  <2>2. RootOf(t, n) \in q.rows
    <3>1. CASE n \in Middles BY <1>0, <2>1, <3>1, PayloadFacts, WhereItHangs
    <3>2. CASE n \in Leaves
      <4>1. t.above[n] \in Middles \cap Carried(q) BY <1>0, <2>1, <3>2, PayloadFacts
      <4>2. t.above[t.above[n]] = q.above[t.above[n]] BY <4>1 DEF Seen
      <4>3. q.above[t.above[n]] \in q.rows BY <1>0, <4>1, PayloadFacts
      <4>4. QED BY <2>1, <3>2, <4>2, <4>3, WhereItHangs
    <3>3. QED BY <2>1, <3>1, <3>2 DEF Nodes
  <2>3. QED BY <1>1, <1>2, <1>n, <2>1, <2>2
<1>6. ASSUME NEW n \in Nodes \ Carried(q), RootOf(w, n) # None PROVE RootOf(w, n) \notin q.rows
  <2>1. SUFFICES ASSUME RootOf(w, n) \in q.rows PROVE FALSE OBVIOUS
  <2>2. RootOf(t, n) \in q.rows BY <1>2, <1>6, <1>n, <2>1
  <2>3. CASE n \in Middles BY <1>1, <2>2, <2>3, WhereItHangs DEF Seen
  <2>4. CASE n \in Leaves BY <1>1, <2>2, <2>4, WhereItHangs DEF Seen
  <2>5. QED BY <2>3, <2>4 DEF Nodes
<1>7. \A m \in Middles \ Carried(q) : w.above[m] \notin q.rows BY <1>0, <1>1, <1>6, WhereItHangs DEF Nodes
<1>8. \A l \in Leaves \ Carried(q) : w.above[l] # None => w.above[w.above[l]] \notin q.rows
  BY <1>0, <1>1, <1>6, WhereItHangs DEF Nodes
<1>9. QED BY <1>0, <1>2, <1>3, <1>4, <1>5, <1>7, <1>8 DEF Seen, w

-----------------------------------------------------------------------------
(* Once its lists are trimmed, a payload that was let in has passed the checks. *)
LEMMA LetIn ==
    ASSUME NEW t, NEW p \in Payloads, ~refuseRowsOfOtherOrganisations(t, p)
    PROVE  Checked(t, trimLists(p))
<1> DEFINE cut == [s \in Schools |-> p.lists[s] \cap p.rows]
           q   == trimLists(p)
<1>1. p \in Payload /\ validateOrganisationContent(p) BY DEF Payloads
<1>2. q = [p EXCEPT !.lists = cut] BY DEF trimLists
<1>3. cut \in [Schools -> SUBSET Curricula] BY <1>1 DEF Payload
<1> HIDE DEF cut, q
<1>4. /\ q \in Payload /\ q.org = p.org /\ q.rows = p.rows /\ q.hidden = p.hidden /\ q.above = p.above /\ q.lists = cut
  BY <1>1, <1>2, <1>3 DEF Payload
<1>5. Carried(q) = Carried(p) BY <1>4 DEF Carried
<1>6. \A s \in Schools : q.lists[s] = p.lists[s] \cap p.rows BY <1>4 DEF cut
<1>7. validateOrganisationContent(q) BY <1>1, <1>4, <1>5, <1>6 DEF validateOrganisationContent
<1>8. \A r \in q.rows : t.owner[r] \in {q.org, None} BY <1>4 DEF refuseRowsOfOtherOrganisations, OfAnother
<1>9. QED BY <1>4, <1>6, <1>7, <1>8 DEF Checked, Payloads, q

(* What the import of the step writes, from its payload and the database it has read. *)
LEMMA Applied ==
    ASSUME IInv, NEW i \in Imports, Apply(i)
    PROVE  LET p == imp[i].payload
           IN  /\ Shape(db) /\ Checked(db, p) /\ ~refuseStrayChildren(db, db, p) /\ p.org \in Orgs
               /\ db' = Written(db, db, p) /\ last' = [last EXCEPT ![p.org] = p]
               /\ imp' = [imp EXCEPT ![i] = Idle] /\ imp[i].open
               /\ \A j \in Imports : imp[j].open => j = i
<1>1. imp[i].open /\ imp[i].snap = db /\ Checked(db, imp[i].payload) /\ (\A j \in Imports : imp[j].open => j = i)
  BY DEF Apply, IInv, InTurn
<1>2. Shape(db) BY DEF IInv, TypeOK, Shape
<1>3. imp[i].payload.org \in Orgs BY <1>1, PayloadFacts DEF Checked
<1>4. QED BY <1>1, <1>2, <1>3 DEF Apply

(* In turn, an import's snapshot is the database as it is when the import writes. *)
LEMMA OpenStep ==
    ASSUME Serial, IInv, NEW i \in Imports, Open(i)
    PROVE  IInv'
<1>1. PICK p \in Payloads : /\ ~refuseRowsOfOtherOrganisations(db, p)
                           /\ imp' = [imp EXCEPT ![i] = [open |-> TRUE, payload |-> trimLists(p), snap |-> db]]
  BY DEF Open
<1>2. Checked(db, trimLists(p)) BY <1>1, LetIn
<1>3. db' = db /\ last' = last /\ (\A j \in Imports : ~imp[j].open) BY DEF Open
<1>4. TypeOK'
  <2>1. trimLists(p) \in Payload /\ db \in Tables BY <1>2, PayloadFacts DEF Checked, IInv, TypeOK
  <2>2. imp' \in [Imports -> [open : {TRUE}, payload : Payload, snap : Tables] \cup {Idle}]
    BY <1>1, <2>1 DEF IInv, TypeOK
  <2>3. QED BY <1>3, <2>2 DEF IInv, TypeOK
<1>5. InTurn'
  <2>1. \A j \in Imports : j # i => imp'[j] = imp[j] BY <1>1 DEF IInv, TypeOK
  <2>2. imp'[i].snap = db /\ imp'[i].payload = trimLists(p) BY <1>1 DEF IInv, TypeOK
  <2>3. QED BY <1>2, <1>3, <2>1, <2>2 DEF InTurn, Checked
<1>6. QED BY <1>3, <1>4, <1>5 DEF IInv, Whole, Seen

(* Writing the payload keeps the references and records it as the organisation's last. *)
LEMMA ApplyStep ==
    ASSUME IInv, NEW i \in Imports, Apply(i)
    PROVE  IInv'
<1> DEFINE p == imp[i].payload
<1>1. /\ Shape(db) /\ Checked(db, p) /\ ~refuseStrayChildren(db, db, p) /\ p.org \in Orgs
      /\ db' = Written(db, db, p) /\ last' = [last EXCEPT ![p.org] = p]
      /\ imp' = [imp EXCEPT ![i] = Idle] /\ imp[i].open
      /\ \A j \in Imports : imp[j].open => j = i
  BY Applied
<1>2. Shape(db') BY <1>1, WrittenShape
<1>3. TypeOK'
  <2>1. p \in Payload BY <1>1, PayloadFacts DEF Checked
  <2>2. imp' \in [Imports -> [open : {TRUE}, payload : Payload, snap : Tables] \cup {Idle}] BY <1>1 DEF IInv, TypeOK
  <2>3. last' \in [Orgs -> Payload \cup {NoImport}] BY <1>1, <2>1 DEF IInv, TypeOK
  <2>4. QED BY <1>2, <2>2, <2>3 DEF TypeOK, Shape
<1>4. Whole(db') BY <1>1, WholeStays DEF IInv
<1>5. InTurn' BY <1>1 DEF InTurn, IInv, TypeOK, Idle
<1>6. ASSUME NEW o \in Orgs
      PROVE  IF last'[o] = NoImport THEN \A r \in Owned : db'.owner[r] # o ELSE Seen(db', o, last'[o])
  <2>1. CASE o = p.org
    <3>1. last'[o] = p BY <1>1, <2>1 DEF IInv, TypeOK
    <3>2. p # NoImport
      <4>1. p \in Payload BY <1>1, PayloadFacts DEF Checked
      <4>2. p.org # None BY <1>1, ContentAssumption
      <4>3. QED BY <4>2 DEF NoImport
    <3>3. Seen(db', o, p) BY <1>1, <2>1, SeenAfter
    <3>4. QED BY <3>1, <3>2, <3>3
  <2>2. CASE o # p.org
    <3>1. last'[o] = last[o] BY <1>1, <2>2 DEF IInv, TypeOK
    <3>2. CASE last[o] = NoImport
      <4>1. \A r \in Owned : db.owner[r] # o BY <3>2 DEF IInv
      <4>2. \A r \in Owned : db'.owner[r] # o BY <1>1, <2>2, <4>1, OthersRows
      <4>3. QED BY <3>1, <3>2, <4>2
    <3>3. CASE last[o] # NoImport
      <4>1. Seen(db, o, last[o]) BY <3>3 DEF IInv
      <4>2. Seen(db', o, last[o]) BY <1>1, <2>2, <4>1, OthersSeen
      <4>3. QED BY <3>1, <3>3, <4>2
    <3>4. QED BY <3>2, <3>3
  <2>3. QED BY <2>1, <2>2
<1>7. QED BY <1>3, <1>4, <1>5, <1>6 DEF IInv

(* The invariant of imports that run one after another. *)
LEMMA InTurnInvariant == ASSUME Serial PROVE Spec => []IInv
<1>1. Init => IInv
  <2> SUFFICES ASSUME Init PROVE IInv OBVIOUS
  <2>1. TypeOK
    <3>1. Empty \in Tables BY DEF Empty, Tables, Above
    <3>2. \A m \in Middles : Empty.above[m] = None BY DEF Empty, Nodes
    <3>3. \A l \in Leaves : Empty.above[l] = None BY DEF Empty, Nodes
    <3>4. db = Empty /\ imp = [i \in Imports |-> Idle] /\ last = [o \in Orgs |-> NoImport] BY DEF Init
    <3>5. imp \in [Imports -> [open : {TRUE}, payload : Payload, snap : Tables] \cup {Idle}] BY <3>4
    <3>6. last \in [Orgs -> Payload \cup {NoImport}] BY <3>4
    <3>7. QED BY <3>1, <3>2, <3>3, <3>4, <3>5, <3>6 DEF TypeOK
  <2>2. Whole(db) BY DEF Init, Empty, Whole, Nodes
  <2>3. InTurn BY DEF Init, InTurn, Idle
  <2>4. \A o \in Orgs : last[o] = NoImport /\ \A r \in Owned : db.owner[r] # o
    BY ContentAssumption DEF Init, Empty
  <2>5. QED BY <2>1, <2>2, <2>3, <2>4 DEF IInv
<1>2. IInv /\ [Next]_vars => IInv'
  <2> SUFFICES ASSUME IInv, [Next]_vars PROVE IInv' OBVIOUS
  <2>1. ASSUME NEW i \in Imports, Open(i) PROVE IInv' BY <2>1, OpenStep
  <2>2. ASSUME NEW i \in Imports, Apply(i) PROVE IInv' BY <2>2, ApplyStep
  <2>3. ASSUME NEW i \in Imports, Rollback(i) PROVE IInv'
    <3>1. db' = db /\ last' = last /\ imp' = [imp EXCEPT ![i] = Idle] BY <2>3 DEF Rollback
    <3>2. TypeOK' BY <3>1 DEF IInv, TypeOK
    <3>3. InTurn' BY <3>1 DEF IInv, TypeOK, InTurn, Idle, Checked
    <3>4. QED BY <3>1, <3>2, <3>3 DEF IInv, Whole, Seen
  <2>4. CASE UNCHANGED vars
    <3>1. db' = db /\ last' = last /\ imp' = imp BY <2>4 DEF vars
    <3>2. TypeOK' BY <3>1 DEF IInv, TypeOK
    <3>3. InTurn' BY <3>1 DEF IInv, InTurn, Checked
    <3>4. QED BY <3>1, <3>2, <3>3 DEF IInv, Whole, Seen
  <2>5. QED BY <2>1, <2>2, <2>3, <2>4 DEF Next
<1>3. QED BY <1>1, <1>2, PTL DEF Spec

-----------------------------------------------------------------------------
(***************************************************************************)
(* Although the foreign keys are off, no import leaves a row hanging from  *)
(* one that is gone, nor a list that names another organisation's          *)
(* curriculum: the chain whose leaves go holds every middle that goes.     *)
(***************************************************************************)
THEOREM NothingIsLeftHanging == ASSUME Serial PROVE Spec => []ReferencesHold
<1>1. IInv => ReferencesHold
  <2> SUFFICES ASSUME IInv PROVE ReferencesHold OBVIOUS
  <2>1. Shape(db) /\ Whole(db) BY DEF IInv, TypeOK, Shape
  <2>2. \A m \in Middles : m \notin Leaves /\ m \notin Roots BY ContentAssumption DEF Nodes
  <2>3. QED BY <2>1, <2>2, WhereItHangs DEF ReferencesHold, Whole, Nodes
<1>2. QED BY <1>1, InTurnInvariant, PTL

(***************************************************************************)
(* What learners see of an organisation is its latest import, whatever     *)
(* came before it and whatever others have imported since.                 *)
(***************************************************************************)
THEOREM LatestIsSeen == ASSUME Serial PROVE Spec => []LatestImportIsSeen
<1>1. IInv => LatestImportIsSeen
  <2> SUFFICES ASSUME IInv, NEW o \in Orgs, last[o] # NoImport
               PROVE  LET p    == last[o]
                          live == {r \in Roots : db.owner[r] = o} \ db.hidden
                      IN  /\ {r \in Owned : db.owner[r] = o} \ db.hidden = p.rows \ p.hidden
                          /\ \A s \in live \cap Schools : db.lists[s] = p.lists[s]
                          /\ Under(db, live) = Carried(p) \ Under(p, p.hidden)
                          /\ \A n \in Carried(p) : db.above[n] = p.above[n]
    BY DEF LatestImportIsSeen
  <2> DEFINE p    == last[o]
             live == {r \in Roots : db.owner[r] = o} \ db.hidden
  <2>1. Seen(db, o, p) /\ Shape(db) BY DEF IInv, TypeOK, Shape
  <2>2. p \in Payloads /\ p.rows \subseteq Owned /\ p.hidden \subseteq p.rows \cap Roots /\ Carried(p) \subseteq Nodes
    BY <2>1, PayloadFacts DEF Seen
  <2>3. {r \in Owned : db.owner[r] = o} \ db.hidden = p.rows \ p.hidden BY <2>1, <2>2 DEF Seen
  <2>4. live = (p.rows \cap Roots) \ p.hidden BY <2>1, <2>2, ContentAssumption DEF Seen, Owned
  <2>5. \A s \in live \cap Schools : db.lists[s] = p.lists[s] BY <2>1, <2>4 DEF Seen
  <2>6. \A n \in Carried(p) : db.above[n] = p.above[n] BY <2>1 DEF Seen
  <2>7. ASSUME NEW n \in Carried(p) PROVE RootOf(db, n) = RootOf(p, n) /\ RootOf(db, n) \in p.rows \cap Roots
    <3>1. CASE n \in Middles
      <4>1. RootOf(db, n) = db.above[n] /\ RootOf(p, n) = p.above[n]
        BY <2>1, <3>1, WhereItHangs, ContentAssumption DEF RootOf
      <4>2. p.above[n] \in p.rows \cap Homes[n] /\ Homes[n] \subseteq Roots
        BY <2>2, <3>1, PayloadFacts, ContentAssumption
      <4>3. QED BY <2>6, <4>1, <4>2
    <3>2. CASE n \in Leaves
      <4>1. p.above[n] \in Middles \cap Carried(p) BY <2>2, <3>2, PayloadFacts
      <4>2. RootOf(p, n) = p.above[p.above[n]] BY <3>2 DEF RootOf, Carried
      <4>3. db.above[n] = p.above[n] /\ db.above[p.above[n]] = p.above[p.above[n]] BY <2>6, <4>1
      <4>4. RootOf(db, n) = db.above[db.above[n]] BY <2>1, <3>2, <4>1, <4>3, WhereItHangs DEF Nodes
      <4>5. p.above[p.above[n]] \in p.rows \cap Roots BY <2>2, <4>1, PayloadFacts, ContentAssumption
      <4>6. QED BY <4>2, <4>3, <4>4, <4>5
    <3>3. QED BY <2>2, <3>1, <3>2 DEF Nodes
  <2>8. ASSUME NEW n \in Nodes \ Carried(p) PROVE RootOf(db, n) \notin p.rows
    <3>1. None \notin p.rows BY <2>2, ContentAssumption DEF Owned
    <3>2. CASE n \in Middles BY <2>1, <2>8, <3>2, WhereItHangs DEF Seen
    <3>3. CASE n \in Leaves BY <2>1, <2>8, <3>1, <3>3, WhereItHangs DEF Seen
    <3>4. QED BY <2>8, <3>2, <3>3 DEF Nodes
  <2>9. Under(db, live) = Carried(p) \ Under(p, p.hidden) BY <2>2, <2>4, <2>7, <2>8 DEF Under
  <2>10. QED BY <2>3, <2>5, <2>6, <2>9
<1>2. QED BY <1>1, InTurnInvariant, PTL

(***************************************************************************)
(* No import touches another organisation: not its rows, marks or lists,   *)
(* and not what hangs from its curricula and schools.                      *)
(***************************************************************************)
THEOREM OthersAreUntouched == ASSUME Serial PROVE Spec => OthersUntouched
<1>1. IInv /\ [Next]_vars => [\A o \in Orgs : (\A i \in Imports : imp[i].open => imp[i].payload.org # o)
                                            => Content(db', o) = Content(db, o)]_vars
  <2> SUFFICES ASSUME IInv, Next, NEW o \in Orgs, \A i \in Imports : imp[i].open => imp[i].payload.org # o
               PROVE  Content(db', o) = Content(db, o)
    OBVIOUS
  <2>1. ASSUME NEW i \in Imports, Apply(i) PROVE Content(db', o) = Content(db, o)
    <3> DEFINE p == imp[i].payload
               w == Written(db, db, p)
               mine == {r \in Owned : db.owner[r] = o}
    <3>1. /\ Shape(db) /\ Checked(db, p) /\ ~refuseStrayChildren(db, db, p) /\ p.org \in Orgs
          /\ db' = w /\ o # p.org
      BY <2>1, Applied
    <3>2. Shape(w) BY <3>1, WrittenShape
    <3>3. {r \in Owned : w.owner[r] = o} = mine BY <3>1, OthersRows
    <3>4. w.hidden \cap mine = db.hidden \cap mine BY <3>1, OthersRows
    <3>5. \A s \in Schools \cap mine : w.lists[s] = db.lists[s] BY <3>1, OthersRows
    <3>6. \A n \in Nodes : RootOf(db, n) \in mine \/ RootOf(w, n) \in mine =>
                w.above[n] = db.above[n] /\ RootOf(w, n) = RootOf(db, n)
      <4>1. None \notin mine BY ContentAssumption DEF Owned
      <4>2. \A r \in mine : db.owner[r] = o /\ w.owner[r] = o BY <3>3
      <4>3. QED BY <3>1, <4>1, <4>2, OthersNodes
    <3>7. Under(w, mine) = Under(db, mine) BY <3>6 DEF Under
    <3>8. \A n \in Under(db, mine) : w.above[n] = db.above[n] BY <3>6 DEF Under
    <3>9. [s \in Schools \cap mine |-> w.lists[s]] = [s \in Schools \cap mine |-> db.lists[s]] BY <3>5
    <3>10. [n \in Under(w, mine) |-> w.above[n]] = [n \in Under(db, mine) |-> db.above[n]] BY <3>7, <3>8
    <3> HIDE DEF w
    <3>11. QED BY <3>1, <3>3, <3>4, <3>9, <3>10 DEF Content
  <2>2. CASE \E i \in Imports : Open(i) \/ Rollback(i)
    <3>1. db' = db BY <2>2 DEF Open, Rollback
    <3>2. QED BY <3>1
  <2>3. QED BY <2>1, <2>2 DEF Next
<1>2. QED BY <1>1, InTurnInvariant, PTL DEF Spec, OthersUntouched

(***************************************************************************)
(* A curriculum or school that is gone from the payload keeps its rows,    *)
(* except for what the payload takes over.                                 *)
(***************************************************************************)
THEOREM AbsentRowsStay == ASSUME Serial PROVE Spec => AbsentKeepsItsRows
<1>1. IInv /\ [Next]_vars =>
        [\A i \in Imports : imp[i].open /\ db' # db =>
            LET p == imp[i].payload
            IN  \A n \in Under(db, AbsentRoots(db, p)) :
                    n \notin Carried(p) /\ db.above[n] \notin Carried(p) => db'.above[n] = db.above[n]]_vars
  <2> SUFFICES ASSUME IInv, Next, NEW i \in Imports, imp[i].open, db' # db,
                      NEW p, p = imp[i].payload, NEW n \in Under(db, AbsentRoots(db, p)),
                      n \notin Carried(p), db.above[n] \notin Carried(p)
               PROVE  db'.above[n] = db.above[n]
    OBVIOUS
  <2>1. Apply(i)
    <3>1. PICK j \in Imports : Open(j) \/ Apply(j) \/ Rollback(j) BY DEF Next
    <3>2. Apply(j) BY <3>1 DEF Open, Rollback
    <3>3. j = i BY <3>2, Applied
    <3>4. QED BY <3>2, <3>3
  <2>2. Shape(db) /\ Checked(db, p) /\ db' = Written(db, db, p) BY <2>1, Applied
  <2>3. ChildrenWritten(db, p, db') BY <2>2, WrittenChildren
  <2>4. n \in Nodes /\ RootOf(db, n) \in Roots /\ RootOf(db, n) \notin p.rows
    BY DEF Under, AbsentRoots, idsOwnedBy
  <2>5. CASE n \in Middles BY <2>2, <2>3, <2>4, <2>5, WhereItHangs DEF ChildrenWritten
  <2>6. CASE n \in Leaves BY <2>2, <2>3, <2>4, <2>6, WhereItHangs DEF ChildrenWritten
  <2>7. QED BY <2>4, <2>5, <2>6 DEF Nodes
<1>2. QED BY <1>1, InTurnInvariant, PTL DEF Spec, AbsentKeepsItsRows

=============================================================================
