SPECIFICATION Spec
CONSTANTS
    A = A
    B = B
    c1 = c1
    c2 = c2
    s1 = s1
    m1 = m1
    m2 = m2
    f1 = f1
    x1 = x1
    None = None
    Orgs <- MCOrgs
    Curricula <- MCCurricula
    Schools = {s1}
    Middles = {m1, m2}
    Leaves = {f1}
    Flat = {x1}
    Homes <- MCHomes
    Uses <- MCUses
    Retirable = {s1}
    Imports = {1}
    Serial = TRUE
SYMMETRY Symmetry
INVARIANTS
    LatestImportIsSeen
    ReferencesHold
PROPERTIES
    OthersUntouched
    AbsentKeepsItsRows
CHECK_DEADLOCK FALSE
