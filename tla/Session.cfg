SPECIFICATION Spec
CONSTANTS
    l1 = l1
    l2 = l2
    o1 = o1
    o2 = o2
    NoOrg = NoOrg
    Login <- MCLogin
    Orgs <- MCOrgs
    MaxEdits = 2
    MaxFaults = 1
SYMMETRY Symmetry
INVARIANTS
    OneTokenInTurn
    AccessLogAgrees
    LastSignInStaysIn
    SuspendedIsRefused
CHECK_DEADLOCK FALSE
