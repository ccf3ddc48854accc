SPECIFICATION Spec
CONSTANTS
    None = None
    NoOrg = NoOrg
    Schools = {"s1", "s2", "x"}
    Names <- MCNames
    Norm <- MCNorm
    Collate <- MCCollate
    Orgs = {"A", "B", "L"}
    Central <- MCCentral
    NamesOf <- MCNamesOf
    StatusOf <- MCStatusOf
    Classes = {"c1", "c2"}
    CentralClasses = {"c1"}
    Logins = {"u1", "u2", "v"}
    Username <- MCUsername
    Learners = {"k1"}
    Entries <- MCEntries
    Coded = {"A", "L"}
    Minted = "L"
    NewSchool = "x"
    NewClass = "c2"
    NewLogin = "v"
    Options <- MCOptions
    NamesApart = TRUE
INVARIANTS
    RosterComplete
    RosterStaysInItsSchool
PROPERTIES
    OwnershipNeverMoves
    ProvisionedIsWhole
    ResetStaysInSchool
CHECK_DEADLOCK FALSE
