SPECIFICATION FairSpec
CONSTANTS
    r1 = r1
    r2 = r2
    r3 = r3
    r4 = r4
    r5 = r5
    Req <- MixedReq
    Activities <- MCActivities
    ActivityOf <- MixedActivityOf
    StartOf <- MixedStartOf
    KindOf <- MCKindOf
    Worth <- MCWorth
    Passing = 0
    TotalOf <- MCTotalOf
    Percentages <- MCPercentages
    Rule = TRUE
    Serial = FALSE
    Pool = 2
    MaxFaults = 1
INVARIANTS
    ReplayNeverConflicts
    AttemptsComplete
PROPERTIES
    ExactlyOnce
    EveryRequestEnds
CHECK_DEADLOCK FALSE
