SPECIFICATION Spec
CONSTANTS
    r1 = r1
    r2 = r2
    r3 = r3
    r4 = r4
    r5 = r5
    Req <- PairReq
    Activities <- MCActivities
    ActivityOf <- PairActivityOf
    StartOf <- PairStartOf
    KindOf <- MCKindOf
    Worth <- MCWorth
    Passing = 0
    TotalOf <- MCTotalOf
    Percentages <- MCPercentages
    Rule = TRUE
    Serial = FALSE
    Pool = 3
    MaxFaults = 0
INVARIANT PassNeverCreditedTwice
CHECK_DEADLOCK FALSE
