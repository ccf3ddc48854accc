SPECIFICATION Spec
CONSTANTS
    r1 = r1
    r2 = r2
    r3 = r3
    r4 = r4
    r5 = r5
    Req <- SerialReq
    Activities <- MCActivities
    ActivityOf <- SerialActivityOf
    StartOf <- SerialStartOf
    KindOf <- MCKindOf
    Worth <- MCWorth
    Passing = 0
    TotalOf <- MCTotalOf
    Percentages <- MCPercentages
    Rule = TRUE
    Serial = TRUE
    Pool = 2
    MaxFaults = 1
INVARIANTS
    TotalsEarned
    OneRowOfTheDay
    StarsEarned
    DailyFresh
CHECK_DEADLOCK FALSE
