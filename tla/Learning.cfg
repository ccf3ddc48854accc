SPECIFICATION Spec
CONSTANTS
    Reports = {"r1", "r2", "r3"}
    Points = 1
    Totals = {1, 2}
    MaxFaults = 2
    Posts = {"p1", "p2"}
    Span <- MCSpan
    Day = 4
    Tomorrow = 8
INVARIANTS
    LearntIsCredited
    RetrySettles
    UsageNeverInvented
 
CHECK_DEADLOCK FALSE
