SPECIFICATION RecalcSpec
CONSTANTS
    Learnings = {"n"}
    Practices = {}
    Quizzes = {"q"}
    Lessons = {"L", "M"}
    Levels = {"V"}
    LessonOf <- FullLessonOf
    LevelOf <- FullLevelOf
    TotalPoints <- SlackTotals
    PassingPoints <- FullPassing
    LevelPoints <- Level10
    GradePoints = 10
    MaxPoints <- FullMax
    Percentages <- MCPercentages
    MaxStart <- FullStart
    MaxViews = 1
    MaxEdits = 3
    Ordered = TRUE
    RuleMayChange = TRUE
    RequireMayBecome = {TRUE}
INVARIANTS
    LedgersAgree
    StarsAddUp
PROPERTY RecalculationSettles
CHECK_DEADLOCK FALSE
