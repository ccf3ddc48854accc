SPECIFICATION Spec
CONSTANTS
    Learnings = {}
    Practices = {"p", "r"}
    Quizzes = {"q"}
    Lessons = {"L", "M"}
    Levels = {"V"}
    LessonOf <- TightLessonOf
    LevelOf <- FullLevelOf
    TotalPoints <- TightTotals
    PassingPoints <- FullPassing
    LevelPoints <- Level10
    GradePoints = 10
    MaxPoints <- TightMax
    Percentages <- MCPercentages
    MaxStart <- TightStart
    MaxViews = 0
    MaxEdits = 2
    Ordered = FALSE
    RuleMayChange = FALSE
    RequireMayBecome = {}
INVARIANT PassCreditedOnce
PROPERTY LevelAccruesWhatLanded
CHECK_DEADLOCK FALSE
