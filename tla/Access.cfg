SPECIFICATION MCSpec
CONSTANTS
    None = None
    Orgs <- MCOrgs
    Schools <- MCSchools
    Curricula <- MCCurricula
    Grades <- MCGrades
    Levels <- MCLevels
    Lessons <- MCLessons
    Documents <- MCDocuments
    Learners <- MCLearners
    Logins <- MCLogins
    Classes <- MCClasses
    Learnings <- MCLearnings
    Plans <- MCPlans
    Practices <- MCPractices
    Quizzes <- MCQuizzes
    Baselines <- MCBaselines
    Links <- MCLinks
    PracticeQuestions <- MCPracticeQuestions
    QuizQuestions <- MCQuizQuestions
    LevelQuestions <- MCLevelQuestions
    BaselineQuestions <- MCBaselineQuestions
    TestStudent = "kA"
    Offline = TRUE
    Callers <- MCCallers
    Filters <- MCFilters
    Lists <- MCLists
    Pushed = {"A"}
    Weights <- MCWeights
    Earned = {1, 4}
    MaxPushes = 2
    Start <- MCStart
    MaxCount = 120
INVARIANTS
    ServedStaysInOrganisation
    AnsweredCanBeOpened
    
    CompletionViewsAgree
    PracticeShownAsItPasses
    PassIsExact
    CompletedAgreesWithProgress
CHECK_DEADLOCK FALSE
