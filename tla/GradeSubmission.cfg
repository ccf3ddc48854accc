SPECIFICATION Spec
CONSTANTS
    q1 = q1
    q2 = q2
    x1 = x1
    Questions <- MCQuestions
    Foreign <- MCForeign
    MaxItems = 3
    MaxImports = 1
SYMMETRY Symmetry
INVARIANTS
    VerifiedMarksAreEarned
    RequiredPassIsEarned
PROPERTY DuplicateItemsAreInert
CHECK_DEADLOCK FALSE
