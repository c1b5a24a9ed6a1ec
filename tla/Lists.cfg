SPECIFICATION Spec
CONSTANTS
    Ids = {i1, i2, i3}
    Keys = {k1, k2, k3}
    Requests = {r1, r2}
    None = None
    Limits = {1, 2}
    DefaultLimit = 1
    Rows = 3
SYMMETRY Symmetry
INVARIANTS
    ListsInv
    WalksMissOnlyForRemovals
    WalksRepeatOnlyForCreations
    TotalsFitTheirPage
    PermissionsShowTheFirstPage
PROPERTIES
    AnswersTellTheOutcome
CHECK_DEADLOCK FALSE
