SPECIFICATION Spec
CONSTANTS
    Requests = {r1, r2}
    MaxUnits = 1
    MaxTokens = 1
    MaxResets = 1
    ModelFollowups = FALSE
CHECK_DEADLOCK FALSE
SYMMETRY RequestSymmetry
INVARIANTS
    HistoryIsAnswered
PROPERTY KeepsPromise
