SPECIFICATION Spec
CONSTANTS
    Requests = {r1}
    MaxUnits = 3
    MaxTokens = 4
    MaxResets = 1
    ModelFollowups = TRUE
CHECK_DEADLOCK FALSE
INVARIANTS
    EndsOnce
    OneAttemptShown
    WithinBudget
PROPERTY TurnEnds
