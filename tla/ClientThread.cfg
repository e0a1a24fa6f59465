SPECIFICATION ClientSpec
CONSTANTS
    Requests = {r1, r2}
    Nobody = Nobody
    MaxEvents = 2
    MaxMessages = 2
    MaxReloads = 1
CHECK_DEADLOCK FALSE
INVARIANTS
    MessageIsOneAnswer
    CompleteIsRemembered
    SpinnerHasReader
PROPERTIES
    SettledStays
    ComposerFrees
