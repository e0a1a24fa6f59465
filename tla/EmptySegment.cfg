SPECIFICATION TrialSpec
CONSTANTS
    Idle = Idle
    Free = Free
    NoWorld = NoWorld
    Worlds <- TiedWorlds
    MaxTime = 4
    MaxSteps = 4
    MaxStumbles = 1
CHECK_DEADLOCK FALSE
INVARIANT FormDecidesNothing
