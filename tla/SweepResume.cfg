SPECIFICATION SweepSpec
CONSTANTS
    Grids <- BothGrids
    EvalSizes = {1}
    Verdicts = {0, 1, NaN}
    NaN = NaN
    MaxSweeps = 3
CHECK_DEADLOCK FALSE
PROPERTY SkipsTheRecorded
