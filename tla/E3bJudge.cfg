SPECIFICATION RunSpec
CONSTANTS
    Runners <- CellRunner
    Batches <- NoBatches
    CellLists <- CellBatches
    Split = "id"
    NoisePick <- MCNoise
    Outputs <- MCOutputs
    Unparsed = Unparsed
    JudgeModel = 1
    Workers = 1
    MaxRestarts = 0
    MaxStarts = 3
CHECK_DEADLOCK FALSE
INVARIANT EveryOutputIsJudged
