SPECIFICATION ComponentsSpec
CONSTANTS
    Idle = Idle
    None = None
    Free = Free
    NoWorld = NoWorld
    NoParent = NoParent
    NaN = NaN
    Unparsed = Unparsed
    JudgeModel = 1
    Concepts <- CourseConcepts
    Questions <- MCQuestions
    ConceptOf <- MCConceptOf
    TypeOf <- MCTypeOf
    PathPosition <- MCPathPosition
    Requests = {r1}
    Cooldown = 2
    ExplainAfter = 2
    QuizLength = 3
    ModelFollowups = FALSE
    ChipMemory = 40
    MaxMessages = 3
    Named = {"deadlock"}
    Chunks <- MCChunks
    ParentOf <- MCParentOf
    Settings <- MCSettings
    RrfK = 60
    Scale = 15249024
    Levels = {0, 1}
    SchedulingProblems <- MCSchedulingProblems
    ConcurrencyProblems <- MCConcurrencyProblems
    MaxSwaps = 1
    Worlds <- MCWorlds
    MaxTime = 4
    MaxSteps = 6
    MaxStumbles = 1
    Runners <- MCRunners
    Batches <- MCBatches
    CellLists <- CellBatches
    Workers = 2
    MaxRestarts = 1
    MaxStarts = 3
    Split = "id"
    NoisePick <- MCNoise
    Outputs <- MCOutputs
    MaxSlides = 3
    MaxShapes = 2
    Pictures = {"diagram"}
    MaxParagraphs = 5
    MaxLevel = 3
    MaxSentences = 3
    MaxLength = 3
    MaxText = 11
    ChunkSize = 5
    ChunkOverlap = 2
    Grids <- MCGrids
    EvalSizes = {1}
    Verdicts = {1, NaN}
    MaxSweeps = 2
    Searched = {1, 2, 3, 4, 5, 6, 7, 8, 9, 10, 11, 12, 13, 14, 15, 16, 17, 18, 24}
    Answered = {1, 2, 3, 4, 5, 6, 9, 10, 11}
    MaxAnswer = 3
    K = 2
    StudiedTasks <- MCStudiedTasks
    MaxStudied = 2
    Total = 24
    BiasLevels = {0, 12, 18}
CHECK_DEADLOCK FALSE
INVARIANTS
    NeverAtALoss
    RankingIsSound
    BenchmarkIsSound
    OraclesAgree
    OneAnswerEach
    RunsAreComplete
    NothingIsLost
    DoneIsRecorded
    PlansAreComplete
    MarginIsCertain
PROPERTIES
    ChipsDoWhatTheySay
