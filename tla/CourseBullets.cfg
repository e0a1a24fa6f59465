SPECIFICATION CourseSpec
CONSTANTS
    None = None
    Free = Free
    Concepts <- MCConcepts
    Questions <- MCQuestions
    ConceptOf <- MCConceptOf
    TypeOf <- MCTypeOf
    PathPosition <- MCPathPosition
    Requests = {r1}
    Cooldown = 2
    ExplainAfter = 2
    QuizLength = 3
    ModelFollowups = FALSE
    ChipMemory = 40
    MaxMessages = 3
    Named = {"deadlock"}
PROPERTY BulletsReshape
CHECK_DEADLOCK FALSE
