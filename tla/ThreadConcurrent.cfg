SPECIFICATION Spec
CONSTANTS
    paging = paging
    threads = threads
    recall = recall
    why = why
    transfer = transfer
    predict = predict
    None = None
    Free = Free
    Concepts = {paging}
    Questions = {recall, why, transfer}
    Requests = {r1, r2}
    ConceptOf <- MCConceptOf
    TypeOf <- MCTypeOf
    PathPosition <- MCPathPosition
    Cooldown = 1
    ExplainAfter = 2
    QuizLength = 3
    ModelFollowups = TRUE

INVARIANTS
    PendingIsWorthAsking
    AdviceFollowsAttempt
PROPERTIES
    QuestionsLiveOnce
    AdvisoryIsClamped
SYMMETRY RequestSymmetry
