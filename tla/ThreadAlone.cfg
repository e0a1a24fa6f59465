SPECIFICATION Spec
CONSTANTS
    paging = paging
    threads = threads
    recall = recall
    why = why
    transfer = transfer
    predict = predict
    None = None
    Free = Free
    Concepts = {paging, threads}
    Questions = {recall, why, transfer, predict}
    Requests = {r1}
    ConceptOf <- MCConceptOf
    TypeOf <- MCTypeOf
    PathPosition <- MCPathPosition
    Cooldown = 2
    ExplainAfter = 2
    QuizLength = 3
    ModelFollowups = FALSE

INVARIANTS
    TypeOK
    QuizIsSound
    OneQuestionPerReply
    ReminderIsOpen
PROPERTIES
    MasteryFollowsEvidence
