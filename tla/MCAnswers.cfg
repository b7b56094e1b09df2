CONSTANTS
    Notifier = {n1, n2, n3}
    MaxTry = 3
    None = None
    Ids <- MCIds
    Syncs <- MCSyncs
SPECIFICATION AnswersSpec
INVARIANT AnswersSafe
PROPERTIES
    ErasedWhenAnswered AnswerArrives
    BatchAnswerArrives
CHECK_DEADLOCK FALSE
