SPECIFICATION FairSpec
CONSTANTS
    Ids = {i1, i2}
    Workers = {w1, w2}
    QueueSize = 2
    MaxCalls = 1
    AllowRecall = TRUE
    Priorities <- TwoPriorities
    Reactivation = TRUE
    NoWorker = NoWorker
    MaxGeneration = 3
INVARIANTS
    OutstandingAccounted
    StaleWorkStaysStale
    RetiredIdsForgotten
    StatusHonest
    RetiredCallsCancelled
    BudgetWhileActive
PROPERTIES
    AnswersSettle
    ShutdownTerminates
