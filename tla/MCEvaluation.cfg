CONSTANTS
    None = None
    r1 = r1
    r2 = r2
    g1 = g1
    a1 = a1
    hk = hk
    AShares <- MCAShares
    Produced <- MCProduced
    Foreign <- MCForeign
    Runs <- MCRuns
    Signals <- MCSignals
    Created = {1, 2}
    FeedbackIds = {1, 2}
    MaxLog = 4
SPECIFICATION Spec
INVARIANTS
    RateFailsClosed
    ReportAddsUp
    FeedbackOrderIrrelevant
CHECK_DEADLOCK FALSE
