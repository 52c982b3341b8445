CONSTANTS
    c1 = c1
    c2 = c2
    Callers <- TwoCallers
    MaxRetries = 1
    MaxCommands = 4
    MaxManagers = 2
SPECIFICATION Spec
SYMMETRY Symmetry
INVARIANTS
    NoOrphan
    FeedbackReachesItsRun
CHECK_DEADLOCK FALSE
