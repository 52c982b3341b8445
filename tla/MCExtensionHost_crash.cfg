CONSTANTS
    c1 = c1
    c2 = c2
    Callers <- TwoCallers
    MaxRetries = 2
    MaxCommands = 1
    MaxManagers = 3
SPECIFICATION Spec
INVARIANT CrashAnswered
CHECK_DEADLOCK FALSE
