SPECIFICATION Spec
CONSTANTS
    Symbols = {s1}
    EventTypes <- BreakoutTypes
    Severities <- OnlyThree
    LookbackS = 2
    TtlShortS = 1
    TtlLongS = 2
    CooldownS = 1
    MaxMarketTs = 4
    MaxMono = 0
INVARIANTS
    NoneNotInBothDirections
CHECK_DEADLOCK FALSE
