SPECIFICATION Spec
CONSTANTS
    Symbols = {s1, s2}
    EventTypes <- OneType
    Severities <- OnlyThree
    LookbackS = 1
    TtlShortS = 1
    TtlLongS = 1
    CooldownS = 1
    MaxMarketTs = 2
    MaxMono = 0
INVARIANTS
    RecentEventHasEpisode
CHECK_DEADLOCK FALSE
