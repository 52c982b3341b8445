SPECIFICATION Spec
CONSTANTS
    Symbols = {s1}
    EventTypes <- MoveVolumeTypes
    Severities <- OnlyThree
    LookbackS = 1
    TtlShortS = 1
    TtlLongS = 2
    CooldownS = 2
    MaxMarketTs = 2
    MaxMono = 2
INVARIANTS
    EpisodeIdsUnique
    TracesMatchActive
    RecentEventHasEpisode
    AlertCoversPriority
PROPERTIES
    IdentityStable
CHECK_DEADLOCK FALSE
