SPECIFICATION FairSpec
CONSTANTS
    Symbols = {s1}
    Limit = 1
    ColdS = 3
    WarmS = 2
    HotS = 1
    UpgradeDwellS = 0
    HotDowngradeDwellS = 3
    WarmDowngradeDwellS = 4
    StaleS = 2
    DisconnectS = 3
    DisconnectFailures = 2
    Requests <- AllLevels
    Latencies <- OnTimeOrLate
    AgeCap = 4
    MaxTs = 2
INVARIANTS
    FreshnessHonest
    PublishedQuoteIsNewest
PROPERTIES
    ProjectionCurrent
    DowngradesSpaced
    KeepsFetching
    DeadFeedShown
