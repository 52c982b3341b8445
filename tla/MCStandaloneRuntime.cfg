SPECIFICATION RuntimeSpec
CONSTANTS
    Symbols = {s1, s2}
    Unwatched = {u1}
    Limit = 2
    ColdS = 2
    WarmS = 2
    HotS = 1
    UpgradeDwellS = 0
    HotDowngradeDwellS = 1
    WarmDowngradeDwellS = 1
    StaleS = 1
    DisconnectS = 2
    DisconnectFailures = 1
    Requests <- OneLevel
    Latencies <- OnTime
    AgeCap = 2
    MaxTs = 1
    BufferLen = 2
    MaxEvents = 3
INVARIANTS
    ToolsHonest
PROPERTIES
    StopIsFinal
    DeadFeedTold
