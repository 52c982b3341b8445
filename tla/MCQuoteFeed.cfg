CONSTANTS
    Callers = {c1, c2}
    Prices = {100, 102}
    MaxVolume = 2
    MaxTs = 7
    MaxQuotes = 3
    SessionLen = 7
    Retention = 5
    MaxSize = 6
    Short = 1
    Long = 2
    MaxLag = 1
    Lookback = 1
    SampleStep = 1
    BarLen = 2
    None = None
SPECIFICATION Spec
INVARIANTS
    RequestsOnKeptContext
    EvictionInvisible
    BreakoutExact
CONSTRAINT Bound
SYMMETRY CallerSymmetry
