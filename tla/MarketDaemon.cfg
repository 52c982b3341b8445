SPECIFICATION FairSpec
CONSTANTS
    Watchlists = {a, b}
    NoWatchlist = NoWatchlist
INVARIANTS
    WatchlistStableInTick
    CleanExit
PROPERTIES
    FramesOnlyWhileRunning
    ShutdownAckIsLast
    CommandsServed
    ShutdownExits
    KeepsTicking
CHECK_DEADLOCK FALSE
