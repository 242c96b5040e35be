SPECIFICATION BookSpec
CONSTANTS
    Users = {}
    Silent = {}
    MaxBuffered = 2
    MaxQueue = 2
    MaxPubs = 3
    MaxConns = 1
    MaxAsks = 3
    Outcomes <- OkOrPanic
    Events <- AllEvents
    Levels = {"bid", "ask"}
    Touch <- TouchFour
    Delta <- WithReset
    Lag = 1
    MaxUnavailable = 0
    MaxUpdates = 1
    MaxBuckets = 1
    MayFail = {"render"}
    Half = 8
    Prices = {1, 2, 3, 4, 5, 6, 7}
    Qtys = {1, 3, 7}
    Depth = 3
INVARIANTS
    BookIsServers
    NoViewBeforeSnapshot
