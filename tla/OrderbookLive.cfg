SPECIFICATION FairBookSpec
CONSTANTS
    Users = {}
    Silent = {}
    MaxBuffered = 1
    MaxQueue = 1
    MaxPubs = 1
    MaxConns = 1
    MaxAsks = 3
    Outcomes <- OkOnly
    Events = {"request"}
    Levels = {"bid", "ask"}
    Touch <- TouchTwo
    Delta <- Malformed
    Lag = 0
    MaxUnavailable = 2
    MaxUpdates = 1
    MaxBuckets = 0
    MayFail = {}
    Half = 8
    Prices = {1, 2, 3, 4, 5, 6, 7}
    Qtys = {1, 3, 7}
    Depth = 3
INVARIANTS
    DisplayIsExact
PROPERTIES
    RecheckContinues
    CatchesUp
