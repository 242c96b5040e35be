SPECIFICATION OverviewSpec
CONSTANTS
    Users = {"user"}
    Silent = {1}
    MaxBuffered = 1
    MaxQueue = 1
    MaxPubs = 3
    MaxConns = 2
    MaxAsks = 1
    Outcomes <- OkOrPanic
    Events <- UserEvents
    MarketOf <- TwoMarkets
    Selected = {"btc"}
    Listed = {"btc"}
    MaxUpdates = 1
CONSTRAINT
    OneDisturbance
INVARIANTS
    TypeOK
    MergedOnceInOrder
    NothingLostWhenLive
    RowsFollow
PROPERTIES
    DisposedIsFinal
    EndIsReported
