SPECIFICATION TradingSpec
CONSTANTS
    Given = 1
    Old = {1}
    MaxSends = 2
    PageSize = 1
    MaxReads = 2
    Items = {"i1", "i2"}
    Window = 5
    MaxDelay = 2
    Ages = {0, 1}
    Skews <- ClockErrors
    Quantities <- FillSizes
    TradesPage = 1
    Timeout = 2
    CallTimeout = 1
    Half = 128
    MaxBig = 2047
    WideScale = 2
    MaxScale = 3
    MaxDecimal = 260
    MaxPlaces = 4
INVARIANTS
    MutationsAreKnown
    NothingLeftBehind
    ResultsAreTrue
    WindowIsKept
    ConversionsExact
PROPERTIES
    OperationsReturn
CHECK_DEADLOCK FALSE
