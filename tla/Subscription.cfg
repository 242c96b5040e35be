SPECIFICATION FairSpec
CONSTANTS
    Contents <- ContentSeq
    QueueCap = 1
    SetupCap = 1
    Closers = {"client", "user"}
    MaxConns = 2
    MaxUnsubs = 1
    Options = {TRUE, FALSE}
INVARIANTS
    TypeOK
    NoSilentLoss
    EndIsTold
PROPERTIES
    ErrorIsFinal
    KeepsPromise
    CallsReturn
CHECK_DEADLOCK FALSE
