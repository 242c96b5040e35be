SPECIFICATION FairSpec
CONSTANTS
    Users = {}
    Silent = {}
    MaxBuffered = 1
    MaxQueue = 1
    MaxPubs = 0
    MaxConns = 1
    MaxAsks = 0
    Outcomes = {"ok"}
    Events = {"earlyStop"}
PROPERTIES
    StartReturns
CHECK_DEADLOCK FALSE
