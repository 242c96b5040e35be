SPECIFICATION CredentialsSpec
CONSTANTS
    Callers <- CallerSet
    Keys = {k1}
    MaxInt = 4
    Skew = 1
    Backpressure = 2
    Clocks <- ClockSet
    MaxRuns = 5
    MaxPings = 2
INVARIANTS
    CredentialsTypeOK
    TimestampsAreValid
    StopIsExact
    EachRenewalOnce
PROPERTIES
    CredentialsReturn
CHECK_DEADLOCK FALSE
