SPECIFICATION CaseSpec
PROPERTIES
    RequestIsServed
    ShutdownCompletes
    StartReturns
CHECK_DEADLOCK FALSE
