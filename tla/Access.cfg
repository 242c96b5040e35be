SPECIFICATION FairSpec
CONSTANTS
    Subs = {"s1", "s2"}
    Accounts = {"acc"}
    AccountOf <- Owner
    MaxAttempts = 2
    StableAfter = 2
    AttemptSpacing = 2
    ReadInterval = 1
    MaxChanges = 1
INVARIANTS
    TypeOK
    FreshAnswer
    ResumesLimited
PROPERTIES
    ReadsPaced
    WaitsEnd
CHECK_DEADLOCK FALSE
