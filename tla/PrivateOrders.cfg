SPECIFICATION FairSpec
CONSTANTS
    Consumers = {"c1", "c2"}
    Accounts = {"a"}
    AccountOf <- Joint
    Unseen = {2}
    MaxLog = 2
    MaxConns = 5
    MaxIds = 8
    MaxWire = 2
    MaxLosses = 1
    MaxFaults = 1
    Faults <- Every
INVARIANTS
    ViewsFollow
    ConsumersAgree
    NothingLeaks
CHECK_DEADLOCK FALSE
