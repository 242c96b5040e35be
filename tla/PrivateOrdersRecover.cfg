SPECIFICATION FairSpec
CONSTANTS
    Consumers = {"c1"}
    Accounts = {"a"}
    AccountOf <- Joint
    Unseen = {2}
    MaxLog = 2
    MaxConns = 5
    MaxIds = 8
    MaxWire = 2
    MaxLosses = 1
    MaxFaults = 1
    Faults <- Every
CHECK_DEADLOCK FALSE
PROPERTIES
    Recovers
