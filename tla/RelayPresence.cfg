CONSTANTS
    URLs = {"u1", "u2", "u3"}
    Clients = {"u1", "u2"}
    TTLOf <- Mixed
    PostedTTLs <- Negative
    MaxEntries = 1
    MaxTTL = 3
    MinInterval = 2
    CleanupEvery = 3
    MaxTime = 7
    MaxFaults = 1
SPECIFICATION Spec
INVARIANTS
    LimitsKept
    ExpiredGo
    KeptAlive
    GoodbyeHeard
CHECK_DEADLOCK FALSE
