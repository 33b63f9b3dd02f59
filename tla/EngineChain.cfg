CONSTANTS
    Handlers = {h1, h2}
    ConfigLists <- LiveLists
    Requests <- ChainRequests
    IDs = {"i1", "i2"}
    MaxAsync = 1
    Outcomes = {"succeeded", "panic"}
    Capacity = 2
    Inherited = TRUE
    MaxTime = 1
    NoID = NoID
SPECIFICATION FairSpec
INVARIANTS
    CooldownSpaced
    DedupOnce
    FirstMatchWins
PROPERTIES
    Answered
    AcceptedEnds
