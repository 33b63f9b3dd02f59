CONSTANTS
    Handlers = {h1, h2, h3}
    ConfigLists <- PolicyLists
    Requests <- PolicyRequests
    IDs = {i1, i2, i3}
    MaxAsync = 2
    Outcomes = {"succeeded", "failed", "panic"}
    Capacity = 2
    Inherited = FALSE
    MaxTime = 0
    NoID = NoID
SPECIFICATION Spec
SYMMETRY Symmetry
INVARIANTS
    BlockExclusive
    OverlapsPaidFor
    RunningHasHolder
    AsyncAccounted
    RecordsTruthful
