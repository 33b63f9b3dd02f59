CONSTANTS
    Handlers = {h1, h2}
    ConfigLists <- RetryLists
    Requests <- RetryRequests
    IDs = {"i1"}
    MaxAsync = 1
    Outcomes = {"succeeded"}
    Capacity = 1
    Inherited = TRUE
    MaxTime = 0
    NoID = NoID
SPECIFICATION Spec
SYMMETRY Symmetry
INVARIANTS
    DedupTruthful
