CONSTANTS
    Capacity = 3
    IDs = {i1, i2, i3, i4, i5}
    Runs = {r1, r2, r3, r4, r5}
    NoID = NoID
    NoRun = NoRun
    Inherited = FALSE
    RequestIDs = {"q1", "q2"}
    Windows = {1, 3}
    MaxTime = 7
SPECIFICATION StoresSpec
SYMMETRY Symmetry
INVARIANTS
    RecordsTruthful
PROPERTIES
    LogSpec
    PromiseSpec
    StaleDropped
CHECK_DEADLOCK FALSE
