CONSTANTS
    PIDs = {p1, p2, p3}
    Commands = {c1}
    NoPID = NoPID
    Serial = TRUE
    Patient = TRUE
    MaxMishaps = 1
    Updaters = {u1, u2}
    Installed = Installed
    None = None
    MaxFailures = 1
SPECIFICATION Spec
INVARIANTS
    TypesOK
    StatusTruthful
    BinaryThere
PROPERTIES
    StopsTheRightOne
    FailureKeeps
    Serves
CHECK_DEADLOCK FALSE
