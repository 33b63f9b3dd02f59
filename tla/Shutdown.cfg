CONSTANTS
    Handlers = {h1, h2, h3}
    Stoppers = {"signal", "watcher"}
SPECIFICATION FairSpec
INVARIANTS
    GraceGiven
PROPERTIES
    LogsCloseLast
    StopEnds
CHECK_DEADLOCK FALSE
