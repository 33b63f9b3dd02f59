CONSTANTS
    Reloaders = {"watcher", "api"}
    Handlers = {h1}
    MaxEdits = 2
SPECIFICATION FairSpec
INVARIANTS
    ManagerWhole
    EngineFollows
    LoggerCurrent
PROPERTY AskedTakesEffect
CHECK_DEADLOCK FALSE
