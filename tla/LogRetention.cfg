CONSTANTS
    Configs = {c1}
    Tasks = {t1}
    MaxSize = 0
    Retention = 1
    DayLength = 6
    Zones <- West
    None = None
    MaxLoggers = 2
    MaxLines = 2
    MaxTime = 6
    MaxFaults = 0
SPECIFICATION Spec
INVARIANT DaysKept
CHECK_DEADLOCK FALSE
