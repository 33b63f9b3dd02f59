CONSTANTS
    Configs = {c1, c2}
    Tasks = {t1, t2}
    MaxSize = 2
    Retention = 1
    DayLength = 2
    Zones = {0, 1}
    None = None
    MaxLoggers = 2
    MaxLines = 5
    MaxTime = 3
    MaxFaults = 1
SPECIFICATION Spec
SYMMETRY Symmetry
INVARIANTS
    OneWriter
    TailKept
    DaysKept
CHECK_DEADLOCK FALSE
