SPECIFICATION Spec
CONSTANTS
    Workload <- Loads
    MinBaseline = 3
    HistoryLimit = 7
    Upsets = {"evicted", "reset", "restarted", "hidden", "dropped", "unknown", "incomplete", "lost"}
    MaxPeriods = 10
    MaxShifts = 2
    MaxUpsets = 1
INVARIANTS
    TypeOK
    NoFalseAlarm
    SpikesDoNotHide
    SteadyMeansResolved
PROPERTIES
    StandardResolvesWhenReady
CHECK_DEADLOCK FALSE
