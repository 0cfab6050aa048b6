SPECIFICATION Spec
CONSTANTS
    Workload <- Loads
    MinBaseline = 2
    HistoryLimit = 5
    Upsets = {}
    MaxPeriods = 6
    MaxShifts = 1
    MaxUpsets = 0
PROPERTIES
    RegressionResolvedWhenReady
CHECK_DEADLOCK FALSE
