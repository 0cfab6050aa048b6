SPECIFICATION FairSpec
CONSTANTS
    Finding = {1, 2, 3}
    Category <- Categories
    Resource <- Resources
    Cycle = {"fast", "slow"}
    Window = 1
    Recent = 1
    Retention = 1
    FindingLimit = 3
    Lag = 1
    MaxTime = 2
    MaxChanges = 1
    MaxFaults = 1
INVARIANTS
    TypeOK
    ActiveIncidentsDisjoint
    GroupingCorrect
PROPERTIES
    IncidentsConverge
