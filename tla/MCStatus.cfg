SPECIFICATION FairSpec
CONSTANTS
    Cycle = {"all", "fast", "slow"}
    Section = {"locks", "tables"}
    OwnerOf <- Owners
    PerDatabase = {"tables"}
    Interval <- Intervals
    Old = 3
    MaxFaults = 1
INVARIANTS
    TypeOK
    LabelsHonest
    NothingOfDeleted
PROPERTIES
    StatusRecovers
    OutageNoticed
