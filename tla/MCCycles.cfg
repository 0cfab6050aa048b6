SPECIFICATION FairSpec
CONSTANTS
    Cycle = {"all", "standard", "slow"}
    Section = {1, 3}
    Owner <- Owners
    PerDatabase = {3}
    QuerySection = 1
    ReadsFail = TRUE
    Expires = TRUE
    MaxChanges = 1
    MaxFaults = 1
INVARIANTS
    TypeOK
    CompleteMeansSaved
    NoInventedProblems
PROPERTIES
    FindingsConverge
    OwnFailureNeverResolves
