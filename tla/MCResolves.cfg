SPECIFICATION Spec
CONSTANTS
    Cycle = {"all", "fast", "slow"}
    Section = {3}
    Owner <- Owners
    PerDatabase = {3}
    QuerySection = 1
    ReadsFail = FALSE
    Expires = FALSE
    MaxChanges = 0
    MaxFaults = 1
PROPERTIES
    FailureNeverResolves
