SPECIFICATION Spec
CONSTANTS
    Server = {1}
    Setting = {on, off}
    Instants <- Clock
    Retention = 2
    Slack = 0
    Cap = 2
    AuditCap = 1
    None = None
    MaxEvents = 3
    MaxChanges = 2
    MaxFaults = 1
SYMMETRY SettingSymmetry
INVARIANTS
    TypeOK
    ListingExplainsSettings
    DuplicatesNeedFailures
PROPERTIES
    KeepsNewest
CHECK_DEADLOCK FALSE
