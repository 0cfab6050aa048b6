SPECIFICATION FairSpec
CONSTANTS
    s1 = s1
    s2 = s2
    f1 = f1
    f2 = f2
    r1 = r1
    Server = {s1}
    Fingerprint = {f1}
    ServerOf <- OnOneServer
    Severities = {4}
    Destination = {1}
    RouteId = {}
    RouteShapes = {}
    MaxEvents = 2
    MaxEdits = 1
    Keep = 2
    MaxAttempts = 3
    AgeCap = 0
    Caller = {c1, c2}
    BatchLimit = 1
    MaxFaults = 1
INVARIANTS
    TypeOK
    SendsAccounted
    BatchesAreOwed
PROPERTIES
    ImplementsOutbox
    EveryDeliverySettles
