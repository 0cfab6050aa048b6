SPECIFICATION Spec
CONSTANTS
    s1 = s1
    s2 = s2
    f1 = f1
    f2 = f2
    r1 = r1
    Server = {s1, s2}
    Fingerprint = {f1, f2}
    ServerOf <- OnTwoServers
    Severities = {2, 4, 5}
    Destination = {1}
    RouteId = {r1}
    RouteShapes <- Shapes
    MaxEvents = 4
    MaxEdits = 1
    Keep = 2
    MaxAttempts = 3
    AgeCap = 2
    Caller = {}
    BatchLimit = 2
    MaxFaults = 0
INVARIANTS
    HistoryBounded
    SubscribersToldTruth
PROPERTIES
    TriageRespected
