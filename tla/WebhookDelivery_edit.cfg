SPECIFICATION Spec
CONSTANTS
    e1 = e1
    r1 = r1
    r2 = r2
    NoEndpoint = NoEndpoint
    Endpoint <- OneEndpoint
    Replica <- OneReplica
    Batch = 1
    MaxAttempts = 2
    DisableAfter = 1
    WorkerMayStall = FALSE
    MaxEvent = 3
    MaxDelivery = 1
    MaxEdits = 1
    MaxMishaps = 0
INVARIANT ActiveMeansUnderLimit
CHECK_DEADLOCK FALSE
