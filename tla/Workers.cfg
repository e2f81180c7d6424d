SPECIFICATION WorkerSpec
CONSTANTS
    e1 = e1
    r1 = r1
    r2 = r2
    NoEndpoint = NoEndpoint
    s1 = s1
    s2 = s2
    pe1 = pe1
    Endpoint <- OneEndpoint
    Replica <- OneReplica
    Batch = 1
    MaxAttempts = 2
    DisableAfter = 2
    WorkerMayStall = TRUE
    MaxEvent = 2
    MaxDelivery = 1
    MaxEdits = 1
    MaxMishaps = 1
    Server <- TwoServers
    Person <- OnePerson
    Chunks = 2
    MaxTries = 2
    MaxVideo = 2
    MaxRequests = 2
    MaxLapses = 2
INVARIANT NoOrphans
INVARIANT GuideSound
PROPERTY DeliveriesSettle
PROPERTY GuideStands
PROPERTY JobSettles
CHECK_DEADLOCK FALSE
