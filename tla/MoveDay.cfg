SPECIFICATION DaySpec
CONSTANTS
    e1 = e1
    r1 = r1
    r2 = r2
    NoEndpoint = NoEndpoint
    k1 = k1
    b1 = b1
    b2 = b2
    t1 = t1
    j1 = j1
    j2 = j2
    NoCrew = NoCrew
    NoTruck = NoTruck
    NoJob = NoJob
    Endpoint <- OneEndpoint
    Replica <- TwoReplicas
    Batch = 1
    MaxAttempts = 2
    DisableAfter = 2
    WorkerMayStall = FALSE
    MaxEvent = 1
    MaxDelivery = 2
    MaxEdits = 0
    MaxMishaps = 1
    Clerk <- TwoWorkers
    Crew <- OneCrew
    Place <- ThreePlaces
    MaxQty = 1
    MaxAsked = 4
    Scanner <- TwoWorkers
    BoxLine <- TwoLines
    Truck <- OneTruck
    Ladder = 2
    MaxBatches = 5
    Engine <- TwoWorkers
    MaxTimes = 4
    MaxRows = 3
    Desk <- TwoWorkers
    Job <- TwoJobs
    Strict <- TwoJobs
    AdminOnly <- OneJob
    Ahead = 1
    MaxTime = 2
    MaxShifts = 3
    MaxAsks = 3
INVARIANT SendingSound
INVARIANT StockSound
INVARIANT LinesSound
INVARIANT AnomaliesSound
PROPERTY ImplementsQueue
PROPERTY NeverOverdrawn
PROPERTY ScansKeepOrder
PROPERTY ShiftsSound
SYMMETRY Alike
CHECK_DEADLOCK FALSE
