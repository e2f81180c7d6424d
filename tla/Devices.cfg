SPECIFICATION DeviceSpec
CONSTANTS
    i1 = i1
    i2 = i2
    p1 = p1
    p2 = p2
    h1 = h1
    t1 = t1
    t2 = t2
    Nowhere = Nowhere
    Nobody = Nobody
    Unknown = Unknown
    NoZone = NoZone
    ph1 = ph1
    ph2 = ph2
    Item <- OneItem
    Place <- TwoPlaces
    Holder <- NoHolder
    Tab <- TwoTabs
    Kind = {"move", "note", "check"}
    Locks = FALSE
    OtherScreen = TRUE
    MaxAttempts = 1
    PlanMax = 1
    MaxChange = 1
    MaxKey = 3
    MaxOthers = 1
    Photo <- TwoPhotos
    Count <- OneAndTwo
    Room <- TwoAreas
    Reader <- TwoReaders
    FirstCap = 2
    MaxCap = 2
    MaxDraft = 3
    MaxReviews = 3
    MaxStale = 1
    MaxFix = 3
    Dwell = 1
    REANCHOR_AFTER = 2
    MaxDrawings = 2
    MaxUploads = 4
    Zone <- TwoAreas
    Sweeper <- TwoReaders
    DwellMs = 1
    StoreMs = 1
    MissingMs = 3
    IdleMs = 3
    MaxTime = 6
    MaxFails = 1
    MaxStops = 1
INVARIANT AppliedExactlyOnce
INVARIANT ReviewSound
INVARIANT FencesSound
PROPERTY EditsStand
PROPERTY TagsSound
SYMMETRY Alike
CHECK_DEADLOCK FALSE
