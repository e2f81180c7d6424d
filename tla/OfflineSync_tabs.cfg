SPECIFICATION FairSpec
CONSTANTS
    i1 = i1
    i2 = i2
    p1 = p1
    p2 = p2
    h1 = h1
    t1 = t1
    t2 = t2
    Nowhere = Nowhere
    Nobody = Nobody
    Unknown = Unknown
    Item <- OneItem
    Place <- TwoPlaces
    Holder <- NoHolder
    Tab <- TwoTabs
    Kind = {"move", "note", "check"}
    Locks = FALSE
    OtherScreen = FALSE
    MaxAttempts = 2
    PlanMax = 1
    MaxChange = 1
    MaxKey = 3
    MaxOthers = 1
PROPERTY GetsDecided
CHECK_DEADLOCK FALSE
