SPECIFICATION Spec
CONSTANTS
    i1 = i1
    i2 = i2
    p1 = p1
    p2 = p2
    h1 = h1
    t1 = t1
    t2 = t2
    Nowhere = Nowhere
    Nobody = Nobody
    Unknown = Unknown
    Item <- OneItem
    Place <- TwoPlaces
    Holder <- OneHolder
    Tab <- OneTab
    Kind = {"move", "hold"}
    Locks = TRUE
    OtherScreen = FALSE
    MaxAttempts = 2
    PlanMax = 2
    MaxChange = 2
    MaxKey = 3
    MaxOthers = 1
INVARIANT TypeOK
PROPERTY QueueSound
SYMMETRY PlacesAlike
CHECK_DEADLOCK FALSE
