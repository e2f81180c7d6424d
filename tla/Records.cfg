SPECIFICATION RecordSpec
CONSTANTS
    s1 = s1
    s2 = s2
    p1 = p1
    v1 = v1
    k1 = k1
    k2 = k2
    NoSession = NoSession
    h1 = h1
    h2 = h2
    l1 = l1
    z1 = z1
    z2 = z2
    Key <- TwoKeys
    Session <- OneSession
    Poller <- Nobody
    Verifier <- OneVerifier
    MaxId = 4
    MaxDay = 1
    MaxDamage = 1
    PageLimit = 1
    BatchSize = 2
    Header <- TwoAlike
    Line <- OneLine
    Finisher <- TwoAlike
    MaxLinks = 2
    MaxRepeats = 1
    MaxBatches = 2
    Zone <- TwoZones
    MaxAt = 2
    MaxClock = 4
    Settle = 3
    PromptBy = 1
INVARIANT VerdictRight
INVARIANT HandoffSound
INVARIANT SightingsSound
PROPERTY DeadLinksSignNothing
SYMMETRY Alike
CHECK_DEADLOCK FALSE
