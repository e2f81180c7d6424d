SPECIFICATION FairSpec
CONSTANTS
    s1 = s1
    s2 = s2
    p1 = p1
    v1 = v1
    k1 = k1
    k2 = k2
    NoSession = NoSession
    Key <- OneKey
    Session <- TwoSessions
    Poller <- OnePoller
    Verifier <- Nobody
    MaxId = 3
    MaxDay = 2
    MaxDamage = 0
    PageLimit = 1
    BatchSize = 2
INVARIANT TypeOK
INVARIANT OneChain
INVARIANT PollerMissesNothing
INVARIANT CheckpointExact
PROPERTY OneScheduledCheckpointPerDay
PROPERTY WritersFinish
CHECK_DEADLOCK FALSE
