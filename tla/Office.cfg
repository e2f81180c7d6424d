SPECIFICATION OfficeSpec
CONSTANTS
    q1 = q1
    q2 = q2
    q3 = q3
    move = move
    note = note
    NoFingerprint = NoFingerprint
    g1 = g1
    x1 = x1
    c1 = c1
    c2 = c2
    d1 = d1
    Blank = Blank
    Nobody = Nobody
    Request <- TwoRequests
    Fingerprint <- TwoFingerprints
    MaxClaims = 2
    Faults = {"lose", "partial", "expire", "slow"}
    MaxFaults = 2
    Notifier <- TwoNotifiers
    Follower <- OneFollower
    Milestone <- TwoMilestones
    MaxEvents = 2
    MaxClock = 1
    BatchSize = 1
    Rounds = 2
    MailTries = 2
    MaxLost = 1
    Staff <- TwoStaff
    Chief <- OneChief
    Subject <- OneThing
    MaxDeadlines = 2
    MaxPending = 1
    Asker <- TwoAskers
    PreFinding <- OneScratch
    LastFinding = 2
    Closest <- BothNearOne
    MaxRequests = 5
INVARIANT TypeOK
INVARIANT OneRunner
INVARIANT AnswerBelongs
INVARIANT AppliedBounded
INVARIANT NoticesSound
INVARIANT ClaimSound
PROPERTY SignoffsStand
SYMMETRY Alike
CHECK_DEADLOCK FALSE
