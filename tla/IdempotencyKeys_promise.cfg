SPECIFICATION FairSpec
CONSTANTS
    q1 = q1
    q2 = q2
    q3 = q3
    move = move
    note = note
    NoFingerprint = NoFingerprint
    Request <- ThreeRequests
    Fingerprint <- OneFingerprint
    MaxClaims = 2
    Faults = {"lose", "partial", "expire", "slow"}
    MaxFaults = 1
PROPERTY KeepsPromise
PROPERTY GetsThrough
