SPECIFICATION Spec
CONSTANTS
    q1 = q1
    q2 = q2
    q3 = q3
    move = move
    note = note
    NoFingerprint = NoFingerprint
    Request <- TwoRequests
    Fingerprint <- OneFingerprint
    MaxClaims = 3
    Faults = {"partial"}
    MaxFaults = 1
INVARIANT NeverTwice
