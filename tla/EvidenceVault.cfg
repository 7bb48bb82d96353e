CONSTANTS
    Drills = {d1}
    Writers = {w1, w2}
    Readers = {r1}
    MaxPDFs = 2
    MaxRotations = 1
    MaxAttempts = 4
    MaxFaults = 0
    HasHeartbeats = FALSE
    S3 = TRUE
    MayLoseMaster = TRUE
    FiresEarly = TRUE
SYMMETRY Symmetry
SPECIFICATION Spec
INVARIANTS KeySafe EvidenceSound
CHECK_DEADLOCK FALSE
