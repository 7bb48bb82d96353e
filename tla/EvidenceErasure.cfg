CONSTANTS
    Drills = {d1, d2}
    Writers = {w1}
    Readers = {r1}
    MaxPDFs = 2
    MaxRotations = 0
    MaxAttempts = 3
    MaxFaults = 1
    HasHeartbeats = FALSE
    S3 = FALSE
    MayLoseMaster = FALSE
    FiresEarly = TRUE
SPECIFICATION FairSpec
PROPERTIES KeptUntilExpiry ErasureHappens
CHECK_DEADLOCK FALSE
