CONSTANTS
    NumAssertions = 1
    FlyRunner = FALSE
    Jobs = {1, 2, 3}
    MaxSandboxes = 1
    MaxAttempts = 2
    FaultKinds = {"crash"}
    MaxFaults = 1
    MaxRegens = 0
    DumpMayVanish = FALSE
ACTION_CONSTRAINTS FirstFreeRow ReturnsFirst
SPECIFICATION FairSpec
PROPERTIES SettlesAfterCrash
CHECK_DEADLOCK FALSE
