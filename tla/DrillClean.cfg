CONSTANTS
    NumAssertions = 2
    FlyRunner = FALSE
    Jobs = {j1, j2}
    MaxSandboxes = 1
    MaxAttempts = 2
    FaultKinds = {}
    MaxFaults = 0
    MaxRegens = 0
    DumpMayVanish = TRUE
SPECIFICATION FairSpec
INVARIANTS OutcomeAgrees
PROPERTIES Settles ImplementsLifecycle
CHECK_DEADLOCK FALSE
