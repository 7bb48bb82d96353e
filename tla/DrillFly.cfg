CONSTANTS
    NumAssertions = 0
    FlyRunner = TRUE
    Jobs = {j1, j2, j3}
    MaxSandboxes = 2
    MaxAttempts = 2
    FaultKinds = {"blip", "timeout"}
    MaxFaults = 2
    MaxRegens = 1
    DumpMayVanish = TRUE
SYMMETRY Symmetry
SPECIFICATION Spec
INVARIANTS TypeOK Causality DrillSafe
CHECK_DEADLOCK FALSE
