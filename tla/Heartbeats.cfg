CONSTANTS
    Monitors = {m1}
    Pings = {p1, p2}
    Creates = {c1, c2}
    Sweepers = {s1, s2}
    Period = 1
    Grace = 1
    Limit = 1
    MaxTime = 4
    MaxEdits = 2
    MaxFaults = 1
SPECIFICATION FairSpec
INVARIANTS HeartbeatSafe ActiveIsArmed
PROPERTIES NoFalseAlarm NothingIsMissed
CHECK_DEADLOCK FALSE
