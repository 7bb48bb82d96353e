CONSTANTS
    Targets = {t1}
    Sample = sample
    Schedulers = {s1}
    Requests = {r1, r2}
    Origins = {"web", "api", "sample", "replay"}
    FormKeys = {k1}
    Hourly = 1
    Daily = 2
    Weekly = 4
    Monthly = 8
    Quota = 2
    Plans = {"trial", "lapsed"}
    MaxTime = 3
    MaxDrills = 6
    MaxEdits = 0
    MaxPlanChanges = 0
    MaxFaults = 1
SYMMETRY Symmetry
SPECIFICATION Spec
INVARIANTS QueuedOnce AcceptedIsQueued
CHECK_DEADLOCK FALSE
