CONSTANTS
    Targets = {t1}
    Sample = sample
    Schedulers = {s1, s2}
    Requests = {}
    Origins = {}
    FormKeys = {}
    Hourly = 1
    Daily = 2
    Weekly = 4
    Monthly = 8
    Quota = 0
    Plans = {"starter", "closed"}
    MaxTime = 4
    MaxDrills = 6
    MaxEdits = 1
    MaxPlanChanges = 1
    MaxFaults = 0
SPECIFICATION FairSpec
INVARIANTS OneDrillPerSlot NoDrift
PROPERTIES PlanRespected
CHECK_DEADLOCK FALSE
