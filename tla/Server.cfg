CONSTANTS
    Addresses = {a1}
    PerMinute = 2
    Burst = 2
    Cost = 5
    Ttl = 5
    MaxSecond = 12
    Rows = {1,2,3,4}
    MaxPage = 2
    DefaultPage = 1
    MaxTime = 1
    Slots = {d1,d2,d3}
    Clients = {c1,c2}
    Keys = {k1}
    Bodies = {1,2}
    DbLimit = 1
    MaxForms = 3
    Reports = {1,2}
    SignKeys = {1,2}
    Outsider = 9
    Micro = 2
    MaxTick = 1
    MaxVersions = 2
    MaxRotations = 1
    Trials = {1,2,3}
    Cadences = {"daily","off"}
    Jumps = {1,720,1212}
    MaxJumps = 3
    LongestRun = 1
    RowCap = 1
    MaxRows = 2
    MaxMinRows = 2
    MaxTokens = 3
    Actors = {a1}
    MaxFetches = 3
    Phones = {d1,d2}
    Holders = {"ann","bob"}
    Lifetime = 3
    Margin = 1
    MaxMoment = 3
    MaxPushes = 2
    MaxWorkers = 1
    MaxRequests = 1
    MaxBoots = 2
    Orders = {1,2}
    JobSlots = 1
    LastStep = 2
    MaxRetries = 1
    MaxSize = 2
    AuditRetention = 1
    LoginAttemptsRetention = 1
    APIIdempotencyRetention = 1
    HeartbeatPingsRetention = 1
    TokenLife = 1
    LinkLife = 1
    ThrottleWindow = 1
    MaxDay = 2
    MaxAdded = 2
    Roots = {r1}
    Sections = 5
    Under <- SectionOf
    Cleared = {1, 3, 5}
SPECIFICATION Spec
INVARIANTS LimiterSafe ListingSafe CatalogSafe HandoverSafe VerdictsSafe ProcessSafe JobTablesSafe
PROPERTIES OnlyForward
CHECK_DEADLOCK FALSE
