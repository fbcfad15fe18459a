\* Small channels so that all of them fill up; two attempts instead of four.
SPECIFICATION EndpointSpec
CONSTANTS
    NumLines = 3
    NumSyslog = 0
    AlertsOf <- MCAlertsOf
    InCap = 1
    MaxBatch = 2
    MaxAttempts = 2
    PipeCap = 1
    MaxAlerts = 2
    MaxHandlers = 2
    MaxCrashes = 1
    MaxPieces = 4
    MaxFiles = 2
    MaxCuts = 2
    MaxTailFaults = 2
    Paths = {p1, p2}
    Hashes = {h1, h2}
    Absent = absent
    FimAttempts = 2
    MaxRounds = 3
    MaxFimRestarts = 1
INVARIANTS
    NothingVanishes
    AckedEntered
    FollowsTheFile
    AlertsAddUp
PROPERTIES
    KeepsPromise
    InOrderUntilRetry
CHECK_DEADLOCK FALSE
