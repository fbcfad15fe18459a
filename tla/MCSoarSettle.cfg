\* Two workers, one webhook, one fault, sweeps. Symmetry is not used with liveness.
SPECIFICATION FairSpec
CONSTANTS
    low = low
    high = high
    forHigh = forHigh
    forCritical = forCritical
    Api = api
    Webhooks = {high}
    Level <- MCLevel
    Workflows = {forHigh, forCritical}
    Threshold <- MCThreshold
    Workers = {w1, w2}
    MaxManual = 0
    MaxFaults = 1
    MaxQueued = 1
PROPERTIES
    AlertsSettle
    RunsSettle
CHECK_DEADLOCK FALSE
