\* Two workers, one manual request, one fault, no sweep. The system rests when all is done.
SPECIFICATION Spec
CONSTANTS
    low = low
    high = high
    forHigh = forHigh
    forCritical = forCritical
    Api = api
    Webhooks = {low, high}
    Level <- MCLevel
    Workflows = {forHigh, forCritical}
    Threshold <- MCThreshold
    Workers = {w1, w2}
    MaxManual = 1
    MaxFaults = 1
    MaxQueued = 0
INVARIANTS
    NoRunForgotten
    AlertsTrigger
    RunCountExact
PROPERTY FinishedStays
SYMMETRY WorkerSymmetry
CHECK_DEADLOCK FALSE
