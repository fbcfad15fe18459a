\* Two handlers, four requests, two seconds, one restart. A behaviour ends at those bounds.
SPECIFICATION Spec
CONSTANTS
    h1 = h1
    h2 = h2
    d1 = d1
    d2 = d2
    d3 = d3
    broken = broken
    Handlers <- MCHandlers
    Names <- MCNames
    Docs <- MCDocs
    DocName <- MCDocName
    Compiling <- MCCompiling
    Base <- MCBase
    NoDoc = NoDoc
    MaxRequests = 4
    MaxClock = 1
    MaxRestarts = 1
INVARIANTS
    ServesWhatItLists
    RunningIsPersisted
    SequentialEditsSurvive
SYMMETRY HandlerSymmetry
CHECK_DEADLOCK FALSE
