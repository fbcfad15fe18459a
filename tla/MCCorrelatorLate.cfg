\* One rule that counts three events in a window of two, late timestamps.
SPECIFICATION Spec
CONSTANTS
    Rules <- LateRules
    Placeholders <- MCPlaceholders
    Values <- MCValues
    MatchKeys <- LateMatchKeys
    Window <- LateWindow
    Condition <- LateCondition
    Hits <- LateHits
    Times <- LateTimes
    NoMatch = NoMatch
    MaxEvents = 4
INVARIANT CountInsideOneWindow
CHECK_DEADLOCK FALSE
