\* Two rules, two addresses, timestamps 0..3 in any order, five events.
\* A behaviour ends when the bound on the events is reached.
SPECIFICATION Spec
CONSTANTS
    Rules <- MCRules
    Placeholders <- MCPlaceholders
    Values <- MCValues
    MatchKeys <- MCMatchKeys
    Window <- MCWindow
    Condition <- MCCondition
    Hits <- MCHits
    Times <- MCTimes
    NoMatch = NoMatch
    MaxEvents = 5
INVARIANTS
    AlertsAWindowApart
    AlertsJustified
    NoMissedDetection
CHECK_DEADLOCK FALSE
