SPECIFICATION CaseSpec
CONSTANTS
    Here = here
    There = there
    ListPage = list
    Watchable <- MCWatchable
    Roles = {"untenanted", "staff", "customer"}
    MaxWrites = 2
    MaxFaults = 0
    Spared <- MCSpared
INVARIANT AutoIncrement
CHECK_DEADLOCK FALSE
