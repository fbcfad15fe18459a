SPECIFICATION Spec
CONSTANTS
    Here = here
    There = there
    ListPage = list
    Watchable <- MCWatchable
    Roles = {"untenanted", "customer"}
    MaxWrites = 2
    MaxFaults = 1
    Spared <- MCSpared
    d1 = d1
    Dashboards = {d1, d2}
    Insights = insights
    Widgets = {w1}
    Kept <- MCKept
    MaxDashRequests = 2
    f1 = f1
    Flows = {f1, f2}
    FlowsPage = flows
    New = new
    Parts = {p1}
    KeptFlows <- MCKeptFlows
    MaxSaves = 2
    a = a
    t1 = t1
    Names = {a, b}
    Texts = {t1, t2}
    NoParser = none
    NewParser = unsaved
    Builtin <- MCBuiltin
    MaxJobs = 2
    MaxAsked = 4
    Users = {alice, bob}
    MfaUsers = {bob}
    Nobody = nobody
    MaxSessions = 2
    Browsers = {b1, b2}
    Elsewhere = elsewhere
    Slots = {c1}
    Totp = totp
    MaxSecrets = 2
    MaxMfaRequests = 3
    MaxChanges = 2
    MaxOthers = 1
    MaxLosses = 1
INVARIANTS
    TypeOK
    OwnWriteShown
    ClosedHasVerdict
    NumbersDistinct
    NoMixing
    SavesKeep
    EditorMatchesStore
    ShownAnswersLast
    CacheIsOwn
    StillReachable
    BackupCodesOnce
    OwnChangeShown
PROPERTIES
    SignedInAsSubmitted
    EndsByItself
CHECK_DEADLOCK FALSE
