\* Touches with a stale row, late inserts, upgrades; overlapping tasks, stale
\* listings, removals, failures. The registry rests when its bounds are reached.
SPECIFICATION FairFleetSpec
CONSTANTS
    h1 = h1
    h2 = h2
    h3 = h3
    Handlers <- MCHandlers
    Agents = {a1}
    Infos = {v1, v2}
    DisconnectAfter = 2
    WriteWithin = 1
    MaxClock = 3
    MaxWrites = 4
    w1 = w1
    w2 = w2
    Workers <- MCWorkers
    AgentIds = {a1, a2}
    AgentInfos = {v1}
    MaxChanges = 3
    MaxRemovals = 1
    MaxFaults = 1
INVARIANTS
    EnrolmentStands
    ActiveWhileHeard
    OneRowUnlessOverlapped
PROPERTY Converges
CHECK_DEADLOCK FALSE
