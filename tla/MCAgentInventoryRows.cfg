\* Two tasks at once meet a new agent.
SPECIFICATION InventorySpec
CONSTANTS
    w1 = w1
    w2 = w2
    Workers <- MCWorkers
    AgentIds = {a1}
    AgentInfos = {v1}
    MaxChanges = 2
    MaxRemovals = 0
    MaxFaults = 0
INVARIANT OneRowPerAgent
