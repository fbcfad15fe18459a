--------------------------- MODULE AgentInventory ---------------------------
(***************************************************************************)
(* The backend's table of endpoints (models/__init__.py, Agent), which     *)
(* Celery workers copy from what the engine lists (workers/tasks.py,       *)
(* _do_sync_agents) and users remove rows from (api/v1/router.py,          *)
(* delete_agent).                                                          *)
(*                                                                         *)
(* A task asks the engine, then reads the table, then writes what it found *)
(* in one transaction at the isolation level READ COMMITTED; several       *)
(* workers may do so at once.  The rows have no tenant, and NULLs are      *)
(* distinct to a unique constraint: PostgreSQL accepts a second row of an  *)
(* agent.                                                                  *)
(*                                                                         *)
(* The engine appears by its listing, which changes as AgentRegistry lets  *)
(* it: agents are added and change, none goes.                             *)
(***************************************************************************)
EXTENDS Integers, FiniteSets, FiniteSetsExt, TLC

CONSTANTS
    AgentIds,      \* the agents
    AgentInfos,    \* what the engine says of an agent: name, address, version
    Workers,       \* the Celery processes that can run the task
    MaxChanges,    \* bound of the model: changes of the engine's listing
    MaxRemovals,   \* bound of the model: removals through the UI
    MaxFaults      \* bound of the model: tasks that raise

(* What the engine says of an agent that has enrolled; the task keeps it.    *)
Statuses == {"active", "disconnected"}
IdleWorker == [phase |-> "idle"]
Shape == [info : AgentInfos, status : Statuses]
Row == [agent : AgentIds, n : Nat, info : AgentInfos, status : Statuses]

ASSUME AgentInventoryAssumption ==
    MaxChanges \in Nat /\ MaxRemovals \in Nat /\ MaxFaults \in Nat

VARIABLES
    listed,      \* the engine's answer to GET /agents
    rows,        \* the backend's table
    worker,      \* what each Celery process is doing
    removing,    \* rows whose removal waits for the manager's answer
    changes, removals, faults,   \* counters that bound the model
    overlapped   \* history: two tasks held rows of the table at the same time

inventoryVars == <<listed, rows, worker, removing, changes, removals, faults, overlapped>>

-----------------------------------------------------------------------------
Id(r) == <<r.agent, r.n>>
RowsOf(a) == {r \in rows : r.agent = a}

(* The row numbers a removal or a sync task still holds on to.               *)
Held(a) ==
    {id[2] : id \in {i \in removing : i[1] = a}}
      \union {worker[w].existing[a].n :
                w \in {v \in Workers : worker[v].phase = "loaded"
                                         /\ a \in DOMAIN worker[v].existing}}

(* The primary key of a new row, a UUID: one that is not in use.             *)
FreshKey(a) ==
    LET used == {r.n : r \in RowsOf(a)} \union Held(a)
    IN  Min((1 .. Cardinality(used) + 1) \ used)

-----------------------------------------------------------------------------
InventoryInit ==
    /\ listed = <<>>
    /\ rows = {}
    /\ worker = [w \in Workers |-> IdleWorker]
    /\ removing = {}
    /\ changes = 0 /\ removals = 0 /\ faults = 0
    /\ overlapped = FALSE

(* An agent enrols, falls silent, is heard again, ...                        *)
EngineChanges(a, shape) ==
    /\ changes < MaxChanges
    /\ changes' = changes + 1
    /\ listed' = (a :> shape) @@ listed
    /\ UNCHANGED <<rows, worker, removing, removals, faults, overlapped>>

(* Every five minutes, and when a user asks for it.                          *)
SyncList(w) ==
    /\ worker[w] = IdleWorker
    /\ worker' = [worker EXCEPT ![w] = [phase |-> "listed", list |-> listed]]
    /\ UNCHANGED <<listed, changes, rows, removing, removals, faults, overlapped>>

(* The rows by agent id: of two rows of an agent, the one that comes last in *)
(* the result, which has no order.                                           *)
Load(w, known) ==
    /\ worker[w].phase = "listed"
    /\ \E existing \in [{r.agent : r \in known} -> known] :
            /\ \A a \in DOMAIN existing : existing[a].agent = a
            /\ worker' = [worker EXCEPT ![w] =
                    [phase |-> "loaded", list |-> worker[w].list, existing |-> existing]]
    /\ overlapped' = (overlapped \/ \E v \in Workers : worker[v].phase = "loaded")
    /\ UNCHANGED <<listed, changes, rows, removing, removals, faults>>

(* Mutant: only the rows of active agents are looked up.                     *)
SyncLoadActive(w) == Load(w, {r \in rows : r.status = "active"})

SyncLoad(w) == Load(w, rows)

(* What the session writes for a row it loaded: the columns whose value is   *)
(* not the one it read, and no others.                                       *)
Updated(row, loaded, shape) ==
    [row EXCEPT !.info = IF shape.info # loaded.info THEN shape.info ELSE @,
                !.status = IF shape.status # loaded.status THEN shape.status ELSE @]

NewRow(a, shape) ==
    [agent |-> a, n |-> FreshKey(a), info |-> shape.info, status |-> shape.status]

(* Mutant: agents the table already has are left as they are.                *)
SyncCommitNew(w) ==
    LET list == worker[w].list
        existing == worker[w].existing
        known == DOMAIN list \intersect DOMAIN existing
    IN  /\ worker[w].phase = "loaded"
        /\ \A a \in known : \E r \in rows : Id(r) = Id(existing[a])
        /\ rows' = rows \union {NewRow(a, list[a]) : a \in DOMAIN list \ known}
        /\ worker' = [worker EXCEPT ![w] = IdleWorker]
        /\ UNCHANGED <<listed, changes, removing, removals, faults, overlapped>>

(* The loop of _do_sync_agents and its commit: one transaction.              *)
SyncCommit(w) ==
    LET list == worker[w].list
        existing == worker[w].existing
        known == DOMAIN list \intersect DOMAIN existing
        touched == {Id(existing[a]) : a \in known}
    IN  /\ worker[w].phase = "loaded"
        /\ touched \subseteq {Id(r) : r \in rows}
        /\ rows' = {r \in rows : Id(r) \notin touched}
                      \union {Updated(r, existing[r.agent], list[r.agent]) :
                                r \in {q \in rows : Id(q) \in touched}}
                      \union {NewRow(a, list[a]) : a \in DOMAIN list \ known}
        /\ worker' = [worker EXCEPT ![w] = IdleWorker]
        /\ UNCHANGED <<listed, changes, removing, removals, faults, overlapped>>

(* A row to update is gone: the update matches no row, the session raises,   *)
(* nothing is committed and the task is tried again.                         *)
SyncConflict(w) ==
    LET list == worker[w].list
        existing == worker[w].existing
    IN  /\ worker[w].phase = "loaded"
        /\ \E a \in DOMAIN list \intersect DOMAIN existing :
                Id(existing[a]) \notin {Id(r) : r \in rows}
        /\ worker' = [worker EXCEPT ![w] = IdleWorker]
        /\ UNCHANGED <<listed, changes, rows, removing, removals, faults, overlapped>>

(* The engine or the database does not answer, or the process is killed: the *)
(* task comes again.                                                         *)
SyncFails(w) ==
    /\ worker[w] # IdleWorker /\ faults < MaxFaults
    /\ worker' = [worker EXCEPT ![w] = IdleWorker]
    /\ faults' = faults + 1
    /\ UNCHANGED <<listed, changes, rows, removing, removals, overlapped>>

(* delete_agent, to its call of the Wazuh manager.                           *)
RemoveStart(r) ==
    /\ r \in rows /\ removals < MaxRemovals
    /\ removing' = removing \union {Id(r)}
    /\ removals' = removals + 1
    /\ UNCHANGED <<listed, changes, rows, worker, faults, overlapped>>

(* The manager agrees.  The engine is not told.                              *)
RemoveCommit(id) ==
    /\ id \in removing
    /\ removing' = removing \ {id}
    /\ rows' = {r \in rows : Id(r) # id}
    /\ UNCHANGED <<listed, changes, worker, removals, faults, overlapped>>

(* The manager refuses or is not there: 502.                                 *)
RemoveRefused(id) ==
    /\ id \in removing
    /\ removing' = removing \ {id}
    /\ UNCHANGED <<listed, changes, rows, worker, removals, faults, overlapped>>

-----------------------------------------------------------------------------
SyncStep(w) == SyncList(w) \/ SyncLoad(w) \/ SyncCommit(w) \/ SyncConflict(w)

InventoryNext ==
    \/ \E a \in AgentIds, shape \in Shape : EngineChanges(a, shape)
    \/ \E w \in Workers : SyncStep(w) \/ SyncFails(w)
    \/ \E r \in rows : RemoveStart(r)
    \/ \E id \in removing : RemoveCommit(id) \/ RemoveRefused(id)

InventorySpec == InventoryInit /\ [][InventoryNext]_inventoryVars

-----------------------------------------------------------------------------
Duplicated == \E r, q \in rows : r.agent = q.agent /\ r.n # q.n

InventoryTypeOK ==
    /\ DOMAIN listed \subseteq AgentIds /\ \A a \in DOMAIN listed : listed[a] \in Shape
    /\ rows \subseteq Row
    /\ \A r, q \in rows : Id(r) = Id(q) => r = q
    /\ \A w \in Workers :
        /\ worker[w].phase \in {"idle", "listed", "loaded"}
        /\ worker[w] # IdleWorker => \A a \in DOMAIN worker[w].list : worker[w].list[a] \in Shape
        /\ worker[w].phase = "loaded" =>
                \A a \in DOMAIN worker[w].existing :
                    worker[w].existing[a] \in Row /\ worker[w].existing[a].agent = a
    /\ removing \subseteq AgentIds \X Nat

(* The sync tasks alone keep one row per agent as long as they do not        *)
(* overlap; the constraint uq_agent_per_tenant does not.                     *)
OneRowUnlessOverlapped == Duplicated => overlapped

(* One row per agent, as the table's constraint is meant                     *)
(* (UniqueConstraint("tenant_id", "agent_id"), models/__init__.py).          *)
OneRowPerAgent == ~Duplicated

(* When the engine's listing no longer changes, the backend comes to show    *)
(* every agent as the engine lists it - also one that was removed - whatever *)
(* stale listings, conflicts and failures came before, unless an agent has   *)
(* two rows: then one of them is forgotten.                                  *)
Converges ==
    <>[](Duplicated \/ \A a \in DOMAIN listed : \E r \in rows :
            r.agent = a /\ [info |-> r.info, status |-> r.status] = listed[a])
=============================================================================
