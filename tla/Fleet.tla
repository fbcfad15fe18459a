-------------------------------- MODULE Fleet --------------------------------
(***************************************************************************)
(* The endpoints as the engine and the backend know them.  The engine's    *)
(* table and the backend's copy of it meet in one place, the listing that  *)
(* a sync task asks for, and AgentInventory takes any listing the registry *)
(* may give (EngineChanges).  So a behaviour is about one of the two       *)
(* tables, chosen at the start, and the other is as at start-up.           *)
(***************************************************************************)
EXTENDS AgentRegistry, AgentInventory

VARIABLE side   \* which table this behaviour is about

Sides == {"engine", "backend"}

fleetVars == <<side, vars, inventoryVars>>

FleetInit ==
    /\ side \in Sides
    /\ Init /\ InventoryInit

FleetNext ==
    \/ side = "engine" /\ Next /\ UNCHANGED <<side, inventoryVars>>
    \/ side = "backend" /\ InventoryNext /\ UNCHANGED <<side, vars>>

FleetSpec == FleetInit /\ [][FleetNext]_fleetVars

(* Celery beat queues the task every five minutes and the workers take what  *)
(* is queued; a task that has begun goes on.  Nothing else is assumed to go  *)
(* on: neither the engine nor the manager.                                   *)
FairFleetSpec ==
    FleetSpec /\ \A w \in Workers : WF_inventoryVars(side = "backend" /\ SyncStep(w))
=============================================================================
