--------------------------- MODULE MCAgentInventory ---------------------------
(* Two workers, and an agent that is new to the table.                       *)
EXTENDS AgentInventory

CONSTANTS w1, w2

MCWorkers == {w1, w2}
=============================================================================
