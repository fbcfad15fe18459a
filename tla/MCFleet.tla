------------------------------- MODULE MCFleet -------------------------------
(* For the registry one host whose agent is upgraded from one version to      *)
(* another, and three requests or inserts adrift at once; for the copy two    *)
(* agents and two workers, so that a conflict on the row of one agent also    *)
(* costs the other its update.                                                *)
EXTENDS Fleet

CONSTANTS h1, h2, h3, w1, w2

MCHandlers == {h1, h2, h3}
MCWorkers == {w1, w2}
=============================================================================
