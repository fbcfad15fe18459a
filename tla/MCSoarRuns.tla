------------------------------ MODULE MCSoarRuns ------------------------------
(* A webhook of level 12 and one below it; a workflow for high and one for    *)
(* critical alerts, so that one is triggered and the other is not.           *)
EXTENDS SoarRuns, TLC

CONSTANTS low, high, forHigh, forCritical

MCLevel == [h \in Webhooks |-> IF h = low THEN 11 ELSE 12]
MCThreshold == [f \in Workflows |-> IF f = forHigh THEN High ELSE Critical]
WorkerSymmetry == Permutations(Workers)
=============================================================================
