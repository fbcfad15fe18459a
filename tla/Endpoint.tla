------------------------------- MODULE Endpoint -------------------------------
(***************************************************************************)
(* What reaches the engine from a host: lines through the Forwarder, the   *)
(* file they are read from, and the reports on files.  main.go starts a    *)
(* goroutine for each; a collector hands its lines to Submit, which takes  *)
(* them at any time and never blocks, and reports are posted beside the    *)
(* Forwarder's loop.  They share no other state, so a behaviour is about   *)
(* one of them, chosen at the start, and the others are as at start-up.    *)
(***************************************************************************)
EXTENDS Delivery, TailFile, FileIntegrity

VARIABLE task   \* which of them this behaviour is about

EndpointTasks == {"forward", "tail", "integrity"}

endpointVars == <<task, vars, tailVars, fimVars>>

EndpointInit ==
    /\ task \in EndpointTasks
    /\ Init /\ TailInit /\ FimInit

Only(t) ==
    /\ task = t /\ UNCHANGED task
    /\ IF t = "forward" THEN TRUE ELSE UNCHANGED vars
    /\ IF t = "tail" THEN TRUE ELSE UNCHANGED tailVars
    /\ IF t = "integrity" THEN TRUE ELSE UNCHANGED fimVars

EndpointNext ==
    \/ Only("forward") /\ Next
    \/ Only("tail") /\ TailNext
    \/ Only("integrity") /\ FimNext

EndpointSpec == EndpointInit /\ [][EndpointNext]_endpointVars
=============================================================================
