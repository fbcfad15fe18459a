----------------------------- MODULE MCEndpoint -----------------------------
(* Three lines, the second of which raises two alerts and the first none.    *)
EXTENDS Endpoint, TLC
MCAlertsOf == <<1, 2, 0>>
=============================================================================
