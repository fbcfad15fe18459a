----------------------------- MODULE MCDelivery -----------------------------
(* Three events, the second of which raises two alerts and the first none.   *)
EXTENDS Delivery, TLC
MCAlertsOf == <<1, 2, 0>>
=============================================================================
