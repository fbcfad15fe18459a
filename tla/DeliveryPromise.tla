--------------------------- MODULE DeliveryPromise ---------------------------
(***************************************************************************)
(* What the way from the collectors to the rules promises, and no more: an *)
(* event reaches the rules only after it came into being, possibly never,  *)
(* and never more often than its limit (the attempts a post is given, one  *)
(* for a syslog message).                                                  *)
(***************************************************************************)
EXTENDS Naturals

CONSTANTS Events, Limit

VARIABLES arrived, copies

Init ==
    /\ arrived = {}
    /\ copies = [e \in Events |-> 0]

Arrive(e) ==
    /\ e \notin arrived
    /\ arrived' = arrived \union {e}
    /\ UNCHANGED copies

Deliver(e) ==
    /\ e \in arrived /\ copies[e] < Limit[e]
    /\ copies' = [copies EXCEPT ![e] = @ + 1]
    /\ UNCHANGED arrived

Next == \E e \in Events : Arrive(e) \/ Deliver(e)

Spec == Init /\ [][Next]_<<arrived, copies>>
=============================================================================
