----------------------------- MODULE MCCorrelator -----------------------------
(* Two windowed rules for TLC: one that joins on $ip, one without a join key. *)
EXTENDS Correlator, TLC

MCRules == {"brute", "burst"}
MCPlaceholders == {"ip", "user"}
MCValues == {"a", "b"}
MCMatchKeys == ("brute" :> <<"ip", "user">>) @@ ("burst" :> <<>>)
MCWindow == ("brute" :> 2) @@ ("burst" :> 1)
MCCondition ==
    ("brute" :> [kind |-> "count", op |-> ">=", n |-> 2])
        @@ ("burst" :> [kind |-> "count", op |-> ">", n |-> 1])

Bound(ip, user) == [ip |-> ip, user |-> user]

(* A login failure only the first rule matches, one whose address is missing *)
(* while both rules match, and one that counts for both rules.               *)
MCHits ==
    {("brute" :> Bound("a", "b")) @@ ("burst" :> NoMatch),
     ("brute" :> Bound("", "b")) @@ ("burst" :> Bound("", "b")),
     ("brute" :> Bound("b", "a")) @@ ("burst" :> Bound("b", "a"))}

(* A rule that needs three events, and only its events, for the late events. *)
LateRules == {"brute"}
LateMatchKeys == "brute" :> <<"ip">>
LateWindow == "brute" :> 2
LateCondition == "brute" :> [kind |-> "count", op |-> ">=", n |-> 3]
LateHits == {"brute" :> Bound("a", "b")}

MCTimes == 0 .. 3
LateTimes == 0 .. 4
=============================================================================
