------------------------------ MODULE Correlator ------------------------------
(***************************************************************************)
(* The windowed evaluation of YARA-L rules that have a `match` clause      *)
(* (engine/correlator.go).  The pipeline goroutine feeds one normalized    *)
(* event at a time to Observe, which runs under the correlator's mutex, so *)
(* one event is one step.                                                  *)
(*                                                                         *)
(* An event is abstracted to its timestamp and, for every windowed rule,   *)
(* what matchEvent returned for the rule's first event variable: NoMatch,  *)
(* or the values its placeholders are bound to.  Timestamps come from the  *)
(* agents' clocks, so nothing orders them.  Two equal timestamps are two   *)
(* entries of the Go slice winState.times; here an entry is the position   *)
(* in log of the event that brought it, and times is a set of positions.   *)
(***************************************************************************)
EXTENDS Integers, Sequences, FiniteSets, SequencesExt

CONSTANTS
    Rules,          \* the windowed rules, named apart
    Placeholders,   \* the join variables, $ip for instance
    Values,         \* the strings a placeholder can be bound to
    MatchKeys,      \* MatchKeys[r]: the placeholders of r's match clause
    Window,         \* Window[r]: the duration of its `over` clause
    Condition,      \* Condition[r]: its condition clause, parsed
    Times,          \* the timestamps events carry
    Hits,           \* what matchEvent can return for one event, over all rules
    NoMatch,        \* matchEvent returned false
    MaxEvents       \* bound of the model: events observed

Absent == ""        \* a placeholder the event leaves unbound or empty

Bindings == [Placeholders -> Values \union {Absent}]

Conditions ==
    [kind : {"count"}, op : {">=", ">", "==", "="}, n : Nat]
        \union [kind : {"boolean"}]

ASSUME CorrelatorAssumption ==
    /\ Window \in [Rules -> Nat]
    /\ Condition \in [Rules -> Conditions]
    /\ MatchKeys \in [Rules -> Seq(Placeholders)]
    /\ Hits \subseteq [Rules -> Bindings \union {NoMatch}]
    /\ Times \subseteq Nat
    /\ MaxEvents \in Nat

VARIABLES
    log,      \* history: the events observed so far
    state,    \* c.state: the window of every rule and join key seen
    alerts    \* history: the alerts raised, each with the event that raised it

vars == <<log, state, alerts>>

-----------------------------------------------------------------------------
Never == -1   \* the zero time.Time of firedAt, centuries before any event

(* The text of a count condition fixes the least count that fires the rule. *)
ConditionMin(cond) == IF cond.op = ">" THEN cond.n + 1 ELSE cond.n

(* A boolean combination of event variables needs one event. *)
CountThreshold(r) ==
    IF Condition[r].kind = "count" THEN ConditionMin(Condition[r]) ELSE 1

JoinKey(parts) ==
    FoldLeft(LAMBDA joined, part : joined \o "|" \o part, Head(parts), Tail(parts))

(* The state key of an event under rule r; not ok when a join key is absent. *)
GroupKey(r, binds) ==
    LET parts == [i \in DOMAIN MatchKeys[r] |-> binds[MatchKeys[r][i]]]
    IN  CASE MatchKeys[r] = <<>>       -> [key |-> "*", ok |-> TRUE]
          [] Absent \in Range(parts)   -> [key |-> "", ok |-> FALSE]
          [] OTHER                     -> [key |-> JoinKey(parts), ok |-> TRUE]

Counted(r, e) == e.hits[r] # NoMatch /\ GroupKey(r, e.hits[r]).ok

StateKey(r, e) == <<r, GroupKey(r, e.hits[r]).key>>

Touched(e) == {StateKey(r, e) : r \in {q \in Rules : Counted(q, e)}}

EmptyWindow == [times |-> {}, firedAt |-> Never]

WinOf(sk) == IF sk \in DOMAIN state THEN state[sk] ELSE EmptyWindow

(* Mutant: the cutoff reaches one tick too far back. *)
PruneWindowLate(times, stamp, newest, window) ==
    {i \in times : stamp[i] >= newest - window - 1}

(* Mutant: an event exactly one window old is pruned. *)
PruneWindowStrict(times, stamp, newest, window) ==
    {i \in times : stamp[i] > newest - window}

(* pruneWindow: newest is the timestamp appended last, not the latest one. *)
PruneWindow(times, stamp, newest, window) ==
    {i \in times : stamp[i] >= newest - window}

Fires(r, times, firedAt, ts) ==
    /\ Cardinality(times) >= CountThreshold(r)
    /\ firedAt = Never \/ ts - firedAt >= Window[r]

(* What Observe leaves in the window of rule sk[1] when the event comes. *)
Slid(sk, stamp, ts) ==
    PruneWindow(WinOf(sk).times \union {Len(log) + 1}, stamp, ts, Window[sk[1]])

(* Mutant: only the first alert is remembered. *)
NextWindowFirstFire(sk, stamp, ts) ==
    LET kept == Slid(sk, stamp, ts)
    IN  [times |-> kept,
         firedAt |-> IF WinOf(sk).firedAt = Never /\ Fires(sk[1], kept, Never, ts)
                     THEN ts ELSE WinOf(sk).firedAt]

NextWindow(sk, stamp, ts) ==
    LET kept == Slid(sk, stamp, ts)
    IN  [times |-> kept,
         firedAt |-> IF Fires(sk[1], kept, WinOf(sk).firedAt, ts)
                     THEN ts ELSE WinOf(sk).firedAt]

Stamps(events) == [i \in DOMAIN events |-> events[i].ts]

-----------------------------------------------------------------------------
Init ==
    /\ log = <<>>
    /\ state = <<>>
    /\ alerts = {}

Observe(e) ==
    LET stamp == Stamps(Append(log, e))
        after == [sk \in Touched(e) |-> NextWindow(sk, stamp, e.ts)]
        keep  == {sk \in DOMAIN state \union Touched(e) :
                      sk \in Touched(e) => after[sk].times # {}}
    IN  /\ log' = Append(log, e)
        /\ state' = [sk \in keep |->
                        IF sk \in Touched(e) THEN after[sk] ELSE state[sk]]
        /\ alerts' = alerts \union
              {[sk |-> sk, at |-> Len(log) + 1] : sk \in
                 {k \in Touched(e) :
                    Fires(k[1], Slid(k, stamp, e.ts), WinOf(k).firedAt, e.ts)}}

Next ==
    /\ Len(log) < MaxEvents
    /\ \E ts \in Times, hits \in Hits : Observe([ts |-> ts, hits |-> hits])

Spec == Init /\ [][Next]_vars

-----------------------------------------------------------------------------
(* The events of the log that rule r counted under state key sk. *)
HitsOf(sk) == {i \in DOMAIN log : sk \in Touched(log[i])}

Event == [ts : Times, hits : Hits]
Win == [times : SUBSET DOMAIN log, firedAt : Times \union {Never}]

(* Every variable has its type: the log holds events, the window of every   *)
(* tracked key holds positions of the log, and alerts name tracked keys.    *)
TypeOK ==
    /\ log \in Seq(Event)
    /\ \A sk \in DOMAIN state : state[sk] \in Win
    /\ alerts \subseteq [sk : DOMAIN state, at : DOMAIN log]

(* "re-arms after one window so a sustained attack produces periodic (not    *)
(* per-event) alerts" (correlator.go:17): whatever the order of timestamps,  *)
(* two alerts of one rule and key are at least a window apart, later alerts  *)
(* carrying later timestamps.                                                *)
AlertsAWindowApart ==
    \A a, b \in alerts :
        a.sk = b.sk /\ a.at < b.at
            => log[b.at].ts - log[a.at].ts >= Window[a.sk[1]]

(* Observe raises no alert out of thin air: at the event that raised it, the *)
(* log held as many events of that rule and key as the condition asks for,   *)
(* none of them older than a window before that event.                       *)
AlertsJustified ==
    \A a \in alerts :
        Cardinality({i \in HitsOf(a.sk) :
                        /\ i <= a.at
                        /\ log[i].ts >= log[a.at].ts - Window[a.sk[1]]})
            >= CountThreshold(a.sk[1])

(* The events of sk up to position n came in timestamp order. *)
InOrderUpTo(sk, n) ==
    \A i, j \in HitsOf(sk) : i <= j /\ j <= n => log[i].ts <= log[j].ts

(* Pruning and re-arming miss nothing: when a key's events come in order and *)
(* the window that ends at one of them holds enough of them, an alert of     *)
(* that key is raised there or was raised less than a window before.         *)
NoMissedDetection ==
    \A sk \in DOMAIN state : \A n \in HitsOf(sk) :
        /\ InOrderUpTo(sk, n)
        /\ Cardinality({i \in HitsOf(sk) :
                           i <= n /\ log[i].ts >= log[n].ts - Window[sk[1]]})
               >= CountThreshold(sk[1])
        => \E a \in alerts :
               /\ a.sk = sk /\ a.at <= n
               /\ a.at = n \/ log[n].ts - log[a.at].ts < Window[sk[1]]

(* "so a count reflects only events inside the sliding window"              *)
(* (correlator.go:111): when an alert is raised, some interval one window    *)
(* long holds as many of the key's events as its condition asks for.         *)
CountInsideOneWindow ==
    \A a \in alerts : \E start \in Times :
        Cardinality({i \in HitsOf(a.sk) :
                        /\ i <= a.at
                        /\ log[i].ts \in start .. start + Window[a.sk[1]]})
            >= CountThreshold(a.sk[1])

=============================================================================
