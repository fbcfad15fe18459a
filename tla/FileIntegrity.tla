----------------------------- MODULE FileIntegrity -----------------------------
(***************************************************************************)
(* File integrity monitoring: the agent's rounds (agent/fim.go), which     *)
(* compare what a walk finds with what the walk before found and post the  *)
(* differences, with postJSON's attempts (agent/forward.go), and the       *)
(* handler that inserts an alert for each (engine/fim.go).                 *)
(*                                                                         *)
(* Files change while the walk goes on, and those that cannot be read are  *)
(* skipped, so a walk may find anything.  Alerts carry the time the agent  *)
(* gave them, the number of the round.  A post that is repeated stores its *)
(* alerts again, under other ids; the set of alerts does not count them.   *)
(***************************************************************************)
EXTENDS Naturals, FiniteSets

CONSTANTS
    Paths, Hashes,
    Absent,         \* what a walk finds of a file that is not there
    FimAttempts,    \* attempts of postJSON (4)
    MaxRounds,      \* bound of the model: rounds
    MaxFimRestarts  \* bound of the model: restarts of the agent

ASSUME FileIntegrityAssumption ==
    /\ Absent \notin Hashes
    /\ FimAttempts \in Nat \ {0} /\ MaxRounds \in Nat /\ MaxFimRestarts \in Nat

VARIABLES
    prev, first,  \* what the round before found; it is the first round
    cur,          \* what this round has found
    posting,      \* PostFIM is in its attempts
    tries,        \* attempts made
    round,        \* rounds begun
    alerts,       \* alerts in wazuh_alerts
    adrift,       \* inserts given up by the engine that may still be executed
    restarts,     \* counter that bounds the model
    missed,       \* history: paths whose last change was given up and not stored
    baseline      \* history: what the first round found, and its number

fimVars == <<prev, first, cur, posting, tries, round, alerts, adrift, restarts, missed,
             baseline>>

Walks == [Paths -> Hashes \union {Absent}]
Nothing == [p \in Paths |-> Absent]
FimEvents == [path: Paths, action: {"created", "modified", "deleted"},
              sha: Hashes \union {Absent}, round: 1 .. MaxRounds]

FimInit ==
    /\ prev = Nothing /\ first = TRUE /\ cur = Nothing
    /\ posting = FALSE /\ tries = 0 /\ round = 0
    /\ alerts = {} /\ adrift = {} /\ restarts = 0
    /\ missed = {} /\ baseline = [found |-> Nothing, round |-> 0]

-----------------------------------------------------------------------------
fim(p, action, sha, n) == [path |-> p, action |-> action, sha |-> sha, round |-> n]

\* Mutant: files that are gone are not looked for.
DifferencesFound(old, new) == {p \in Paths : new[p] \notin {Absent, old[p]}}

Differences(old, new) == {p \in Paths : new[p] # old[p]}

\* What a round reports; the first one reports no new files, and knows no others.
Report(old, new, isFirst, n) ==
    {IF old[p] = Absent THEN fim(p, "created", new[p], n)
     ELSE IF new[p] = Absent THEN fim(p, "deleted", Absent, n)
     ELSE fim(p, "modified", new[p], n)
        : p \in {q \in Differences(old, new) : ~(isFirst /\ old[q] = Absent)}}

events == Report(prev, cur, first, round)

\* The end of a round, whatever became of the post.
MovesOn(found) == prev' = found /\ first' = FALSE

\* A walk and the comparison; without differences nothing is posted.
Round(found) ==
    /\ ~posting /\ round < MaxRounds /\ round' = round + 1
    /\ IF Report(prev, found, first, round') = {}
       THEN MovesOn(found) /\ UNCHANGED <<cur, posting, tries>>
       ELSE cur' = found /\ posting' = TRUE /\ tries' = 0 /\ UNCHANGED <<prev, first>>
    /\ baseline' = IF first THEN [found |-> found, round |-> round'] ELSE baseline
    /\ UNCHANGED <<alerts, adrift, restarts, missed>>

\* PostFIM returns; an error is only logged.
Returns(stored) ==
    /\ posting' = FALSE /\ tries' = 0 /\ cur' = Nothing /\ MovesOn(cur)
    /\ missed' = (missed \ {e.path : e \in events}) \union {e.path : e \in events \ stored}
    /\ UNCHANGED <<round, restarts, baseline>>

\* An attempt is answered 202: the alerts were inserted.
Accepted ==
    /\ posting
    /\ alerts' = alerts \union events /\ UNCHANGED adrift
    /\ Returns(alerts')

\* An attempt fails: it did not get there, the insert failed, or it was executed,
\* now or later, and the answer does not say so.
Attempt(now, later) ==
    /\ posting
    /\ alerts' = alerts \union now /\ adrift' = adrift \union later
    /\ IF tries + 1 < FimAttempts
       THEN tries' = tries + 1
            /\ UNCHANGED <<prev, first, cur, posting, round, restarts, missed, baseline>>
       ELSE Returns(alerts')

AttemptFailed == Attempt({}, {}) \/ Attempt(events, {}) \/ Attempt({}, {events})

LandsLate(block) ==
    /\ alerts' = alerts \union block /\ adrift' = adrift \ {block}
    /\ UNCHANGED <<prev, first, cur, posting, tries, round, restarts, missed, baseline>>

\* The baseline is memory: what changes until the next first round is not reported.
FimRestarts ==
    /\ restarts < MaxFimRestarts /\ restarts' = restarts + 1
    /\ prev' = Nothing /\ first' = TRUE /\ cur' = Nothing
    /\ posting' = FALSE /\ tries' = 0 /\ missed' = {}
    /\ UNCHANGED <<round, alerts, adrift, baseline>>

FimNext ==
    \/ \E found \in Walks : Round(found)
    \/ Accepted \/ AttemptFailed
    \/ \E block \in adrift : LandsLate(block)
    \/ FimRestarts

FimSpec == FimInit /\ [][FimNext]_fimVars

-----------------------------------------------------------------------------
FimTypeOK ==
    /\ prev \in Walks /\ cur \in Walks /\ first \in BOOLEAN /\ posting \in BOOLEAN
    /\ tries \in 0 .. FimAttempts - 1 /\ round \in 0 .. MaxRounds
    /\ alerts \subseteq FimEvents /\ adrift \subseteq SUBSET FimEvents
    /\ restarts \in 0 .. MaxFimRestarts
    /\ missed \subseteq Paths
    /\ baseline \in [found: Walks, round: 0 .. MaxRounds]

\* What the alerts tell of a file: its newest one since the first round, by the
\* time the agent gave it.
Told(p) ==
    LET news == {a \in alerts : a.path = p /\ a.round > baseline.round}
    IN IF news = {} THEN baseline.found[p]
       ELSE (CHOOSE a \in news : \A b \in news : b.round <= a.round).sha

\* Between rounds the alerts tell of every file what the agent found last, through
\* lost answers, repeated posts and inserts that land late.  A change whose post
\* was given up is never reported: what is told of its file is right again only
\* with the next change that is.
AlertsAddUp ==
    ~posting /\ ~first => \A p \in Paths \ missed : Told(p) = prev[p]
=============================================================================
