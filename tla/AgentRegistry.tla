---------------------------- MODULE AgentRegistry ----------------------------
(***************************************************************************)
(* The engine's table of endpoints, wazuh.agents (engine/agents.go,        *)
(* clickhouse.go).                                                         *)
(*                                                                         *)
(* The table is read with FINAL and its version is the server's now() at   *)
(* the insert, so of an agent the row inserted last counts.  Enrolments,   *)
(* heartbeats and events each run in a goroutine of their own; a touch     *)
(* reads the row, stamps it and inserts it again, whole.  The time limit   *)
(* of a request ends the wait for its answer: an insert already sent may   *)
(* still land, whenever ClickHouse comes to it.                            *)
(***************************************************************************)
EXTENDS Integers

CONSTANTS
    Agents,           \* agent ids, one per host name
    Infos,            \* what an enrolment says: name, address, system, version
    Handlers,         \* the goroutines that write the table at once, and the inserts
                      \* they have given up
    DisconnectAfter,  \* seconds of silence after which an agent is disconnected
    WriteWithin,      \* the time limit of a request to ClickHouse
    MaxClock,         \* bound of the model: seconds that pass
    MaxWrites         \* bound of the model: enrolments and touches

Never == -1
Entry == [info : Infos, seen : 0 .. MaxClock]
Idle == [phase |-> "idle"]
Write == [phase : {"read", "writing", "adrift"}, kind : {"enrol", "touch"}, agent : Agents,
          entry : Entry, nr : 0 .. MaxWrites, behind : BOOLEAN]

ASSUME AgentRegistryAssumption ==
    /\ WriteWithin \in Nat /\ DisconnectAfter \in Nat /\ WriteWithin <= DisconnectAfter
    /\ MaxClock \in Nat /\ MaxWrites \in Nat

VARIABLES
    clock,       \* the engine's seconds
    registry,    \* wazuh.agents FINAL: the entry of every enrolled agent
    handler,     \* what each goroutine is doing, or the insert it left adrift
    writes,      \* counter that bounds the model
    contact,     \* history: the newest stamp of a write that landed
    enrolledAs,  \* history: what the newest enrolment that landed said
    raced,       \* history: agents a write overwrote that was under way when
                 \* a newer enrolment landed
    late         \* history: agents whose row an insert put there that landed
                 \* after its time limit

history == <<contact, enrolledAs, raced, late>>
vars == <<clock, registry, handler, writes, contact, enrolledAs, raced, late>>

-----------------------------------------------------------------------------
(* The table after the row of an agent.                                      *)
Put(table, a, value) ==
    [b \in DOMAIN table \union {a} |-> IF b = a THEN value ELSE table[b]]

Status(entry) ==
    CASE entry.seen = Never -> "never_connected"
      [] entry.seen # Never /\ clock - entry.seen > DisconnectAfter -> "disconnected"
      [] OTHER -> "active"

(* GET /agents: every entry with the status it has now.                      *)
Listing ==
    [a \in DOMAIN registry |->
        [info |-> registry[a].info, status |-> Status(registry[a])]]

-----------------------------------------------------------------------------
Init ==
    /\ clock = 0
    /\ registry = <<>>
    /\ handler = [h \in Handlers |-> Idle]
    /\ writes = 0
    /\ contact = <<>> /\ enrolledAs = <<>>
    /\ raced = {} /\ late = {}

Tick ==
    /\ clock < MaxClock
    /\ clock' = clock + 1
    /\ UNCHANGED <<registry, handler, writes, history>>

(* handleEnroll, to the insert.  Enrolling again is enrolling: an agent does *)
(* it whenever its process starts, with what is true then.                   *)
EnrolStart(h, a, i) ==
    /\ handler[h] = Idle /\ writes < MaxWrites
    /\ writes' = writes + 1
    /\ handler' = [handler EXCEPT ![h] =
            [phase |-> "writing", kind |-> "enrol", agent |-> a, nr |-> writes,
             behind |-> FALSE, entry |-> [info |-> i, seen |-> clock]]]
    /\ UNCHANGED <<clock, registry, history>>

(* A heartbeat, a log event, FIM events or an inventory of an agent.  Touch  *)
(* does nothing for an agent the table does not have.                        *)
TouchRead(h, a) ==
    /\ handler[h] = Idle /\ writes < MaxWrites
    /\ a \in DOMAIN registry
    /\ writes' = writes + 1
    /\ handler' = [handler EXCEPT ![h] =
            [phase |-> "read", kind |-> "touch", agent |-> a, nr |-> 0,
             behind |-> FALSE, entry |-> registry[a]]]
    /\ UNCHANGED <<clock, registry, history>>

TouchStamp(h) ==
    /\ handler[h].phase = "read"
    /\ handler' = [handler EXCEPT ![h].phase = "writing", ![h].entry.seen = clock]
    /\ UNCHANGED <<clock, registry, writes, history>>

(* An enrolment newer than all that landed overtakes the touches that read   *)
(* before it and the older enrolments that are still under way.              *)
Newest(do) == do.kind = "enrol" /\ ~do.behind

Overtakes(do, other) ==
    /\ Newest(do) /\ other # Idle /\ other.agent = do.agent
    /\ other.kind = "touch" \/ other.nr < do.nr

AfterLanding(h) ==
    [g \in Handlers |->
        IF g = h THEN Idle
        ELSE IF Overtakes(handler[h], handler[g]) THEN [handler[g] EXCEPT !.behind = TRUE]
        ELSE handler[g]]

Remember(do) ==
    LET a == do.agent
    IN  /\ contact' = Put(contact, a,
                IF a \in DOMAIN contact /\ contact[a] > do.entry.seen
                THEN contact[a] ELSE do.entry.seen)
        /\ enrolledAs' = IF Newest(do)
                         THEN Put(enrolledAs, a, do.entry.info) ELSE enrolledAs
        /\ raced' = IF Newest(do) THEN raced \ {a}
                    ELSE IF do.behind THEN raced \union {a} ELSE raced

(* UpsertAgent's insert: the whole entry, over whatever the table has by     *)
(* now.                                                                      *)
Lands(h) ==
    /\ registry' = Put(registry, handler[h].agent, handler[h].entry)
    /\ handler' = AfterLanding(h)
    /\ Remember(handler[h])
    /\ UNCHANGED <<clock, writes>>

(* Mutant: the requests to ClickHouse have no time limit.                    *)
WriteLandsEver(h) ==
    /\ handler[h].phase = "writing"
    /\ Lands(h)
    /\ late' = late \ {handler[h].agent}

(* Mutant: the enrolment of a known agent only brings its entry up to date.  *)
WriteLandsOnce(h) ==
    LET do == handler[h]
    IN  /\ do.phase = "writing"
        /\ clock - do.entry.seen <= WriteWithin
        /\ registry' = Put(registry, do.agent,
                IF do.agent \in DOMAIN registry
                THEN [registry[do.agent] EXCEPT !.seen = do.entry.seen] ELSE do.entry)
        /\ handler' = AfterLanding(h)
        /\ Remember(do)
        /\ late' = late \ {do.agent}
        /\ UNCHANGED <<clock, writes>>

(* The insert lands while its goroutine waits for the answer, which it does  *)
(* no longer than the time limit.                                            *)
WriteLands(h) ==
    /\ handler[h].phase = "writing"
    /\ clock - handler[h].entry.seen <= WriteWithin
    /\ Lands(h)
    /\ late' = late \ {handler[h].agent}

(* The wait ends without an answer, at the time limit or with the engine's   *)
(* process; the insert is sent.                                              *)
WriteGivenUp(h) ==
    /\ handler[h].phase = "writing"
    /\ handler' = [handler EXCEPT ![h].phase = "adrift"]
    /\ UNCHANGED <<clock, registry, writes, history>>

(* ClickHouse comes to an insert nobody waits for.                           *)
AdriftLands(h) ==
    /\ handler[h].phase = "adrift"
    /\ Lands(h)
    /\ late' = IF clock - handler[h].entry.seen > WriteWithin
               THEN late \union {handler[h].agent} ELSE late \ {handler[h].agent}

(* The query or the insert fails, or an insert adrift is lost: a touch says  *)
(* nothing of it, an agent tries its enrolment again.                        *)
WriteFails(h) ==
    /\ handler[h] # Idle
    /\ handler' = [handler EXCEPT ![h] = Idle]
    /\ UNCHANGED <<clock, registry, writes, history>>

-----------------------------------------------------------------------------
Next ==
    \/ Tick
    \/ \E h \in Handlers :
        \/ \E a \in Agents : TouchRead(h, a) \/ \E i \in Infos : EnrolStart(h, a, i)
        \/ TouchStamp(h) \/ WriteLands(h) \/ WriteFails(h)
        \/ WriteGivenUp(h) \/ AdriftLands(h)

Spec == Init /\ [][Next]_vars

-----------------------------------------------------------------------------
TypeOK ==
    /\ clock \in 0 .. MaxClock
    /\ writes \in 0 .. MaxWrites
    /\ DOMAIN registry \subseteq Agents /\ \A a \in DOMAIN registry : registry[a] \in Entry
    /\ handler \in [Handlers -> Write \union {Idle}]
    /\ DOMAIN contact = DOMAIN registry /\ DOMAIN enrolledAs = DOMAIN registry
    /\ raced \subseteq DOMAIN registry /\ late \subseteq DOMAIN registry

(* An enrolment is not undone: the engine shows of an agent what its newest  *)
(* enrolment said, unless a write that was under way when it landed, a touch *)
(* that had read the row before it or an older enrolment, put the old one    *)
(* back after it (Touch, UpsertAgent, clickhouse.go).                        *)
EnrolmentStands ==
    \A a \in DOMAIN registry \ raced : registry[a].info = enrolledAs[a]

(* An agent the engine heard from a while ago is listed as active, although  *)
(* concurrent writes may move its last_seen back: by no more than an insert  *)
(* may take, unless the insert that landed last came after its time limit.   *)
(* The next insert that comes in time puts that right.                       *)
ActiveWhileHeard ==
    \A a \in DOMAIN registry \ late :
        clock - contact[a] <= DisconnectAfter - WriteWithin
            => Listing[a].status = "active"
=============================================================================
