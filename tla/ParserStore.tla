----------------------------- MODULE ParserStore -----------------------------
(***************************************************************************)
(* The runtime management of CBN parsers (engine/parserstore.go,           *)
(* parsers_api.go) over the table wazuh.engine_parsers (clickhouse.go).    *)
(*                                                                         *)
(* Every HTTP request runs in a goroutine of its own, a handler.  Upsert   *)
(* and Delete write a row to ClickHouse outside the lock, with the time    *)
(* of the write in seconds, and take the lock only to change the map and   *)
(* rebuild the active set: between the two, other handlers run.  The       *)
(* insert may also time out, be refused or be cut off by a crash, and the  *)
(* row of such an insert may still reach the table, then or later.         *)
(*                                                                         *)
(* Parser names are numbers, in the order sort.Strings gives the names.    *)
(***************************************************************************)
EXTENDS Integers, Sequences, FiniteSets, SequencesExt, Enumeration

CONSTANTS
    Handlers,      \* the request goroutines that can be active at once
    Names,         \* parser names, in their sort order
    Docs,          \* the YAML documents users submit
    DocName,       \* DocName[d]: the name the document gives its parser
    Compiling,     \* the documents that parse to exactly one named parser
    Base,          \* the built-in and file-loaded parsers, [name, doc]
    NoDoc,         \* the empty YAML of a tombstone row
    MaxRequests,   \* bound of the model: requests started
    MaxClock,      \* bound of the model: seconds that pass
    MaxRestarts    \* bound of the model: engine restarts

Row == [name : Names, doc : Docs \union {NoDoc}, deleted : BOOLEAN, at : Nat]
Idle == [phase |-> "idle"]
Request == [phase : {"checked", "writing", "stored"}, row : Row]

ASSUME ParserStoreAssumption ==
    /\ Names \subseteq Nat
    /\ Compiling \subseteq Docs
    /\ DocName \in [Docs -> Names]
    /\ Base \in Seq([name : Names, doc : Docs])
    /\ NoDoc \notin Docs
    /\ MaxRequests \in Nat /\ MaxClock \in Nat /\ MaxRestarts \in Nat

VARIABLES
    custom,      \* s.custom: the user-defined parsers in memory, by name
    active,      \* s.active: the parsers the pipeline runs, in order
    req,         \* what each handler is doing
    table,       \* the rows of wazuh.engine_parsers, in insertion order
    adrift,      \* rows whose insert failed or was cut off and may yet land
    clock,       \* the seconds of time.Now
    issued, restarts,   \* counters that bound the model
    failed,      \* history: names a failed insert or load left in doubt
    overlapped   \* history: names two requests wrote at the same time

store == <<custom, active>>
history == <<failed, overlapped>>
vars == <<custom, active, req, table, adrift, clock, issued, restarts,
          failed, overlapped>>

-----------------------------------------------------------------------------
(* The base parsers no custom one overrides, by their index.                 *)
BaseLeft(cust) == {i \in DOMAIN Base : Base[i].name \notin DOMAIN cust}

(* rebuild: custom parsers by name, then the base parsers none overrides.   *)
Merge(cust) ==
    LET names == Ascending(DOMAIN cust)
        left  == Ascending(BaseLeft(cust))
    IN  [i \in 1 .. Cardinality(DOMAIN cust) |-> [name |-> names[i], doc |-> cust[names[i]]]]
            \o [i \in 1 .. Cardinality(BaseLeft(cust)) |-> Base[left[i]]]

(* The parser a name gets from List, Get and the UI, and where it is from.  *)
Listing ==
    {[name |-> p.name, doc |-> p.doc,
      source |-> IF p.name \in DOMAIN custom THEN "custom" ELSE "builtin"] :
        p \in Range(active)}

(* ReplacingMergeTree(updated_at) FINAL: the newest row of a name, and of    *)
(* rows of the same second the one inserted last.                            *)
FinalRow(name) ==
    LET of == {i \in DOMAIN table : table[i].name = name}
    IN  table[CHOOSE i \in of : \A j \in of :
                 \/ table[j].at < table[i].at
                 \/ table[j].at = table[i].at /\ j <= i]

StoredNames ==
    {n \in {table[i].name : i \in DOMAIN table} : ~FinalRow(n).deleted}

(* Mutant: the query forgets FINAL, so a deleted parser's older rows return. *)
LoadedWithoutFinal ==
    LET live == {i \in DOMAIN table : ~table[i].deleted /\ table[i].doc \in Compiling}
    IN  [n \in {table[i].name : i \in live} |->
            table[Max({i \in live : table[i].name = n})].doc]

(* LoadParsers, then the compile check of LoadCustom.                        *)
Loaded ==
    [n \in {m \in StoredNames : FinalRow(m).doc \in Compiling} |-> FinalRow(n).doc]

Busy(h) == req[h].phase # "idle"
BusyNames == {req[h].row.name : h \in {g \in Handlers : Busy(g)}}

-----------------------------------------------------------------------------
Init ==
    /\ custom = <<>> /\ active = Merge(<<>>)
    /\ req = [h \in Handlers |-> Idle]
    /\ table = <<>> /\ adrift = {}
    /\ clock = 0 /\ issued = 0 /\ restarts = 0
    /\ failed = {} /\ overlapped = {}

(* What a request is about to write, or, once "writing", what writeParserRow *)
(* has sent, stamped with the current second.                                *)
Take(h, phase, name, doc, deleted) ==
    /\ req' = [req EXCEPT ![h] =
                 [phase |-> phase,
                  row |-> [name |-> name, doc |-> doc, deleted |-> deleted,
                           at |-> clock]]]
    /\ overlapped' = IF name \in BusyNames THEN overlapped \union {name} ELSE overlapped

Arrives(h) ==
    /\ ~Busy(h) /\ issued < MaxRequests
    /\ issued' = issued + 1
    /\ UNCHANGED <<store, table, adrift, clock, restarts, failed>>

(* POST /parsers and PUT /parsers/{name}: the path plays no part in it.      *)
UpsertStart(h, doc) ==
    /\ Arrives(h)
    /\ doc \in Compiling
    /\ Take(h, "writing", DocName[doc], doc, FALSE)

UpsertRefused(h, doc) ==
    /\ Arrives(h)
    /\ doc \notin Compiling
    /\ UNCHANGED <<req, overlapped>>

(* Delete looks the name up under the read lock, which it then gives back.   *)
DeleteStart(h, name) ==
    /\ Arrives(h)
    /\ name \in DOMAIN custom
    /\ Take(h, "checked", name, NoDoc, TRUE)

(* DeleteParser sends the tombstone, whatever became of the name meanwhile.  *)
DeleteWrite(h) ==
    /\ req[h].phase = "checked"
    /\ req' = [req EXCEPT ![h].phase = "writing", ![h].row.at = clock]
    /\ UNCHANGED <<store, table, adrift, clock, issued, restarts, history>>

(* A built-in name without an override, or an unknown one, is an error.      *)
DeleteRefused(h, name) ==
    /\ Arrives(h)
    /\ name \notin DOMAIN custom
    /\ UNCHANGED <<req, overlapped>>

(* ClickHouse executes the insert; its answer is still on the way.           *)
StoreRow(h) ==
    /\ req[h].phase = "writing"
    /\ table' = Append(table, req[h].row)
    /\ req' = [req EXCEPT ![h].phase = "stored"]
    /\ UNCHANGED <<store, adrift, clock, issued, restarts, history>>

(* Mutant: a deletion changes the map and returns before the rebuild.        *)
ApplyNoRebuild(h) ==
    /\ req[h].phase = "stored"
    /\ LET row  == req[h].row
           rest == [n \in DOMAIN custom \ {row.name} |-> custom[n]]
       IN  /\ custom' = IF row.deleted THEN rest
                        ELSE [n \in DOMAIN custom \union {row.name} |->
                                IF n = row.name THEN row.doc ELSE custom[n]]
           /\ active' = IF row.deleted THEN active ELSE Merge(custom')
    /\ req' = [req EXCEPT ![h] = Idle]
    /\ UNCHANGED <<table, adrift, clock, issued, restarts, history>>

(* The insert was answered: lock, change the map, rebuild, unlock, reply.    *)
Apply(h) ==
    /\ req[h].phase = "stored"
    /\ LET row  == req[h].row
           rest == [n \in DOMAIN custom \ {row.name} |-> custom[n]]
       IN  custom' = IF row.deleted THEN rest
                     ELSE [n \in DOMAIN custom \union {row.name} |->
                             IF n = row.name THEN row.doc ELSE custom[n]]
    /\ active' = Merge(custom')
    /\ req' = [req EXCEPT ![h] = Idle]
    /\ UNCHANGED <<table, adrift, clock, issued, restarts, history>>

(* Mutant: a failed insert is logged and the request goes on.                *)
InsertFailsIgnored(h) ==
    /\ Busy(h)
    /\ req' = [req EXCEPT ![h].phase = "stored"]
    /\ failed' = failed \union {req[h].row.name}
    /\ UNCHANGED <<store, table, adrift, clock, issued, restarts, overlapped>>

(* The insert timed out, was refused or (Delete) the client went away: the   *)
(* request answers an error and changes nothing.  A row ClickHouse has not   *)
(* executed may be lost or still land.                                       *)
InsertFails(h) ==
    /\ Busy(h)
    /\ \/ adrift' = adrift
       \/ req[h].phase = "writing" /\ adrift' = adrift \union {req[h].row}
    /\ failed' = failed \union {req[h].row.name}
    /\ req' = [req EXCEPT ![h] = Idle]
    /\ UNCHANGED <<store, table, clock, issued, restarts, overlapped>>

LandAdrift(row) ==
    /\ row \in adrift
    /\ adrift' = adrift \ {row}
    /\ table' = Append(table, row)
    /\ UNCHANGED <<store, req, clock, issued, restarts, history>>

(* The engine stops and starts again: handlers and memory are gone,          *)
(* NewParserStore begins with the base parsers and LoadCustom adds what the  *)
(* table holds, or nothing when the query fails (main.go only logs that).    *)
Restart ==
    LET writing == {h \in Handlers : req[h].phase = "writing"}
    IN  /\ restarts < MaxRestarts
        /\ restarts' = restarts + 1
        /\ req' = [h \in Handlers |-> Idle]
        /\ \E landing \in SUBSET writing :
             adrift' = adrift \union {req[h].row : h \in landing}
        /\ \/ /\ custom' = Loaded
              /\ failed' = failed \union {req[h].row.name : h \in writing}
           \/ /\ custom' = <<>>
              /\ failed' = failed \union {req[h].row.name : h \in writing} \union StoredNames
        /\ active' = Merge(custom')
        /\ UNCHANGED <<table, clock, issued, overlapped>>

Tick ==
    /\ clock < MaxClock
    /\ clock' = clock + 1
    /\ UNCHANGED <<store, req, table, adrift, issued, restarts, history>>

Next ==
    \/ \E h \in Handlers :
         \/ \E doc \in Docs : UpsertStart(h, doc)
         \/ \E doc \in Docs : UpsertRefused(h, doc)
         \/ \E name \in Names : DeleteStart(h, name) \/ DeleteRefused(h, name)
         \/ DeleteWrite(h) \/ StoreRow(h) \/ Apply(h) \/ InsertFails(h)
    \/ \E row \in adrift : LandAdrift(row)
    \/ Restart
    \/ Tick

Spec == Init /\ [][Next]_vars

-----------------------------------------------------------------------------
(* Every variable has its type, and what runs as a custom parser compiles.   *)
TypeOK ==
    /\ DOMAIN custom \subseteq Names
    /\ \A n \in DOMAIN custom : custom[n] \in Compiling
    /\ req \in [Handlers -> {Idle} \union Request]
    /\ table \in Seq(Row) /\ adrift \subseteq Row
    /\ clock \in Nat /\ issued \in Nat /\ restarts \in Nat
    /\ failed \subseteq Names /\ overlapped \subseteq Names

(* "rebuilds the active set on every change" (parserstore.go:18): whenever   *)
(* the lock is free, the pipeline runs every custom parser once, in name     *)
(* order and ahead of the base, and every base parser none of them overrides.*)
ActiveServesCustomFirst ==
    LET k == Cardinality(DOMAIN custom)
        baseLeft == BaseLeft(custom)
    IN  /\ Len(active) = k + Cardinality(baseLeft)
        /\ \A i \in 1 .. k : active[i].name \in DOMAIN custom
                             /\ active[i].doc = custom[active[i].name]
        /\ \A i, j \in 1 .. k : i < j => active[i].name < active[j].name
        /\ \A i \in baseLeft : \E j \in k + 1 .. Len(active) : active[j] = Base[i]

(* The listing agrees with what runs: a name listed as builtin is served by  *)
(* the base and one listed as custom by one document, which the table holds. *)
ListingIsServed ==
    \A l \in Listing :
        IF l.source = "builtin"
        THEN \E i \in DOMAIN Base : Base[i] = [name |-> l.name, doc |-> l.doc]
        ELSE /\ \A m \in Listing : m.name = l.name => m = l
             /\ \E i \in DOMAIN table :
                   /\ table[i].name = l.name /\ table[i].doc = l.doc
                   /\ ~table[i].deleted

(* Both: the engine serves what it says it does, custom parsers first, after *)
(* every edit, failed insert and restart.                                    *)
ServesWhatItLists == ActiveServesCustomFirst /\ ListingIsServed

(* No parser runs before it is persisted: whatever fails or restarts in      *)
(* between, a custom parser in memory has a live row in the table.           *)
RunningIsPersisted ==
    \A n \in DOMAIN custom : \E i \in DOMAIN table :
        table[i].name = n /\ table[i].doc = custom[n] /\ ~table[i].deleted

(* Memory and table agree on a name with no write in progress: a restart     *)
(* would load what the engine runs.                                          *)
Agrees(n) ==
    /\ n \in DOMAIN custom <=> n \in DOMAIN Loaded
    /\ n \in DOMAIN custom => custom[n] = Loaded[n]

(* Edits of a name made one after the other survive a restart, even several  *)
(* in the same second: as long as no insert of it failed and no two of its   *)
(* writes overlapped, the newest row is what the engine runs.                *)
SequentialEditsSurvive ==
    \A n \in Names \ (failed \union overlapped \union BusyNames) : Agrees(n)
=============================================================================
