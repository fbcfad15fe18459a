# A TLA+ model of SocBlitz

SocBlitz is a security operations platform. This directory holds TLA+ modules
for its core logic, from the agent to the browser, TLC configurations that check
them on small instances, and proofs that TLAPS checks. Every definition is
translated from the source; `PROJECT.json` maps each to its lines.

## 1. The system

```
 host                              engine (Go)                            backend (Python)
 ----                              -----------                            ----------------
 collectors -> Forwarder --HTTP--> handleIngest --+
               (buffer, retry)     syslog UDP/TCP-+-> pipeline chan -> runPipeline
                                                       decode, parsers, rules, correlator
 FIM, inventory, heartbeat -HTTP-> registry, FIM, vulnerabilities  |
                                         |                         v
                                         +----> ClickHouse <--- alert batches
                                   parser store <-HTTP- /parsers  <--- API (FastAPI) <- UI (React)
                                                                        |   ^
                       Wazuh webhook -> /soar/trigger -> Redis -> Celery workers, beat
                                                                        |
                                                                    PostgreSQL
```

| Component | Source | State | Operations | Hard because |
|---|---|---|---|---|
| Windowed correlator | engine/correlator.go, yaral.go | per rule and join key: timestamps and last firing | Observe | timestamps in any order, window boundaries, re-arming |
| Parser store | engine/parserstore.go, parsers_api.go, clickhouse.go | base, custom, active set; table engine_parsers | Upsert, Delete, List, Get, LoadCustom | lock taken after the insert, versions of one second, failed inserts, restarts |
| Delivery | agent/forward.go, engine/ingest.go, main.go | agent buffer and batch, handlers, pipeline channel, alert batch | Submit, Run, postJSON, handleIngest, syslog, runPipeline | retries against late handlers, full channels, crashes |
| Workflow walk | backend/app/services/workflow_engine.py | queue, visited, log | execute_workflow | cycles, branches, failing nodes |
| SOAR tasks | backend/app/workers/tasks.py, celery_app.py, api/v1/router.py | alerts, workflow_runs, workflows, broker queues | webhook, ingest, match, run, enrich, sweep | commit and send in two steps, redelivery, read-modify-write |
| Agent registry | engine/agents.go, clickhouse.go, agent/enroll.go | table wazuh.agents | enroll, heartbeat, touch, list | read-modify-write of a row, stamps out of order |
| Agent inventory | backend/app/workers/tasks.py, api/v1/router.py | table agents | sync task, removal | overlapping tasks, stale listings, rows removed under a task |
| FIM and inventory posts | engine/fim.go, vuln.go, agent/fim.go, inventory.go | FIM baseline; alerts | walk, compare, post | baseline against failed and repeated posts |
| File collector | agent/collect_file.go | open file, offset | open, read, check | rotation and truncation |
| Cases | router.py, pages/Cases.tsx, CaseDetail.tsx | case number, status, timeline, lists of a case | create, update, close, timeline, items of the lists | counting numbers, closing rules, lost updates |
| Accounts | router.py, pages/Login.tsx, AccountSecurity.tsx, stores/auth.ts | users, sessions, secrets, backup codes | sign in and out, MFA | late answers, expired tokens, handlers that overlap |
| Query cache | App.tsx and every page | per key: data, fetch in flight, staleness | fetch, invalidate, poll, write | answers read before a write and received after it |
| Dashboards | pages/CustomDashboard.tsx, router.py | view, widgets, dirty; table of dashboards | add, remove, save, create, delete | local edits against late answers and changing views |
| Workflow editor | pages/WorkflowBuilder.tsx, SettingsSOAR.tsx, router.py | canvas; table of workflows | open, draw, save, delete | a whole graph is overwritten from a cached copy |
| Engine workbench | pages/SocBlitzEngine.tsx | selected parser, draft; answers of the tabs | edit, save, delete, generate, ask | drafts copied from a list about to change |
| Lists and settings | the other pages, layouts/DashboardLayout.tsx | one cache entry per list | change, poll, refresh, filter | who reads what again |
| Detection rules, decoding, normalization | engine/rules.go, sigma.go, yaral.go, decode.go, parser.go | none at run time | Eval, Normalize | pure functions over text |
| Dark web, connectors, threat intelligence, AI | backend/app/services, connectors | findings, caches | scans, lookups | external services |
| Deployment, configuration | deployment, config | none | | installation |

What makes them correct: the correlator alerts on enough events inside its
window, at most once a window, and misses none; the parser store runs what is
persisted and keeps edits across restarts; delivery loses and duplicates only
where the code says so and always drains; the walk executes what is reached,
once, and ends; the SOAR tasks trigger the runs an alert calls for, forget none
and settle; the pages show what their user has written, save no edit where it
does not belong, and sign in and out whom they are asked to. `PROJECT.json`
lists the hazards, each at the line where it bites with the properties that
watch it, or the reason why none does yet.

## 2. Modules

### Correlator: engine/correlator.go

`Observe` holds the mutex from beginning to end and is called by one goroutine,
so one event is one step. `state` is `c.state`: for each rule and group key the
window's `times` and `firedAt`. An event is its timestamp and what `matchEvent`
returned for every windowed rule. Entries of the Go slice are positions in the
history `log`, so equal timestamps stay two entries, and `alerts` records which
event raised which alert. `PruneWindow` is `pruneWindow`, whose `newest` is the
timestamp appended last. The counts come from `CountThreshold`, translated from
`countThreshold` and the count conditions of yaral.go; `GroupKey` from
`groupKey` and `joinKey`. The zero `time.Time` of `firedAt` is `Never`: a first
alert is never suppressed by it, because every timestamp is centuries later.

### ParserStore: engine/parserstore.go, parsers_api.go, clickhouse.go

Each request runs in a handler of its own. `UpsertStart`/`DeleteStart` are the
checks before the insert, `DeleteWrite` the tombstone sent after the lookup gave
its lock back, `StoreRow` the insert as ClickHouse executes it, `Apply` the part
under the lock together with the rebuild, the error paths `UpsertRefused`,
`DeleteRefused` and `InsertFails`. `Restart` is a new process: `NewParserStore`
and `LoadCustom`, which may fail. The table is external: its newest version of a
name is the row with the greatest `updated_at`, the last inserted of equal ones
(`FinalRow`); an insert that failed for its client may still land
(`LandAdrift`). `failed` and `overlapped` are history, used by properties only.
`Merge`, the rebuild, lists what it keeps of a map in the order of `Ascending`
(Enumeration), which puts a set of numbers in order; WorkflowWalk uses it for
the edges that are followed.

### Delivery and DeliveryPromise: agent/forward.go, engine/ingest.go, main.go

The Forwarder goroutine (`TakeEvent`, `TickFlush`, `Send`, `PostSucceeds`,
`AttemptFails`), one handler per request (`PushEvent`, `Answer`), the syslog
listener (`SyslogRead`, `SyslogPush`) and the pipeline goroutine (`Evaluate`,
`AddAlert`, `PipeTick`, `InsertReturns`) interleave; the two Go channels and the
two batches have their capacities as constants. A handler does not look at its
client: an attempt that timed out goes on pushing (`AttemptFails` only clears
`conn`). `AgentStops` is SIGTERM, `EngineCrash` the end of the process. What the
rules make of an event is the constant `AlertsOf`, the number of its alerts:
`Correlator` is what happens inside `Evaluate`.

`DeliveryPromise` is the abstract specification: an event arrives, and reaches
the rules at most so many times. `Delivery` implements it (`KeepsPromise`) under
the mapping arrived <- lines read and messages heard, copies <- entries into the
pipeline, limit <- four attempts for a line, one for a syslog message.

### TailFile: agent/collect_file.go

A collector against the program that writes its log and whoever rotates it.
`path` is what the path names, `f` the file that is open: renaming leaves the
reader where it is (`MoveAway`, `CreateAnew`), truncation does not (`Truncate`).
`Fill`, `ReadString`, `AtEOF` and `Check` are the inner loop, with the end of
file and the look at the size two steps apart; `Open` is the outer one. `owed`
is what was written while the file was followed.

### FileIntegrity: agent/fim.go, engine/fim.go

One step per round (`Round`: the walk and the comparison) and one per attempt of
its post (`Accepted`, `AttemptFailed`), which the engine may have executed, or
may execute yet, when it fails. What a walk finds is arbitrary: files change
under it and may be unreadable. `Told` is what an analyst gathers of a file from
the alerts.

### Endpoint

What goes on on a host, by EXTENDS of Delivery, TailFile and FileIntegrity: the
goroutines main.go starts share no state but the Forwarder's channel, which takes
lines at any time and blocks nobody. As in Frontend below, a behaviour is about one of
them (`task`), and the others rest.

### WorkflowWalk: backend/app/services/workflow_engine.py

One iteration of the `while` loop is one step: `Skip` for a node already
visited, `Execute` for another. Users draw the graph, so kinds and edges are
arbitrary. `Outcomes` says what executors of a kind can return, exceptions
included; it leaves open which. Edges to nodes that do not exist are skipped by
the code and are not drawn.

### SoarRuns: backend/app/workers/tasks.py, celery_app.py, api/v1/router.py

The API sends messages (`PostWebhook`) or commits a row and then sends
(`PostAlert`, `RunNow`). A worker takes one message at a time and does its task
in the steps that commits and sends divide it into: `Ingest`, `MatchWorkflows`,
`SendNext` for the webhook, `Start` and `Finish` for a run, `Enrich`, `Sweep`; a task
that is over is in the phase "ack" (`Done`) until `Acknowledge`.
`Start` remembers the `run_count` the session read, as the session does
(`expire_on_commit=False`), and `Finish` writes it back one higher. The broker is
external: messages of a route are a list; `task_acks_late` makes a message come
again when the worker dies (`Redelivered`), in the middle of its task or after its
last commit, so that a run already over is executed again; one whose child process
was killed, or whose task raised, is acknowledged (`Killed`, `Raises`; only
`enrich_alert` retries). What a task leaves behind then is kept in `cut`: the
message of its run, or of the match its alert waits for. `Triage` is an analyst's PATCH on an alert. The walk of
the graph between `Start` and `Finish` is WorkflowWalk.

### AgentRegistry: engine/agents.go, clickhouse.go

`registry` is what a query of wazuh.agents with FINAL returns: the table's
version is ClickHouse's own `now()` at the insert, so the row inserted last
counts. Every request runs in a handler of its own: `EnrolStart` is
`handleEnroll` up to the insert; `TouchRead` and `TouchStamp` are `Touch`, which
heartbeats, log events, FIM events and inventories call; `WriteLands` and
`WriteFails` are the outcomes of `UpsertAgent`. The 15 seconds of the HTTP client end
the wait for the answer (`WriteGivenUp`) and do not withdraw what was sent: the insert
is adrift and may land whenever ClickHouse comes to it (`AdriftLands`, external), as
in ParserStore and FileIntegrity. `Listing` is
`GET /agents`, whose status is computed when it is asked for. The entry keeps
what an enrolment says as one value; `enrolled_at` goes with it. `contact`,
`enrolledAs`, `raced` and `late` are history, used by properties only.

### AgentInventory: backend/app/workers/tasks.py, api/v1/router.py

The rows PostgreSQL holds, and what each Celery process has in hand: the
engine's answer (`SyncList`), the rows it read (`SyncLoad`), then the loop and its
commit as one transaction (`SyncCommit`). SQLAlchemy updates the columns that
differ from what the session read and no others (`Updated`), and raises when a row
to update is gone (`SyncConflict`). Of two rows of an agent the dictionary keeps
either. `RemoveStart` is `delete_agent` until it calls the Wazuh manager,
`RemoveCommit` and `RemoveRefused` the rest; nothing tells the engine. The engine
is the environment: `EngineChanges` gives an agent any listed shape, and as in
AgentRegistry no agent ever leaves the listing.

### Fleet

Both tables, by EXTENDS. They meet only in the listing a sync task asks for, and
AgentInventory takes any the registry may give, so a behaviour is about one of them
(`side`), as in Endpoint.

### QueryCache: TanStack Query 5, as App.tsx configures it

One entry of the browser's cache, as operators on a record: a fetch is sent, the
backend reads its rows, the answer arrives; `Invalidated`, `Observed`, `Written`
and `Aged` are `invalidateQueries`, the mounting of a component, `setQueryData`
and `staleTime`. The library is external and modelled from how the pages use it.
Two of its rules decide several properties: an invalidation gives up a fetch in
flight and sends another, but the very first fetch of a key is joined (`Joins`);
and an answer makes the entry fresh, whatever was marked meanwhile.

### CaseWorkspace: pages/Cases.tsx, CaseDetail.tsx, the case endpoints of router.py

A behaviour watches one list (`watched`) of one case, and the user works on two
cases and the page that lists them. A mutation is a request in `muts`; a handler
awaits the database between reading and committing where what it read decides
what it writes: the timeline, the count behind a case number, the verdict of a
case to close (`HandlerReads`, `HandlerCommits`). `CaseTouches` says which lists a
handler changes, `CaseInvalidates` which its page reads again, `CaseUnfollowed`
where the two differ. A component stays mounted between cases, and its pending
mutations get the callbacks of the new id (`closure`). A button waits for
what its own mounted component sent last (`current`, `CasePending`): who leaves the page
and comes back may create a second case while the first is on its way.

`role` says what the user is to the tenants. `create_case` counts the cases of the
user's tenant (`UserTenant`, `Counted`) and stores the new one with the tenant of the
request, which the pages do not send (`NewTenant`); `list_cases` shows a customer the
cases of his tenant only (`Listed`). For a user without a tenant count and row agree,
and `NumbersDistinct` is about him; for the others see finding 3.

### DashboardBuilder: pages/CustomDashboard.tsx and its endpoints

The widgets on the screen are local state which one effect fills from the query
(`Filled`) and another empties when the view changes (`ResetsEdits`).
`DashSaveAnswered` writes what was saved into the cache of the view shown by then.

### WorkflowEditor: pages/WorkflowBuilder.tsx, SettingsSOAR.tsx and their endpoints

The canvas is local state, filled whenever the query gives a new object
(`FlowArrives`) and at once when the workflow is cached (`OpenFlow`). `SaveFlow`
sends all of it; after a first save the browser goes to the workflow's own route
and keeps the canvas (`FlowAnswered`). Other tabs and users save (`SavedElsewhere`) and
delete the same workflows at any time, and no save looks at what it replaces. An
answer whose row differs in another column only, such as the counter of its runs, is
a new object too and fills the canvas again (`RunsEffect` with `newer`).

### ParserBench: the parsers tab of pages/SocBlitzEngine.tsx

The list, the parser selected and the draft copied from the list when it was
selected. The engine's side is what ParserStore promises (`ServesWhatItLists`):
a custom parser takes the place of a built-in one in the listing. One admin edits in
one tab; what other admins save is left out, and the tab would hear of it at its next
fetch of the list.

### AskPanels: SocBlitzEngine.tsx, ThreatIntel.tsx, DarkWeb.tsx, CustomDashboard.tsx

Seven panels that ask and show an answer. A panel is a record of what tells them
apart: whether a question awaited keeps the next one back, whether asking takes the
old answer away, whether only the latest answer counts.

### SignIn: pages/Login.tsx, stores/auth.ts, layouts/DashboardLayout.tsx

One browser tab: the two forms, the session of the auth store, the guard of the
routes, and the interceptor that on 401 ends the session and loads the login page
(`AutoLogout`). The store outlives a load of the page; forms, requests and the
cache do not (`Loaded`), and `Logout` is no load.

### MfaEnrolment: pages/AccountSecurity.tsx, the handlers under /auth

The row of one account, the page open in two browsers, and handlers that load the
row, check it and commit the columns they changed (`Load`, `Commit`); the user's
authenticator app and the codes they have noted are part of the state.

### Desks: the pages that list and change

Alerts, events, agents, connectors, settings, account, dark web, forensics,
workflows and the dashboard, each a record: the queries it uses and polls, what it
offers and disables. A behaviour watches one list, whose rows are a version
number. The list "alert" is one alert: its page stays mounted when the history leads
to another (`Choose`), and a pending mutation gets the callback of the new id
(`follow`). What waits for a pending mutation waits for one of the mounted page
(`DeskPending`); on the connectors *Verify all* sends whatever is pending. `DeskTouches` and `DeskInvalidates` say what handlers change and pages read
again, `DeskUnfollowed` where they differ.

### Frontend

The browser app, with the eight page modules above by EXTENDS (their names are
prefixed where they would clash). App.tsx shows one page at a time, and the pages of
different modules share no key of the cache that they depend on, so no step of
one part influences another. `part`, chosen at the start, says which part a
behaviour is about; the others rest. This makes one state graph of eight
independent ones, where a product of them would show nothing more.

## 3. Runs

| Run | Configuration | Bounds | Shows |
|---|---|---|---|
| Correlation | MCCorrelator.cfg | 2 rules (joined on two placeholders, `>= 2` in a window of 2; no key, `> 1` in a window of 1), timestamps 0..3 in any order, 5 events of 3 kinds | alerts are justified, a window apart, and none is missed while events are in order |
| CorrelationLate | MCCorrelatorLate.cfg | 1 rule counting 3, timestamps 0..4, 4 events | finding: a count can span more than one window |
| Parsers | MCParserStore.cfg | 2 handlers, 4 requests, 2 names (one built in), 3 documents that compile and one that does not, 2 seconds, 1 restart | what is listed is served, persistence, sequential edits survive |
| Delivery | MCEndpoint.cfg | 3 lines, buffer 1, batch 2, 2 attempts, pipeline 1, alert batch 2, 2 handlers, 1 crash; a log of 4 pieces in 2 files, 2 truncations, 2 read errors or restarts; 2 monitored files of 2 contents, 3 rounds, 2 attempts, 1 restart | nothing vanishes, acknowledged events entered, order and duplicates, the refinement; a followed file is submitted, once; reports on files add up |
| DeliveryLive | MCDeliveryLive.cfg | 2 lines, 1 syslog message, alert batch 2, 2 handlers, 1 crash | backpressure is released: the agent drains, handlers finish |
| Walk | MCWorkflowWalk.cfg | 4 nodes of all 4 kinds, 256 graphs from 8 edges | exactly what is reached, once, to an end |
| Agents | MCFleet.cfg | engine: 1 agent with 2 versions, 3 handlers or inserts adrift, 4 writes, 3 seconds, disconnected after 2, a time limit of 1; backend: 2 agents, 2 workers, 3 changes, 1 removal, 1 fault | enrolments stand, an agent heard from is active; one row unless tasks overlap, convergence |
| InventoryRows | MCAgentInventoryRows.cfg | 1 agent, 2 workers | finding: two rows of one agent |
| CaseNumbers | MCCaseNumbers.cfg | 2 cases created by a user without a tenant, of the staff, a customer | finding: numbers repeat |
| Soar | MCSoarRuns.cfg | 2 workers, webhooks of level 11 and 12, 2 workflows (high, critical), 1 manual request, 1 fault, no sweep | triggering, no forgotten run, run counter, finished runs |
| SoarSettle | MCSoarSettle.cfg | 2 workers, 1 webhook, 1 fault, sweeps | alerts are enriched and runs end |
| Frontend | MCFrontend.cfg | the parts below | what users wrote is shown and kept, sessions and second factors follow what was asked |

The bounds of Frontend, part by part: *cases*: two cases and their list, five of
the ten lists (`MCWatchable`), a user without a tenant or a customer, 2 mutations, 1
fault; *dashboards*: 2 ids, one of
them stored, 1 widget, 2 requests; *workflows*: 2 ids, one stored, 1 part, 2 saves, here
or elsewhere;
*parsers*: 2 names, one built in, 2 texts, 2 requests; *ask*: every panel, 4
questions; *sign-in*: 2 users, one with a second factor, 2 sessions; *MFA*: 2
browsers, 2 secrets, 1 backup code each, 3 requests; *lists*: every page and list,
2 changes, 1 by others, 1 loss.

Why the bounds are enough. Correlation: the window needs events before, on and
behind its boundary, in and out of order, and a second alert after re-arming: five
events over four ticks with windows of one and two hold all of these. Parsers: an
overlap needs two handlers, a lost order three requests of which two fall into the
same second, an override a name of the base. Delivery: every channel and batch is
small enough to be full with three events, and two attempts give a first and a last
one; a second handler is the late one of the attempt before. A log that is cut,
grows past the offset and is replaced takes four pieces and two cuts; a report that
lands after the next round's takes three rounds. Walk: four nodes hold a diamond, a
cycle through the start, parallel edges and a node that is reached late. Soar: two
workers are needed for overlapping walks, one fault for each kind of loss; the
workflows differ so that one matches and the other does not. Agents: undoing an
enrolment takes three writes (enrol, touch, enrol), moving `last_seen` back two
touches, one of them adrift if it is to be by much, and the limits of 1 and 2
seconds keep the order of 15 seconds and 15 minutes; agents do not share anything,
so one is enough. For the backend's copy there are two agents, so that a conflict on
one row also rolls back the other; two workers for stale listings and doubled rows.
Frontend: an answer that overtakes another takes two requests, a lost one a fault, a
leak from one dashboard, workflow or case to another two of each; one widget or part
is enough to be there or missing; a session that a late request ends is the second
one; taking away a factor that was set up, used and set up again takes two secrets
and three requests. Of the lists of a case those left out are written and read again
in the ways of observables and comments, and `MCSpared` leaves out mutations that do
to the watched list what another one does (eight of the eleven that log to the
timeline).

Deadlock is checked in the InventoryRows run, whose tasks come for ever. Elsewhere it
is not (`CHECK_DEADLOCK FALSE`): every behaviour reaches its bounds (events,
requests, lines) and rests there, the walk ends, and the SOAR system is idle when
all is done. That nobody waits for ever on somebody else is
what the liveness properties say instead. Symmetry over handlers and workers is
used in safety runs only.

### Fairness

* Delivery: weak fairness of the Forwarder's and the pipeline's goroutine (they
  are scheduled, attempts have a 20-second and inserts a 15-second deadline),
  strong fairness of each handler and of the syslog listener, whose pushes are
  enabled each time the pipeline takes an event: Go serves the senders blocked
  on a channel first come first served.
* WorkflowWalk: weak fairness of the loop; every executor returns, since
  requests and mail have timeouts and a delay is capped at 60 seconds.
* AgentInventory (in `FairFleetSpec`): weak fairness of each worker's next step: beat queues a task
  every five minutes and a task that began goes on. Failures are bounded by
  `MaxFaults`; nothing is assumed about the engine, users and the manager.
* SoarRuns: weak fairness of each worker's next step, of beat and of the API's
  sends, strong fairness of taking from each route: a worker of the compose file
  listens to all queues and Celery polls them in turn. Nothing is assumed about
  faults, posts and triage.
* Frontend: none. What the pages owe their users is stated of settled entries
  (nothing in flight, not stale) instead of eventually: a tab may be closed.

### Mutants

Every property of a passing run is broken by a mutant of a mapped definition,
written beside it: a strict comparison in the pruning, a rebuild left out, one
attempt too many, an invalidation forgotten, and so on. They are not used in a
specification.

## 4. Findings

1. `pruneWindow` prunes by the timestamp appended last; after a late event the
   count covers more than the sliding window its comment promises.
2. Two sync tasks at once both insert a new agent. `uq_agent_per_tenant` does not
   stop them, because the rows have no tenant and NULLs are distinct. Both rows
   stay, and each later task updates only one of them.
3. `create_case` counts the cases of the user's tenant and stores the new one
   without a tenant, since the pages send none. A user who has a tenant, as the seeded
   admin has, gives one number to all the cases he creates, although the comment says
   "Auto-increment case number per tenant" (router.py:1258).

What follows needs no run of its own: it is no disagreement with a text of the
repository, or it is read off one line. Each is an exception that a property
names, or a remark on the side. An exception is something the code does not prevent:
the property claims all the rest, and that nothing else goes wrong in its place; it
does not cover the exception itself, and the hazard's note in `PROJECT.json` says so.

* `Upsert` and `Delete` write the table before they take the lock: two overlapping
  edits of one name can leave table and memory different, and the next restart
  changes the parser that runs (`SequentialEditsSurvive` excludes overlaps).
* `PUT /parsers/{name}` does not compare the path with the document's name,
  although its comment (parsers_api.go:28) says that it must match.
* After a truncation, or when it finds a smaller file in place of the one it has open,
  `tailFile` goes to the end of the file, since its offset of 0 means a first open:
  what was written until then is not submitted. A new file that is as large as the
  old one by the next look is not noticed (`FollowsTheFile` excludes both; the
  comment of collect_file.go:12 likens it to `tail -F`).
* The FIM baseline moves on after a post that failed, and the change is never
  reported (`AlertsAddUp` with `missed`).
* A worker that dies between the last commit of a run and the acknowledgement has the
  run executed again and its result overwritten (`FinishedStays` with `redelivered`);
  two walks of one workflow at a time lose a count (`RunCountExact` with `overlapped`).
* An enrolment is undone by a touch that had read the row before it (`EnrolmentStands`
  with `raced`); an insert that lands after its client's time limit may make an agent
  look disconnected until the next touch (`ActiveWhileHeard` with `late`).
* Two appends to the timeline of a case at once lose one of them, and an answer that
  finds the page on another case leaves the lists of its own case old (`OwnWriteShown`
  with `overlapped` and `closure`); two cases created at once get the same number.
* Events answered 202 that wait in the pipeline channel are lost with the engine's
  process (`NothingVanishes` counts them as dropped there).
* Removing an agent in the UI tells the Wazuh manager, not the engine, so the next
  sync brings it back (`Converges` includes removed agents).
* `handleLogout` of the layout shows the login page without loading it, and the
  query cache stays (`CacheIsOwn` with `handed`).
* The 401 interceptor does not look whose token was refused (`EndsByItself` with
  `clean`).
* Two handlers that overlap may both accept a backup code, of which the page
  says that each works once (AccountSecurity.tsx:209); `BackupCodesOnce` with
  `interleaved`.
* A dashboard's save that is answered on another dashboard's view writes its
  widgets into that one's cache entry (`NoMixing` with `crossed`).
* A workflow opened from fresh cached data is shown as it was before the last
  save (`SavesKeep` with `loaded`); a save over one made in another tab drops what that
  one added (`SavesKeep` with `mixed`).
* A parser chosen while a request is on its way keeps the old text in the editor
  (`EditorMatchesStore` with `sound`).
* MFA handlers that overlap can leave MFA on with a secret that no app has
  (`StillReachable` with `interleaved`).
* A change of an alert whose page was turned to another one before the answer is not
  shown (`OwnChangeShown` with `follow`).
* The status buttons of the list of cases do not make the case itself read again
  (`CaseUnfollowed`), the changes of alerts not their statistics (`DeskUnfollowed`).
* Dashboard and Agents use the key `['agents']` for lists of at most 100 and of at
  most 500 agents.
* What was typed into a panel of CaseDetail stays when the page turns to another case.

## 5. Proofs

### CorrelatorProofs

For every set of rules, match keys, windows, conditions, timestamps and events,
under `CorrelatorAssumption` (the constants have their types), TLAPS proves of
`Spec`: `TypeCorrect`, `AlertSpacing` (AlertsAWindowApart),
`AlertJustification` (AlertsJustified), `DetectionCompleteness`
(NoMissedDetection). The bound on the events plays no part in them.

None of the three properties is inductive: they speak of the whole log and of
alerts, the code decides from `times` and `firedAt`. `WindowInv` ties the two
together:

* `WindowHoldsHits`: every key the log hit is tracked, and its window holds only
  its own events, so a count never exceeds what the log justifies;
* `WindowComplete`: while a key's events came in order, its window still holds
  each of them that is not older than a window before any other of the key, so
  pruning has not lost what a later event counts;
* `FiredAtIsLatest`: `firedAt` is the timestamp of an alert of the key and no
  earlier than any, so comparing with it compares with all of them.

`ObserveStep` states once what a call does to the variables; `WindowInvNext`
proves the invariant key by key, for the touched and the untouched ones. Then
each property is preserved by a step that starts in the invariant:
`SlidCountable` says that the window an event leaves behind is within what the
log can count for it, which gives `AlertsJustifiedNext`; `SlidComplete` says the
converse while events are in order, which gives `NoMissedDetectionNext`.

### AgentRegistryProofs

For every number of agents, versions, goroutines and writes and all time limits
with `WriteWithin <= DisconnectAfter` (`AgentRegistryAssumption`): `TypeCorrect`,
`EnrolmentSafety` (EnrolmentStands), `ActiveSafety` (ActiveWhileHeard).

The properties speak of the table; what a step may do to it is in the hands of
the goroutines. `RegistryInv` says what those hold: a touch has the row of an
agent the table knows (`TouchedKnown`); no stamp is ahead of the clock, and the
table's is behind the newest that landed by at most `WriteWithin` (`StampsInv`,
because what lands last was stamped no longer ago than that); and a touch that no
enrolment overtook holds what the last enrolment said, unless the agent was
raced when it read (`InfoInv`). The bound on the table's stamp is not claimed of an
agent whose row came late (`late`), until the next insert that comes in time. `HandlerKeeps` covers the steps that only take up or
drop a write, `LandsTypes`, `LandsStamps` and `LandsInfo` the one that lands.

The same module extends AgentInventory, whose names differ from the registry's, and proves
`InventorySafety` (OneRowUnlessOverlapped) without any assumption on the constants.
`InventoryInv` says, while no two tasks have held rows at the same time, that there
is one row per agent, that only one task has rows in hand, and that an agent
its dictionary lacks has no row (`OneTaskKnowsAll`): removals only take rows away,
so what was missing when the task read is missing when it commits. `PartsOfFleet` and
`FleetSafety` carry the three properties over to the composition.

### EndpointProofs

Of Delivery, for any number of lines, messages, alerts of an event, requests at once and
crashes, and channels, batches and attempts of any size but zero
(`DeliveryAssumption`): `TypeCorrect` (TypeOK), `AnsweredMeansEntered`
(AckedEntered), `NothingIsMislaid` (NothingVanishes), `LinesEnterInOrder`
(InOrderUntilRetry) and `ImplementsPromise` (KeepsPromise).

`DeliveryInv` adds four conjuncts to the types, each kept by every step:

* `Paced`: wherever an event or alert is added there is room for it, and an
  attempt is left while one is being made, without which no bound on a batch
  is inductive;
* `Ordered`: buffer, batch and what each handler has left increase, and what is
  in the buffer is newer than all that was taken from it;
* `Waiting`: while the client waits, each event of its batch is with the handler
  it waits on or has entered, and an answer means that all have. That is
  `AckedEntered` before the fact, when nothing is acknowledged yet;
* `SendsCounted`: a line has entered, and is with handlers, no more often in all
  than it has been sent (`SentSoFar`, by where it is now). Counting entries
  alone is not inductive: a handler that outlived its client may yet push.

`NothingVanishes` then is a matter of following one event through each action.
The refinement maps copies to entries and the limit to the attempts:
`SendsCounted` is what bounds a step of the abstract `Enter`
(`StepsKeepPromise`). Order holds until an attempt has failed, by `FirstTime`: till
then there is one handler at most, and nothing at or behind a line that has yet to
enter (`Ahead`) has entered.

Of TailFile, for every number of files, pieces, cuts and faults (`TailAssumption`):
`FollowsThroughout` (FollowsTheFile). The property speaks of what is owed of the
file that is followed. `TailInv` adds what the two ends know of each other:
pieces are numbered as they are written and no two files share one (`Written`);
unless the place was lost, the file that is open is the one the path names and
the offset is in it (`Placed`); of a file that is left for good nothing is owed but
what was written too late (`Settled`); what lies behind the offset, in the
reader or in a later file was not submitted yet (`NotYetSent`), which is why a
piece is never sent twice.

Of FileIntegrity, for every set of paths and hashes and number of rounds, attempts
and restarts (`FileIntegrityAssumption`): `AlertsAddUpThroughout` (AlertsAddUp). `FimInv`
numbers the reports, so that two alerts on a file are of different rounds
(`Numbered`), and says of every file that was not missed that its newest alert
sent, late and repeated inserts included, is stored and tells what was found
(`LastStored`). A late insert cannot change the story because it is of a round
whose alert is stored already or which was given up.

`PartsOfEndpoint` takes the composition apart: a behaviour of `EndpointSpec` is
one of `Spec`, of `TailSpec` or of `FimSpec`, and `EndpointDelivers`,
`EndpointKeepsPromise` and `EndpointReports` carry the theorems over.

### EnumerationProofs and ParserStoreProofs

EnumerationProofs holds the lemmas about sequences and finite sets that the other
modules cite, and shows for every finite set of numbers that there is the list
`Ascending` chooses and what it holds. The induction over sets is in the form the
provers can take: of the sets without such a list a smallest one (`SmallestSet`),
less its greatest number.

For every set of names and documents, any base parsers, and any number of
requests, clock ticks and restarts (`ParserStoreAssumption`, under which the bound
names of documents are total): `ServesThroughout` (ServesWhatItLists),
`PersistedThroughout` (RunningIsPersisted), `EditsSurvive`
(SequentialEditsSurvive). `StoreInv` keeps the active set equal to `Merge(custom)`
(`Rebuilt`), which an edit and its rebuild under one lock make true, and gives
every row a past time and a document that compiles (`RowsOK`). `RunningIsPersisted`
is inductive with them. The third property needs, for a name that no two edits
overlapped on and no insert of which failed (`Sequential`): no row of it is
adrift, one handler at most is on it, whose row is not older than any in
the table while it is to be written and is the newest one once it is stored, and
at all other times memory holds what the newest row says (`Kept`). The newest by
time is then also the last inserted, so the tie-break of the table never matters
for such a name.

### WorkflowWalkProofs

For every number of nodes and all lists of edges (`WorkflowWalkAssumption`):
`WalkInvariant`, `OnlyReachedRuns` (OnlyWhatIsReached), `AllReachedRun`
(AllThatIsReached) and `EachOnce`: no node is executed twice, cycles or
not. `OnlyWhatIsReached` becomes inductive when the queue is included
(`QueuedIsReached`) and the start, which no entry leads to, is set apart (`Begun`).
`Pending` is the other direction: what an entry leads to is executed or still
queued. At the end the queue is empty, and what remains of `Pending` is
`AllThatIsReached`. `QueueMoves` says once
what a step does to the queue.

### SoarRunsProofs

For every set of webhooks, workers and workflows (finitely many of the last), all
levels and thresholds, any number of manual runs and faults
(`SoarRunsAssumption`): `SoarTypes`, `NoneForgotten` (NoRunForgotten),
`TriggeredOnce` (AlertsTrigger), `CountsExact` (RunCountExact) and `OverStaysOver`
(FinishedStays). `SoarInv` has three parts:

* `Delivered`: for every run that is not over, where its message is (`Placed`: the
  broker, a sender or a worker, or `cut`) and that it is there once unless it
  was delivered again (`Once`). Uniqueness is needed even for `NoRunForgotten`, since
  acknowledging a message would lose a run that another copy stands for. A run that is
  over is with nobody, unless its message was delivered again: of a task that waits
  for its acknowledgement the message is no longer one that counts;
* `Counted`: the `run_count` each walk read at its start is behind or exact, and
  for a workflow that was never walked twice at a time it is exact and the walk
  is the only one, so writing it back one higher is right;
* `AllMatched`: an alert has its runs, all of them, or none while one worker
  matches it or a failure cut the match off.

An action of this module changes queues, jobs and tables together. `NextDoes`
therefore classifies the steps first by their effect on them (a sender creates
rows, sends a message, a worker takes, starts, finishes, leaves), and each part of
the invariant is kept effect by effect, most of which do not concern it
(`SameWalks`, `SameFor`, `CountedStill`).

### FrontendProofs

For any number of users, browsers, questions, names, cases' writes, requests, faults
and the rest of the constants, under the assumptions named in the page modules
(`CaseWorkspaceAssumption`, `DashboardAssumption`, `WorkflowAssumption`,
`ParserBenchAssumption`, `AskAssumption`, `SignInAssumption`, `MfaAssumption`,
`DesksAssumption`: types, distinct special values, and that there is a text to show
and a secret to make). Every invariant and action property of the Frontend run is a
theorem of `Frontend!Spec`.

The module begins with what each operation of QueryCache does to an entry
(`SendFacts`, `ReceivedFacts`, `InvalidatedFacts`, ...), then proves each part for its own
specification. `OnePartSteps` says that a step of Frontend is a step or a stutter
of every part, `PartsOfFrontend` that its behaviours are behaviours of each; the
theorems at the end follow from these. The inductive invariants:

* `AskInv` (`AnswersShownLast`): a panel that keeps questions back has none of its
  mount on its way but the last (`LastOnly`), any other looks which question is
  answered; mounts and questions are numbered, so an earlier mount's answer is told.
* `SignInInv` (`CacheStaysOwn`, `SubmittedSignsIn`, `SessionEndsItself`): an answer to
  a form that still counts is that of the last one (`LastForm`), requests carry
  the number of their session (`SessionNumbered`), and while the session is clean
  every request on its way is its own (`OnlyOwnCalls`, `FirstSince`).
* `MfaInv` (`AlwaysReachable`, `CodesOnce`): a handler past its check has been allowed by
  the row it loaded (`AllowedWhenLoaded`), who enables has scanned a secret
  (`EnabledFromApp`), and while handlers do not overlap the row loaded is the row, it
  asks for a secret of the app, and holds only unused codes of that secret
  (`AccountSound`).
* `DeskInv` (`ChangesShown`): data that are fresh, and an answer already read, are not
  behind what is due (`DueIsKnown`); the version is bounded by the changes asked for
  (`VersionsCounted`); `TouchedIsFollowed` goes through the tables of what
  handlers change and pages read again.
* `BenchInv` (`EditorStaysTrue`): a list that has settled is as stored (`ListCurrent`), a
  sound selection was made while nothing else was on its way (`AloneIsAlone`), and
  the draft is then the stored text even before the list is quiet (`TextStored`).
* `DashInv` (`DashboardsStayApart`): whatever of a dashboard is on the screen, in the
  cache, in a request or stored was placed there (`OwnOf`), until a save has been
  answered across views.
* `FlowInv` (`WorkflowSavesKeep`): once fetched, and until a fetch and a save overlap or
  another tab saves, all
  that is stored of the workflow is on the canvas or was taken off it by the user
  (`CanvasHasStored`); so is what is cached (`CanvasHasCached`), what the fetch has read
  is what is stored (`ReadIsStored`), the saves on their way are the page's own
  (`OwnSaves`), and one that is sure is the only content on its way (`SureAlone`).
* `CaseInv` (`OwnWritesShown`, `ClosedWithVerdict`, `NumbersOfTheirOwn`): a write that did
  not overlap is in the rows for good, because every handler about to write the
  timeline back has read it (`KnowsTimeline`, `DoneIsThere`), so whatever the cache
  holds as fresh or is about to receive has all that is owed (`OwedIsHeld`). A
  handler about to close has seen a verdict, and the rows of the case only grow
  (`ClosesJudged`). For a user without a tenant a number given is at most the number
  of cases stored, and counted by every handler about to give the next one
  (`NumbersCounted`).

Proving `SavesKeep` corrected the model: `NewFlowId` could give a new workflow the id of
one that had been deleted while its page was still open, which the run's bounds did
not reach and the backend's UUIDs exclude. The id of the page shown is now excluded.

### What stays with TLC

The `TypeCorrect`, `StoreInvariant`, `WalkInvariant` and `SoarTypes` theorems speak of
`TypeOK` and of the inductive invariants, on which the others rest; the runs check
what is built on them instead.

Every invariant and action property of the passing runs is a theorem. Model-checked
only: all liveness (`BackpressureReleased`, `Terminates`, `AlertsSettle`, `RunsSettle`,
`Converges`), because fairness and ENABLED are beyond the prover; and the three
properties that runs refute (section 4).

## 6. Not modelled

* The text processing of decoding, normalization and rule matching (the
  correlator takes the result of `matchEvent` as given), and the workbench
  endpoints.
* Connectors, threat intelligence and AI clients; deployment and configuration.
* In the browser: what is typed into the forms of a case and its inline editors
  (mutations take what is submitted as given), the test of a parser in the
  editor, time ranges of a dashboard, templates, exports and links of alerts,
  and pages and components that only display.
* In SoarRuns: creation, change and deletion of workflows while runs wait, the
  enrichment of observables and the sweep's limit of 20 alerts.
* In Delivery: the contents of events. The package inventory, which is posted
  anew each round, and its matching against the feed of vulnerabilities. In
  ParserStore: the normalization that uses the active set.
* In SignIn and MfaEnrolment: password hashing, throttling, and the management
  of users beyond their second factor.

The remaining components of the table in section 1 are planned.

## 7. Plan

Order by weight: detection first (Correlator), then what feeds it and what it
runs (Delivery with TailFile and FileIntegrity, ParserStore), then what is done
with an alert (SoarRuns, WorkflowWalk), the endpoints (AgentRegistry,
AgentInventory), then the pages with the cases and accounts behind them
(Frontend). These are built. Next:

1. **Conditions** (engine/sigma.go, yaral.go): the evaluation of condition
   trees as recursive functions, checked against a reference over small trees.
2. SoarRuns with workflows that are changed or deleted while runs wait; the drafts
   of CaseDetail.

No invariant or action property of a run waits for its proof. What new
modules add is to be proved as they come: of Conditions, that the evaluation of a
tree is the one the reference gives, as far as it goes without induction over data.
