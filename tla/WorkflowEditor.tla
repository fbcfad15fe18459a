---------------------------- MODULE WorkflowEditor ----------------------------
(***************************************************************************)
(* The editor of SOAR workflows (WorkflowBuilder.tsx), opened from their   *)
(* list (SettingsSOAR.tsx).  The graph on the canvas is local state; an    *)
(* effect replaces it whenever the query of the workflow gives a new       *)
(* object.  Save sends the whole graph and makes only the list read again, *)
(* so the cached workflow stays as it was read.  Another user, or this one *)
(* in another tab, may save the workflow at any time: no save looks at     *)
(* what it replaces.                                                       *)
(*                                                                         *)
(* Parts stand for what graphs are made of: nodes, edges and settings.     *)
(* The two routes of the editor show the same component, so going from a   *)
(* new workflow to its id keeps the canvas.                                *)
(***************************************************************************)
EXTENDS Naturals, QueryCache

CONSTANTS
    Flows,          \* the ids a workflow may have
    FlowsPage, New,  \* the other two routes: /soar and /soar/new
    Parts,          \* what graphs are made of
    KeptFlows,      \* workflow -> graph, for those stored at the start
    MaxSaves        \* bound of the model: saves, here and elsewhere

ASSUME WorkflowAssumption ==
    /\ FlowsPage \notin Flows /\ New \notin Flows /\ FlowsPage # New
    /\ DOMAIN KeptFlows \subseteq Flows
    /\ \A f \in DOMAIN KeptFlows : KeptFlows[f] \subseteq Parts
    /\ MaxSaves \in Nat

VARIABLES
    route,       \* the page shown: the list, a new workflow, or a workflow's id
    graph,       \* nodes and edges on the canvas
    flow,        \* workflow -> entry of the query ['workflow', id]
    saves,       \* requests of saveMutation on their way
    table,       \* workflow -> graph, for the rows there are
    sends,       \* counter that bounds the model
    removed,     \* history: what the user took off the canvas since it was filled
    loaded,      \* history: a fetch was answered since the workflow was opened
    mixed        \* history: that fetch and a save of the workflow overlapped, or
                 \* another tab has saved it since the workflow was opened

flowVars == <<route, graph, flow, saves, table, sends, removed, loaded, mixed>>
canvas == <<graph, removed, loaded, mixed>>

Saves == [of: Flows \union {New}, row: Flows \union {New}, graph: SUBSET Parts,
          removed: SUBSET Parts, sure: BOOLEAN, here: BOOLEAN,
          phase: {"sent", "done"}]
Saving(f) == \E m \in saves : m.of = f /\ m.phase = "sent"

-----------------------------------------------------------------------------
FlowInit ==
    /\ route = FlowsPage
    /\ graph = {} /\ removed = {} /\ loaded = FALSE /\ mixed = FALSE
    /\ flow = [f \in Flows |-> NoEntry({})]
    /\ saves = {} /\ sends = 0
    /\ table = KeptFlows

\* The effect on the query's data.
CanvasFilled(saved) == graph' = saved /\ removed' = {}

\* A component that is mounted anew has an empty canvas and no pending mutation.
MountedAnew ==
    /\ graph' = {} /\ removed' = {}
    /\ saves' = {[m EXCEPT !.here = FALSE] : m \in saves}

\* The query turns to workflow f.
Watches(f, old) ==
    /\ route' = f
    /\ flow' = [flow EXCEPT ![f] = Observed(Aged(@, old))]
Overlaps(f) == Saving(f) \/ flow[f].fetch # "idle"

\* Edit: what is cached fills the canvas at once.
OpenFlow(f, old) ==
    /\ route = FlowsPage /\ f \in DOMAIN table
    /\ Watches(f, old) /\ loaded' = FALSE /\ mixed' = Overlaps(f)
    /\ IF flow[f].has
       THEN /\ CanvasFilled(flow[f].data)
            /\ saves' = {[m EXCEPT !.here = FALSE] : m \in saves}
       ELSE MountedAnew
    /\ UNCHANGED <<table, sends>>

OpenNewFlow ==
    /\ route = FlowsPage /\ route' = New
    /\ MountedAnew /\ loaded' = FALSE /\ mixed' = FALSE
    /\ UNCHANGED <<flow, table, sends>>

Back ==
    /\ route # FlowsPage /\ route' = FlowsPage
    /\ MountedAnew /\ loaded' = FALSE /\ mixed' = FALSE
    /\ UNCHANGED <<flow, table, sends>>

\* Drops, connections, deletions: the canvas takes them before it is filled too.
Draw(parts) ==
    /\ route # FlowsPage /\ graph' = parts
    /\ removed' = (removed \union graph) \ parts
    /\ UNCHANGED <<route, flow, saves, table, sends, loaded, mixed>>

Place(p) == p \notin graph /\ Draw(graph \union {p})
TakeOff(p) == p \in graph /\ Draw(graph \ {p})

\* The graph is sent as it is, loaded or not.
SaveFlow ==
    /\ route # FlowsPage /\ sends < MaxSaves /\ sends' = sends + 1
    /\ ~\E m \in saves : m.here
    /\ saves' = {IF m.of = route THEN [m EXCEPT !.sure = FALSE] ELSE m : m \in saves}
                \union {[of |-> route, row |-> route, graph |-> graph, removed |-> removed,
                         sure |-> loaded /\ ~mixed,
                         here |-> TRUE, phase |-> "sent"]}
    /\ mixed' = (mixed \/ (route # New /\ flow[route].fetch # "idle"))
    /\ UNCHANGED <<route, graph, flow, table, removed, loaded>>

-----------------------------------------------------------------------------
\* POST makes a row with a new id; PATCH of a workflow that is gone is refused.
Stored(f, g) == [x \in DOMAIN table \union {f} |-> IF x = f THEN g ELSE table[x]]
NewFlowId(f) ==
    /\ f \notin DOMAIN table /\ f # route
    /\ flow[f] = NoEntry({}) /\ \A m \in saves : m.row # f

\* The content of a request that is done matters no more.
Done(m, f) ==
    [m EXCEPT !.row = f, !.phase = "done", !.graph = {}, !.removed = {}, !.sure = FALSE]

Post(m, f) ==
    /\ m.of = New /\ m.phase = "sent" /\ NewFlowId(f)
    /\ table' = Stored(f, m.graph)
    /\ saves' = (saves \ {m}) \union {Done(m, f)}
    /\ UNCHANGED <<route, flow, sends, canvas>>

Patch(m) ==
    /\ m.of \in Flows /\ m.phase = "sent"
    /\ IF m.of \in DOMAIN table
       THEN table' = Stored(m.of, m.graph) /\ saves' = (saves \ {m}) \union {Done(m, m.of)}
       ELSE saves' = saves \ {m} /\ UNCHANGED table
    /\ UNCHANGED <<route, flow, sends, canvas>>

\* Save in another tab, of this user or another one: nothing that is on its way
\* to the workflow or shown of it is up to date any more.
SavedElsewhere(f, g) ==
    /\ f \in DOMAIN table /\ table' = Stored(f, g)
    /\ sends < MaxSaves /\ sends' = sends + 1
    /\ saves' = {IF m.of = f THEN [m EXCEPT !.sure = FALSE] ELSE m : m \in saves}
    /\ mixed' = (mixed \/ f = route \/ \E m \in saves : m.here /\ m.row = f)
    /\ UNCHANGED <<route, flow, graph, removed, loaded>>

\* The list's Delete, of this user or another one.
DeleteFlow(f) ==
    /\ f \in DOMAIN table
    /\ table' = [x \in DOMAIN table \ {f} |-> table[x]]
    /\ UNCHANGED <<route, flow, saves, sends, canvas>>

\* onSuccess: after a POST the browser goes to the new workflow, from wherever
\* it is by now, unless the page that sent it has an id meanwhile.
GoesToEdit(m) == m.of = New /\ (m.here => route = New)

FlowAnswered(m, old) ==
    /\ m.phase = "done"
    /\ IF ~GoesToEdit(m)
       THEN ~old /\ saves' = saves \ {m} /\ UNCHANGED <<route, flow, canvas>>
       ELSE /\ Watches(m.row, old) /\ loaded' = m.here
            /\ mixed' = (Overlaps(m.row) \/ (m.here /\ mixed))
            /\ saves' = saves \ {m}
            /\ IF flow[m.row].has THEN CanvasFilled(flow[m.row].data)
               ELSE UNCHANGED <<graph, removed>>
    /\ UNCHANGED <<table, sends>>

\* onError, or the answer does not come.
SaveFails(m) ==
    /\ saves' = saves \ {m}
    /\ UNCHANGED <<route, flow, table, sends, canvas>>

-----------------------------------------------------------------------------
FlowStep(f, e) ==
    /\ flow' = [flow EXCEPT ![f] = e]
    /\ UNCHANGED <<route, saves, table, sends>>

FlowIsRead(f) ==
    /\ flow[f].fetch = "sent" /\ f \in DOMAIN table
    /\ FlowStep(f, BackendReads(flow[f], table[f])) /\ UNCHANGED canvas

\* Mutant: the canvas is filled once, with what came first.
RunsEffectOnce(f, newer) == f = route /\ ~flow[f].has

\* The same row again is the same object, which runs no effect; a row of which
\* another column is newer, the counter of its runs, say, is another object.
RunsEffect(f, newer) == f = route /\ (~flow[f].has \/ flow[f].data # flow[f].read \/ newer)

FlowArrives(f, newer) ==
    /\ flow[f].fetch = "read"
    /\ FlowStep(f, Received(flow[f]))
    /\ loaded' = (loaded \/ f = route)
    /\ IF RunsEffect(f, newer)
       THEN CanvasFilled(flow[f].read) ELSE UNCHANGED <<graph, removed>>
    /\ UNCHANGED mixed

FlowFails(f) ==
    /\ flow[f].fetch = "sent"
    /\ FlowStep(f, GivenUp(flow[f])) /\ UNCHANGED canvas

FlowNext ==
    \/ \E f \in Flows : \E old \in Ages(flow[f]) : OpenFlow(f, old)
    \/ OpenNewFlow \/ Back \/ SaveFlow
    \/ \E p \in Parts : Place(p) \/ TakeOff(p)
    \/ \E m \in saves, f \in Flows : Post(m, f)
    \/ \E m \in saves, old \in BOOLEAN : FlowAnswered(m, old)
    \/ \E m \in saves : Patch(m) \/ SaveFails(m)
    \/ \E f \in Flows : \E g \in SUBSET Parts : SavedElsewhere(f, g)
    \/ \E f \in Flows : \E newer \in BOOLEAN : FlowArrives(f, newer)
    \/ \E f \in Flows : DeleteFlow(f) \/ FlowIsRead(f) \/ FlowFails(f)

FlowSpec == FlowInit /\ [][FlowNext]_flowVars

-----------------------------------------------------------------------------
FlowTypeOK ==
    /\ route \in Flows \union {FlowsPage, New} /\ graph \subseteq Parts
    /\ flow \in [Flows -> Entries(SUBSET Parts)]
    /\ saves \subseteq Saves
    /\ DOMAIN table \subseteq Flows /\ \A f \in DOMAIN table : table[f] \subseteq Parts
    /\ sends \in 0 .. MaxSaves
    /\ removed \subseteq Parts /\ loaded \in BOOLEAN /\ mixed \in BOOLEAN

\* Save replaces the stored graph with the canvas (no version is compared), yet
\* drops no part of it that the user has not taken off.  That is so only if the
\* workflow was fetched since it was opened, the fetch overlapped no save, this
\* save overlaps no other, and nobody has saved the workflow elsewhere since it
\* was opened: such a save is lost.  A workflow opened from fresh cached data is
\* shown as it was before the last save.
SavesKeep ==
    \A m \in saves : m.phase = "sent" /\ m.sure /\ m.of \in DOMAIN table
        => table[m.of] \subseteq m.graph \union m.removed
=============================================================================
