--------------------------- MODULE DashboardBuilder ---------------------------
(***************************************************************************)
(* The page on which users build dashboards (CustomDashboard.tsx): the     *)
(* widgets on the screen are local state, filled from the query of the     *)
(* saved dashboard by one effect and emptied by another when the view      *)
(* changes; Save sends all of them.                                        *)
(*                                                                         *)
(* Saves, deletions and creations are requests that take their time, and   *)
(* the user goes on meanwhile.  A pending mutation gets the callbacks of   *)
(* every new render, so its onSuccess uses the view shown when the answer  *)
(* comes.  The set of widgets stands for the list: adding one replaces its *)
(* duplicate.  One time range is modelled, and the menu knows which        *)
(* dashboards there are.                                                   *)
(***************************************************************************)
EXTENDS Naturals, QueryCache

CONSTANTS
    Dashboards,     \* the ids a dashboard may have
    Insights,       \* INSIGHTS_VIEW, which stands for both built-in views
    Widgets,        \* widgets the generator can propose
    Kept,           \* dashboard -> widgets stored at the start, for those that exist
    MaxDashRequests     \* bound of the model: saves, deletions and creations

ASSUME DashboardAssumption ==
    /\ Insights \notin Dashboards
    /\ DOMAIN Kept \subseteq Dashboards
    /\ \A d \in DOMAIN Kept : Kept[d] \subseteq Widgets
    /\ MaxDashRequests \in Nat

VARIABLES
    view,        \* the view shown
    widgets,     \* dashboardWidgets
    dirty,
    board,       \* dashboard -> entry of the query ['ai-dashboard', id]
    pending,     \* mutations on their way
    stored,      \* dashboard -> widgets, for the rows of the table
    dashRequests,    \* counter that bounds the model
    placed,      \* history: <<dashboard, widget>> the user put there
    crossed      \* history: a save was answered on another dashboard's view

dashVars == <<view, widgets, dirty, board, pending, stored, dashRequests, placed, crossed>>

Views == Dashboards \union {Insights}
Requests == [op: {"save", "delete", "create"}, of: Dashboards, content: SUBSET Widgets,
             phase: {"sent", "done", "refused"}]
DashPending(op) == \E m \in pending : m.op = op

-----------------------------------------------------------------------------
DashInit ==
    /\ view = Insights /\ widgets = {} /\ dirty = FALSE
    /\ board = [d \in Dashboards |-> NoEntry({})]
    /\ pending = {} /\ dashRequests = 0
    /\ stored = Kept
    /\ placed = UNION {{d} \X Kept[d] : d \in DOMAIN Kept}
    /\ crossed = FALSE

\* The effect that fills the widgets; it runs when the saved dashboard or dirty
\* has changed.
Filled(old, saved, isDirty) == IF saved.has /\ ~isDirty THEN saved.data ELSE old

\* Mutant: the effect on the view is missing.
KeepsEdits(v) ==
    /\ dirty' = dirty
    /\ widgets' = IF v \in Dashboards THEN Filled(widgets, board[v], dirty) ELSE widgets

\* Both effects run: the second empties the widgets and clears dirty, which runs
\* the first once more only if it was set.  So the widgets of a view whose data
\* are cached are missing until they are read again.
ResetsEdits(v) ==
    /\ dirty' = FALSE
    /\ widgets' = IF dirty /\ v \in Dashboards THEN Filled({}, board[v], FALSE) ELSE {}

\* Turning to another view, whose data may be old.
SwitchTo(v, old) ==
    /\ view' = v
    /\ ResetsEdits(v)
    /\ board' = IF v \in Dashboards THEN [board EXCEPT ![v] = Observed(Aged(@, old))]
                ELSE board

Pick(v) ==
    /\ v # view /\ v \in DOMAIN stored \union {Insights}
    /\ \E old \in BOOLEAN : SwitchTo(v, old)
    /\ UNCHANGED <<pending, stored, dashRequests, placed, crossed>>

\* The AI prompt proposes widgets; one of them is added to the dashboard shown,
\* loaded or not.
AddWidget(w) ==
    /\ view \in Dashboards
    /\ widgets' = widgets \union {w} /\ dirty' = TRUE
    /\ placed' = placed \union {<<view, w>>}
    /\ UNCHANGED <<view, board, pending, stored, dashRequests, crossed>>

RemoveWidget(w) ==
    /\ view \in Dashboards /\ w \in widgets
    /\ board[view].has \/ board[view].fetch = "idle"
    /\ widgets' = widgets \ {w} /\ dirty' = TRUE
    /\ UNCHANGED <<view, board, pending, stored, dashRequests, placed, crossed>>

DashRequest(op, d, content) ==
    /\ dashRequests < MaxDashRequests /\ dashRequests' = dashRequests + 1
    /\ pending' = pending \union {[op |-> op, of |-> d, content |-> content, phase |-> "sent"]}
    /\ UNCHANGED <<view, widgets, dirty, board, stored, placed, crossed>>

SaveDashboard ==
    /\ view \in Dashboards /\ dirty /\ ~DashPending("save")
    /\ DashRequest("save", view, widgets)

DeleteDashboard ==
    /\ view \in Dashboards /\ DashRequest("delete", view, {})

\* The id of a new dashboard is one that nothing has had.
NewId(d) ==
    /\ d \notin DOMAIN Kept \union DOMAIN stored /\ board[d] = NoEntry({})
    /\ \A m \in pending : m.of # d

CreateDashboard == \E d \in Dashboards : NewId(d) /\ DashRequest("create", d, {})

\* The rows of the table: PUT and DELETE answer 404 for a dashboard that is gone.
Put(d, content) == [x \in DOMAIN stored \union {d} |-> IF x = d THEN content ELSE stored[x]]
Without(d) == [x \in DOMAIN stored \ {d} |-> stored[x]]

DashHandle(m) ==
    /\ m.phase = "sent"
    /\ LET found == m.op = "create" \/ m.of \in DOMAIN stored IN
       /\ pending' = (pending \ {m})
                     \union {[m EXCEPT !.phase = IF found THEN "done" ELSE "refused"]}
       /\ stored' = IF ~found THEN stored
                    ELSE IF m.op = "delete" THEN Without(m.of)
                    ELSE Put(m.of, m.content)
    /\ UNCHANGED <<view, widgets, dirty, board, dashRequests, placed, crossed>>

\* onSuccess of the save: what was saved becomes the cached dashboard of the
\* view shown by now, and edits made meanwhile are dropped with dirty.
DashSaveAnswered(m) ==
    /\ m.op = "save"
    /\ board' = IF view \in Dashboards THEN [board EXCEPT ![view] = Written(@, m.content)]
                ELSE board
    /\ dirty' = FALSE
    /\ widgets' = IF view \in Dashboards /\ (dirty \/ ~board[view].has
                                                   \/ board[view].data # m.content)
                  THEN m.content ELSE widgets
    /\ crossed' = (crossed \/ (view # m.of /\ view \in Dashboards))
    /\ UNCHANGED view

\* onSuccess of a deletion or a creation turns to the insights or the new one.
MovesOn(m) ==
    /\ m.op \in {"delete", "create"}
    /\ LET v == IF m.op = "delete" THEN Insights ELSE m.of IN
       IF v = view THEN UNCHANGED <<view, widgets, dirty, board>>
       ELSE \E old \in BOOLEAN : SwitchTo(v, old)
    /\ UNCHANGED crossed

DashAnswered(m) ==
    /\ m.phase = "done"
    /\ pending' = pending \ {m}
    /\ DashSaveAnswered(m) \/ MovesOn(m)
    /\ UNCHANGED <<stored, dashRequests, placed>>

\* onError: a message.  A request may also get lost, before or after its effect.
DashRefused(m) ==
    /\ pending' = pending \ {m}
    /\ UNCHANGED <<view, widgets, dirty, board, stored, dashRequests, placed, crossed>>

-----------------------------------------------------------------------------
DashEntryStep(d, e) ==
    /\ board' = [board EXCEPT ![d] = e]
    /\ UNCHANGED <<view, dirty, pending, stored, dashRequests, placed, crossed>>

IsRead(d) ==
    /\ board[d].fetch = "sent" /\ d \in DOMAIN stored
    /\ DashEntryStep(d, BackendReads(board[d], stored[d])) /\ UNCHANGED widgets

\* The saved dashboard arrives.  Its widgets carry fresh numbers, so it may be a
\* new object although the same widgets are in it.
Arrives(d, anew) ==
    /\ board[d].fetch = "read"
    /\ ~board[d].has \/ board[d].data # board[d].read => anew
    /\ DashEntryStep(d, Received(board[d]))
    /\ widgets' = IF d = view /\ anew THEN Filled(widgets, Received(board[d]), dirty)
                  ELSE widgets

\* The fetch and its retries fail, because the dashboard is gone or otherwise.
Fails(d) ==
    /\ board[d].fetch = "sent"
    /\ DashEntryStep(d, GivenUp(board[d])) /\ UNCHANGED widgets

DashNext ==
    \/ \E v \in Views : Pick(v)
    \/ \E w \in Widgets : AddWidget(w) \/ RemoveWidget(w)
    \/ SaveDashboard \/ DeleteDashboard \/ CreateDashboard
    \/ \E m \in pending : DashHandle(m) \/ DashAnswered(m) \/ DashRefused(m)
    \/ \E d \in Dashboards : IsRead(d) \/ Fails(d)
    \/ \E d \in Dashboards, anew \in BOOLEAN : Arrives(d, anew)

DashSpec == DashInit /\ [][DashNext]_dashVars

-----------------------------------------------------------------------------
DashTypeOK ==
    /\ view \in Views /\ widgets \subseteq Widgets /\ dirty \in BOOLEAN
    /\ board \in [Dashboards -> Entries(SUBSET Widgets)]
    /\ pending \subseteq Requests
    /\ DOMAIN stored \subseteq Dashboards /\ \A d \in DOMAIN stored : stored[d] \subseteq Widgets
    /\ dashRequests \in 0 .. MaxDashRequests
    /\ placed \subseteq Dashboards \X Widgets
    /\ crossed \in BOOLEAN

\* Nothing is stored in a dashboard that the user has not put there: edits of
\* one dashboard never reach another, whatever is pending when the view changes.
\* The one way they do is a save answered on the view of another dashboard.
NoMixing ==
    ~crossed => \A d \in DOMAIN stored : {d} \X stored[d] \subseteq placed
=============================================================================
