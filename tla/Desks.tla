-------------------------------- MODULE Desks --------------------------------
(***************************************************************************)
(* The pages that list what the backend has and let an analyst change it:  *)
(* alerts, events, agents, connectors, settings, account, dark web,        *)
(* forensics, workflows and the dashboard, all within the layout of the    *)
(* app.  Each page uses some queries, some of them fetched again at an     *)
(* interval; its mutations make some lists read again.                     *)
(*                                                                         *)
(* A behaviour watches one list, chosen at the start.  Its rows are a      *)
(* version, one higher with every change; the analyst's changes and those  *)
(* of everybody else, the workers included, have the same effect on it.    *)
(* The list "alert" is one alert; the page of an alert stays mounted when  *)
(* the history leads to another one.                                       *)
(***************************************************************************)
EXTENDS Naturals, FiniteSetsExt, QueryCache

CONSTANTS
    MaxChanges,     \* bound of the model: changes requested here
    MaxOthers,      \* bound of the model: changes by others
    MaxLosses       \* bound of the model: requests that fail on their way

ASSUME DesksAssumption == MaxChanges \in Nat /\ MaxOthers \in Nat /\ MaxLosses \in Nat

-----------------------------------------------------------------------------
(* The pages: the lists they use, those they poll, what they offer, which  *)
(* of it waits for one of its kind, and whether the key of a list depends  *)
(* on filters, on a choice or on the id in the route.  Of the connectors   *)
(* Test waits for a pending one, Verify all sends one for each regardless. *)

Layout == {"alert-stats"}

AlertsPage == [uses |-> {"alerts"}, polls |-> {"alerts"}, offers |-> {"updateAlert"},
               guarded |-> {}, refresh |-> {"alerts"}, keyed |-> {"alerts"}]
AlertDetail == [uses |-> {"alert"}, polls |-> {}, offers |-> {"updateThisAlert"},
                guarded |-> {}, refresh |-> {}, keyed |-> {"alert"}]
EventsPage == [uses |-> {"events"}, polls |-> {"events"}, offers |-> {},
               guarded |-> {}, refresh |-> {"events"}, keyed |-> {"events"}]
AgentsPage == [uses |-> {"agents"}, polls |-> {"agents"}, offers |-> {"removeAgent"},
               guarded |-> {"removeAgent"}, refresh |-> {"agents"}, keyed |-> {}]
ConnectorsPage == [uses |-> {"connectors"}, polls |-> {},
                   offers |-> {"verifyConnector", "updateConnector"},
                   guarded |-> {}, refresh |-> {}, keyed |-> {}]
SettingsPage == [uses |-> {"me", "health", "users", "tenants"}, polls |-> {"health"},
                 offers |-> {"createUser", "resetMfa", "createTenant"},
                 guarded |-> {"createUser", "resetMfa", "createTenant"},
                 refresh |-> {}, keyed |-> {}]
AccountPage == [uses |-> {"me"}, polls |-> {}, offers |-> {"confirmEnable", "handleDisable"},
                guarded |-> {"confirmEnable", "handleDisable"}, refresh |-> {}, keyed |-> {}]
DarkWebPage ==
    [uses |-> {"darkweb-stats", "darkweb-assets", "darkweb-findings"},
     polls |-> {"darkweb-stats", "darkweb-assets", "darkweb-findings"},
     offers |-> {"handleAddAsset", "handleDelete", "handleStatus"},
     guarded |-> {}, refresh |-> {}, keyed |-> {}]
ForensicsPage ==
    [uses |-> {"forensics-clients", "forensics-flows", "forensics-results"},
     polls |-> {"forensics-clients", "forensics-flows"}, offers |-> {"handleCollect"},
     guarded |-> {"handleCollect"}, refresh |-> {"forensics-clients"},
     keyed |-> {"forensics-flows", "forensics-results"}]
SettingsSOAR == [uses |-> {"workflows"}, polls |-> {"workflows"},
                 offers |-> {"runWorkflow", "toggleWorkflow", "deleteWorkflow"},
                 guarded |-> {"runWorkflow", "toggleWorkflow"}, refresh |-> {}, keyed |-> {}]
WorkflowBuilder == [uses |-> {}, polls |-> {}, offers |-> {"saveWorkflow"},
                    guarded |-> {"saveWorkflow"}, refresh |-> {}, keyed |-> {}]
Dashboard == [uses |-> {"recent-alerts", "agents", "connectors"}, polls |-> {"recent-alerts"},
              offers |-> {}, guarded |-> {}, refresh |-> {}, keyed |-> {}]

DeskPages == {AlertsPage, AlertDetail, EventsPage, AgentsPage, ConnectorsPage, SettingsPage,
              AccountPage, DarkWebPage, ForensicsPage, SettingsSOAR, WorkflowBuilder, Dashboard}
DeskLists == Layout \union UNION {p.uses : p \in DeskPages}

\* Mutant: the statistics are not read again.
OnlyFindings == {"darkweb-findings"}

AfterStatus == {"darkweb-findings", "darkweb-stats"}

\* What the answer of a mutation makes the page read again.
DeskInvalidates ==
    [updateAlert     |-> {"alerts"},
     updateThisAlert |-> {"alert", "alerts"},
     removeAgent     |-> {"agents"},
     verifyConnector |-> {"connectors"}, updateConnector |-> {"connectors"},
     createUser      |-> {"users"}, resetMfa |-> {"users"}, createTenant |-> {"tenants"},
     confirmEnable   |-> {"me"}, handleDisable |-> {"me"},
     handleAddAsset  |-> {"darkweb-assets"},
     handleDelete    |-> {"darkweb-assets", "darkweb-findings"},
     handleStatus    |-> AfterStatus,
     handleCollect   |-> {"forensics-flows"},
     runWorkflow     |-> {"workflows"}, toggleWorkflow |-> {"workflows"},
     deleteWorkflow  |-> {"workflows"}, saveWorkflow |-> {"workflows"}]
DeskMutations == DOMAIN DeskInvalidates

\* The lists whose rows the handler changes before it answers.
OfAlerts == {"alerts", "alert", "alert-stats", "recent-alerts"}
DeskTouches ==
    [updateAlert     |-> OfAlerts, updateThisAlert |-> OfAlerts,
     removeAgent     |-> {"agents"},
     verifyConnector |-> {"connectors"}, updateConnector |-> {"connectors"},
     createUser      |-> {"users"}, resetMfa |-> {"users"}, createTenant |-> {"tenants"},
     confirmEnable   |-> {"me", "users"}, handleDisable |-> {"me", "users"},
     handleAddAsset  |-> {"darkweb-assets", "darkweb-stats"},
     handleDelete    |-> {"darkweb-assets", "darkweb-findings", "darkweb-stats"},
     handleStatus    |-> {"darkweb-findings", "darkweb-stats"},
     handleCollect   |-> {"forensics-flows"},
     runWorkflow     |-> {}, toggleWorkflow |-> {"workflows"},
     deleteWorkflow  |-> {"workflows"}, saveWorkflow |-> {"workflows"}]

\* Changed rows that no answer makes a page read again: those of three lists
\* that are polled, an alert changed on the list of alerts, and the user's own
\* second factor in the list of users.
DeskUnfollowed ==
    {<<op, l>> : op \in {"updateAlert", "updateThisAlert"}, l \in {"alert-stats", "recent-alerts"}}
    \union {<<op, "darkweb-stats">> : op \in {"handleAddAsset", "handleDelete"}}
    \union {<<"updateAlert", "alert">>, <<"confirmEnable", "users">>, <<"handleDisable", "users">>}

-----------------------------------------------------------------------------
VARIABLES
    list,        \* the list this behaviour watches
    desk,        \* the page shown
    chosen,      \* the filters, the choice or the route give the key watched
    version,     \* the rows of the list
    query,       \* its cache entry
    changes,     \* mutations on their way
    requested, others, losses,   \* counters that bound the model
    due          \* history: the version the analyst is owed the sight of

deskVars == <<list, desk, chosen, version, query, changes, requested, others, losses, due>>

\* A mutation is about the alert that is watched or another one ("own"), and its
\* callback is about the one shown when the page that sent it was last shown
\* ("follow"); only the last of its kind sent by the mounted page is "current".
Changes == [n: 1 .. MaxChanges, op: DeskMutations, made: 0 .. MaxChanges + MaxOthers,
            own: BOOLEAN, follow: BOOLEAN, current: BOOLEAN]
InUse(p, isChosen) == list \in Layout \union p.uses /\ (list \in p.keyed => isChosen)
Watching == InUse(desk, chosen)

\* The page is on a desk that uses the list, or offers to change it.
Relevant(p) == \/ list \in p.uses
               \/ \E op \in p.offers : list \in DeskTouches[op] \union DeskInvalidates[op]

DeskInit ==
    /\ list \in DeskLists
    /\ desk \in {p \in DeskPages : Relevant(p) \/ p = Dashboard}
    /\ chosen = TRUE /\ version = 0 /\ due = 0
    /\ query = IF Watching THEN Send(NoEntry(0)) ELSE NoEntry(0)
    /\ changes = {} /\ requested = 0 /\ others = 0 /\ losses = 0

\* What is watched from now on may be old; what was watched before goes on.
TurnTo(p, isChosen, old) ==
    /\ desk' = p /\ chosen' = isChosen
    /\ query' = IF InUse(p, isChosen) /\ ~Watching THEN Observed(Aged(query, old)) ELSE query
    /\ UNCHANGED <<list, version, requested, others, losses, due>>

Visit(p, isChosen, old) ==
    /\ p # desk /\ (Relevant(p) \/ p = Dashboard)
    /\ isChosen \/ list \in p.keyed
    /\ TurnTo(p, isChosen, old)
    /\ changes' = {[m EXCEPT !.current = FALSE] : m \in changes}

\* A filter, a time range, a client or a flow is chosen: another key.  From an
\* alert to another one the pending mutation gets the callback of the new id.
Choose(old) ==
    /\ list \in desk.keyed /\ TurnTo(desk, ~chosen, old)
    /\ changes' = IF list = "alert"
                  THEN {IF m.current THEN [m EXCEPT !.follow = ~chosen] ELSE m : m \in changes}
                  ELSE changes

\* isPending is of the mounted page.
DeskPending(op) == \E m \in changes : m.op = op /\ m.current

DeskMutate(op) ==
    /\ op \in desk.offers /\ list \in DeskTouches[op] \union DeskInvalidates[op]
    /\ op \in desk.guarded => ~DeskPending(op)
    /\ requested < MaxChanges /\ requested' = requested + 1
    /\ changes' = {IF m.op = op THEN [m EXCEPT !.current = FALSE] ELSE m : m \in changes}
                  \union {[n |-> requested + 1, op |-> op, made |-> 0,
                           own |-> chosen, follow |-> chosen, current |-> TRUE]}
    /\ UNCHANGED <<list, desk, chosen, version, query, others, losses, due>>

Touches(m) == list \in DeskTouches[m.op] /\ (list = "alert" => m.own)
Follows(m) == list \in DeskInvalidates[m.op] /\ (list = "alert" => m.follow)

\* The handler commits, and the change is in the list from then on.
Handled(m) ==
    /\ m.made = 0 /\ Touches(m)
    /\ version' = version + 1
    /\ changes' = (changes \ {m}) \union {[m EXCEPT !.made = version + 1]}
    /\ UNCHANGED <<list, desk, chosen, query, requested, others, losses, due>>

\* onSuccess: of a mutation of this page or of one that was left meanwhile.
DeskAnswered(m) ==
    /\ m.made # 0 \/ ~Touches(m)
    /\ changes' = changes \ {m}
    /\ query' = IF Follows(m) THEN Invalidated(query, Watching) ELSE query
    /\ due' = IF \/ ~Touches(m) \/ <<m.op, list>> \in DeskUnfollowed
                 \/ list = "alert" /\ ~m.follow
                 \/ Joins(query, Watching)
              THEN due ELSE Max({due, m.made})
    /\ UNCHANGED <<list, desk, chosen, version, requested, others, losses>>

Lost(m) ==
    /\ losses < MaxLosses /\ losses' = losses + 1
    /\ changes' = changes \ {m}
    /\ UNCHANGED <<list, desk, chosen, version, query, requested, others, due>>

Other ==
    /\ others < MaxOthers /\ others' = others + 1 /\ version' = version + 1
    /\ UNCHANGED <<list, desk, chosen, query, changes, requested, losses, due>>

-----------------------------------------------------------------------------
QueryStep(q) ==
    /\ query' = q
    /\ UNCHANGED <<list, desk, chosen, version, changes, requested, others, due>>

\* refetchInterval: nothing is sent while a fetch is on its way.
DeskPoll ==
    /\ Watching /\ list \in desk.polls \union Layout /\ query.fetch = "idle"
    /\ QueryStep(Send(query)) /\ UNCHANGED losses

\* refetch gives up a fetch on its way, but for the very first one; the button
\* of the forensics page waits for it.
Refresh ==
    /\ Watching /\ list \in desk.refresh /\ ~Joins(query, TRUE)
    /\ list = "forensics-clients" => query.fetch = "idle"
    /\ QueryStep(Send(query)) /\ UNCHANGED losses

DeskListIsRead ==
    /\ query.fetch = "sent" /\ QueryStep(BackendReads(query, version)) /\ UNCHANGED losses

DeskListArrives ==
    /\ query.fetch = "read" /\ QueryStep(Received(query)) /\ UNCHANGED losses

DeskListFails ==
    /\ query.fetch = "sent" /\ losses < MaxLosses /\ losses' = losses + 1
    /\ QueryStep(GivenUp(query))

DeskNext ==
    \/ \E p \in DeskPages, isChosen \in BOOLEAN, old \in Ages(query) : Visit(p, isChosen, old)
    \/ \E old \in Ages(query) : Choose(old)
    \/ \E op \in DeskMutations : DeskMutate(op)
    \/ \E m \in changes : Handled(m) \/ DeskAnswered(m) \/ Lost(m)
    \/ Other \/ DeskPoll \/ Refresh \/ DeskListIsRead \/ DeskListArrives \/ DeskListFails

DeskSpec == DeskInit /\ [][DeskNext]_deskVars

-----------------------------------------------------------------------------
DeskTypeOK ==
    /\ list \in DeskLists /\ desk \in DeskPages /\ chosen \in BOOLEAN
    /\ version \in 0 .. MaxChanges + MaxOthers
    /\ query \in Entries(0 .. MaxChanges + MaxOthers)
    /\ changes \subseteq Changes
    /\ requested \in 0 .. MaxChanges /\ others \in 0 .. MaxOthers /\ losses \in 0 .. MaxLosses
    /\ due \in 0 .. version

\* A list that has settled shows every change of the analyst that was answered,
\* on whatever page the answer and the fetches found them.  Left out are changes
\* no list is read again for (DeskUnfollowed), answers that found the first fetch
\* of the list on its way, which they do not repeat, and the change of an alert
\* whose page was turned to another alert before the answer came: the entry of
\* that other alert is read again, and the one changed stays as it was
\* (updateMutation, AlertDetail.tsx).
OwnChangeShown == Settled(query) => due <= query.data
=============================================================================
