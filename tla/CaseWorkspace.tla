---------------------------- MODULE CaseWorkspace ----------------------------
(***************************************************************************)
(* The case pages (Cases.tsx, CaseDetail.tsx) over the case endpoints      *)
(* (router.py): queries that show lists, mutations that change rows, and   *)
(* the invalidations by which a mutation makes the page read again.        *)
(*                                                                         *)
(* The entries of the query cache do not influence one another, so a       *)
(* behaviour watches one list, chosen at the start, of one case, Here; the *)
(* user also works on another case, There.  The rows of the list are the   *)
(* set of writes they show the effect of.  Requests are handled in two     *)
(* steps, as the handlers await the database between reading and           *)
(* committing; one browser tab has several requests in flight.  All of     *)
(* them are of one user, who may belong to a tenant; writes of others are  *)
(* left out.                                                               *)
(***************************************************************************)
EXTENDS Naturals, FiniteSets, QueryCache

CONSTANTS
    Here, There,    \* two cases that exist already
    ListPage,       \* the page of all cases
    Watchable,      \* the lists a behaviour may watch
    Roles,          \* what the user may be to the tenants
    MaxWrites,      \* bound of the model: mutations started
    MaxFaults,      \* bound of the model: requests that fail on their way
    Spared          \* bound of the model: the mutations left out for a watched list

Lists == {"cases", "case", "timeline", "alerts", "observables", "tasks",
          "comments", "assets", "evidence", "notes"}

\* The mutations of the pages and the list each of them is about.
ListOf ==
    [createCase |-> "cases", updateStatus |-> "cases",
     updateCase |-> "case", addTimelineNote |-> "timeline",
     addComment |-> "comments", updateComment |-> "comments",
     addObservable |-> "observables", updateObservable |-> "observables",
     deleteObservable |-> "observables",
     createTask |-> "tasks", updateTask |-> "tasks", deleteTask |-> "tasks",
     createAsset |-> "assets", updateAsset |-> "assets", deleteAsset |-> "assets",
     createEvidence |-> "evidence", updateEvidence |-> "evidence",
     deleteEvidence |-> "evidence",
     createNote |-> "notes", updateNote |-> "notes", deleteNote |-> "notes"]
CaseOps == DOMAIN ListOf

ASSUME CaseWorkspaceAssumption ==
    /\ Here # There /\ ListPage \notin {Here, There}
    /\ Watchable \subseteq Lists /\ Roles \subseteq {"untenanted", "staff", "customer"}
    /\ MaxWrites \in Nat /\ MaxFaults \in Nat
    /\ Spared \in [Watchable -> SUBSET CaseOps]

Cases == {Here, There}
Pages == Cases \union {ListPage}

-----------------------------------------------------------------------------
(* What the pages invalidate and what the handlers change.                 *)

invalidateCase == {"case", "timeline", "cases"}

InvalidatesTimeline ==
    {"addComment", "addObservable", "createTask", "updateTask", "createAsset",
     "updateAsset", "createEvidence", "createNote"}

\* Mutant: a mutation makes only its own list read again.
InvalidatesOwnList(op) == {ListOf[op]}

CaseInvalidates(op) ==
    IF op \in {"updateCase", "addTimelineNote"} THEN invalidateCase
    ELSE {ListOf[op]} \union (IF op \in InvalidatesTimeline THEN {"timeline"} ELSE {})

\* The handlers that append to the timeline of the case they change.
LogsTimeline ==
    {"updateCase", "updateStatus", "addTimelineNote", "addComment", "addObservable",
     "createTask", "updateTask", "createAsset", "updateAsset", "createEvidence",
     "createNote"}

\* The lists whose rows change: a case's row is shown by its page and by the
\* list of cases, an asset's name by the observables that point to it.
CaseTouches(op) ==
    {ListOf[op]}
    \union (IF op \in LogsTimeline THEN {"timeline"} ELSE {})
    \union (IF op \in {"updateCase", "updateStatus"} THEN {"case", "cases"} ELSE {})
    \union (IF op = "deleteAsset" THEN {"observables"} ELSE {})

\* Touched lists of a case that no invalidation of the page reaches.
CaseUnfollowed ==
    {<<"deleteAsset", "observables">>, <<"updateStatus", "case">>,
     <<"updateStatus", "timeline">>}

-----------------------------------------------------------------------------
(* What each part of the pages offers, and which of it a pending mutation  *)
(* of the same kind disables.  Enter submits a task or a timeline note     *)
(* whether or not one is pending.                                          *)

Header       == [offers |-> {"updateCase"}, disabled |-> {}]
TimelineTab  == [offers |-> {"addTimelineNote"}, disabled |-> {}]
AlertsTab    == [offers |-> {}, disabled |-> {}]
IocsTab      == [offers |-> {"addObservable", "updateObservable", "deleteObservable"},
                 disabled |-> {"addObservable"}]
AssetsTab    == [offers |-> {"createAsset", "updateAsset", "deleteAsset"},
                 disabled |-> {"createAsset"}]
EvidenceTab  == [offers |-> {"createEvidence", "updateEvidence", "deleteEvidence"},
                 disabled |-> {"createEvidence"}]
TasksTab     == [offers |-> {"createTask", "updateTask", "deleteTask"}, disabled |-> {}]
NotesTab     == [offers |-> {"createNote", "updateNote", "deleteNote"},
                 disabled |-> {"createNote"}]
CommentsTab  == [offers |-> {"addComment", "updateComment"}, disabled |-> {"addComment"}]
CasePanels   == {Header, TimelineTab, AlertsTab, IocsTab, AssetsTab, EvidenceTab,
                 TasksTab, NotesTab, CommentsTab}
CreatePanel  == [offers |-> {"createCase"}, disabled |-> {"createCase"}]
RowButtons   == [offers |-> {"updateStatus"}, disabled |-> {}]
ListPanels   == {CreatePanel, RowButtons}

-----------------------------------------------------------------------------
VARIABLES
    watched,     \* the list this behaviour watches
    role,        \* what the user is to the tenants
    page,        \* the page shown
    modal,       \* the closing modal of the case page is open
    rows,        \* the watched list as the backend has it
    entry,       \* its cache entry
    muts,        \* mutations on their way
    closed,      \* the case Here is resolved or closed
    numbers,     \* the case numbers given: <<write, number>>
    started,     \* counter that bounds the model: mutations
    faults,      \* counter that bounds the model: failed requests
    overlapped,  \* history: writes committed while another handler had read
    owed         \* history: the writes the user is owed the sight of

caseVars == <<watched, role, page, modal, rows, entry, muts, closed, numbers, started,
              faults, overlapped, owed>>

Kinds == {"plain", "create", "reopen", "close", "verdict"}
Writes == [n: 1 .. MaxWrites, kind: Kinds]
CaseMutations ==
    [w: Writes, op: CaseOps, case: Pages, closure: Pages, current: BOOLEAN,
     phase: {"sent", "read", "done"}, seen: SUBSET Writes]

HasVerdict(shown) == \E w \in shown : w.kind = "verdict"
\* The page that uses the watched list, the requests that are about its rows.
Home == IF watched = "cases" THEN ListPage ELSE Here
Concerns(k) == watched = "cases" \/ k = Here
Rewrites(m) == \/ m.op = "createCase"
               \/ watched = "timeline" /\ m.op \in LogsTimeline /\ m.case = Here
\* isPending is of the mounted component, and of what it sent last.
CasePending(op) == \E m \in muts : m.op = op /\ m.current

\* A user without a tenant, one of the staff with a tenant (the seeded admin is
\* one), or a customer, who sees the cases of his tenant only.  The cases that
\* exist are a customer's own; the pages create cases without a tenant, as
\* createCase sends none and the row gets what was sent.
UserTenant == IF role = "untenanted" THEN "none" ELSE "own"
OldTenant  == IF role = "customer" THEN "own" ELSE "none"
NewTenant  == "none"

\* The rows that list_cases leaves out of a customer's list.
Hidden(w) ==
    watched = "cases" /\ role = "customer" /\ w.kind = "create" /\ NewTenant # UserTenant
Listed == {w \in rows : ~Hidden(w)}

CaseInit ==
    /\ watched \in Watchable
    /\ role \in Roles
    /\ page = ListPage /\ modal = FALSE
    /\ rows = {}
    /\ entry = IF page = Home THEN Send(NoEntry({})) ELSE NoEntry({})
    /\ muts = {}
    /\ closed = FALSE
    /\ numbers = {} /\ overlapped = {} /\ owed = {}
    /\ started = 0 /\ faults = 0

-----------------------------------------------------------------------------
(* The browser                                                             *)

\* To the list, to a case, or from a case to another one: then the page stays
\* mounted, its pending mutations get the callbacks of the new id.  The data of
\* the page turned to may be old.
Navigate(p, old) ==
    /\ p # page
    /\ page' = p
    /\ LET stays == page \in Cases /\ p \in Cases IN
       /\ modal' = (modal /\ stays)
       /\ muts' = {IF ~m.current THEN m
                   ELSE IF stays THEN [m EXCEPT !.closure = p]
                   ELSE [m EXCEPT !.current = FALSE] : m \in muts}
    /\ entry' = IF p = Home THEN Observed(Aged(entry, old)) ELSE entry
    /\ UNCHANGED <<watched, role, rows, closed, numbers, started, faults, overlapped, owed>>

\* mutate() of one of the mutations: a request for the case in the URL, or for
\* the row of a button.
CaseMutate(op, k, kind) ==
    /\ started < MaxWrites
    /\ op \notin Spared[watched] /\ watched \in CaseTouches(op) \union CaseInvalidates(op)
    /\ started' = started + 1
    /\ muts' = {IF m.op = op THEN [m EXCEPT !.current = FALSE] ELSE m : m \in muts}
               \union {[w |-> [n |-> started + 1, kind |-> kind], op |-> op, case |-> k,
                        closure |-> k, current |-> TRUE, phase |-> "sent", seen |-> {}]}
    /\ UNCHANGED <<watched, role, page, rows, entry, closed, numbers, faults, overlapped, owed>>

\* Panels of the case page; nothing is offered until the case is loaded.
CasePageShown == page \in Cases /\ (watched = "case" /\ page = Here => entry.has)
Submit(panel, op) ==
    /\ CasePageShown /\ panel \in CasePanels /\ op \in panel.offers
    /\ op \in panel.disabled => ~CasePending(op)
    /\ CaseMutate(op, page, "plain")
    /\ UNCHANGED modal

\* The status select: a closing status asks for a verdict if the case shown
\* has none.
SelectStatus(closing) ==
    /\ CasePageShown /\ watched = "case" /\ page = Here
    /\ IF closing /\ ~HasVerdict(entry.data)
       THEN /\ modal' = TRUE
            /\ UNCHANGED <<watched, role, page, rows, entry, muts, closed, numbers, started,
                           faults, overlapped, owed>>
       ELSE /\ CaseMutate("updateCase", page, IF closing THEN "close" ELSE "reopen")
            /\ UNCHANGED modal

Confirm ==
    /\ CasePageShown /\ modal /\ ~CasePending("updateCase")
    /\ CaseMutate("updateCase", page, "verdict")
    /\ UNCHANGED modal

Cancel ==
    /\ modal /\ modal' = FALSE
    /\ UNCHANGED <<watched, role, page, rows, entry, muts, closed, numbers, started, faults,
                   overlapped, owed>>

\* The page of all cases: a new case, and the Start and Resolve buttons.
SubmitOnList(panel, op, k) ==
    /\ page = ListPage /\ panel \in ListPanels /\ op \in panel.offers
    /\ op \in panel.disabled => ~CasePending(op)
    /\ IF op = "createCase"
       THEN k = ListPage /\ CaseMutate(op, k, "create")
       ELSE /\ k \in Cases
            /\ \E kind \in {"reopen", "close"} : CaseMutate(op, k, kind)
    /\ UNCHANGED modal

\* onSuccess, with the id the page shows by now.
CaseAnswered(m) ==
    /\ m.phase = "done"
    /\ muts' = muts \ {m}
    /\ entry' = IF watched \in CaseInvalidates(m.op) /\ Concerns(m.closure)
                THEN Invalidated(entry, page = Home) ELSE entry
    /\ owed' = IF /\ watched \in CaseTouches(m.op) /\ <<m.op, watched>> \notin CaseUnfollowed
                  /\ Concerns(m.case) /\ Concerns(m.closure)
                  /\ m.w.n \notin overlapped /\ ~Hidden(m.w)
                  /\ ~Joins(entry, page = Home)
               THEN owed \union {m.w} ELSE owed
    /\ modal' = (modal /\ ~(m.w.kind = "verdict" /\ m.current))
    /\ UNCHANGED <<watched, role, page, rows, closed, numbers, started, faults, overlapped>>

\* The request or its answer is lost: a message at most, nothing is invalidated.
RequestFails(m) ==
    /\ faults < MaxFaults /\ faults' = faults + 1
    /\ m.phase # "read"
    /\ muts' = muts \ {m}
    /\ UNCHANGED <<watched, role, page, modal, rows, entry, closed, numbers, started,
                   overlapped, owed>>

-----------------------------------------------------------------------------
(* The backend                                                             *)

\* A handler reads: the timeline it will write back, the number of cases, the
\* verdict of a case to close, which is refused if there is none.  What the
\* other handlers read does not change what they write.
ReadsFirst(m) == Rewrites(m) \/ m.w.kind = "close"

\* Mutant: only the page asks for a verdict.
NeverRefused(m) == FALSE

CaseRefused(m) ==
    m.w.kind = "close" /\ watched = "case" /\ m.case = Here /\ ~HasVerdict(rows)
HandlerReads(m) ==
    /\ m.phase = "sent" /\ ReadsFirst(m)
    /\ muts' = IF CaseRefused(m)
               THEN muts \ {m}
               ELSE (muts \ {m}) \union
                    {[m EXCEPT !.phase = "read",
                               !.seen = IF Rewrites(m) THEN rows ELSE {}]}
    /\ UNCHANGED <<watched, role, page, modal, rows, entry, closed, numbers, started, faults,
                   overlapped, owed>>

\* The cases with the tenant of the user.
Counted(seen) ==
    Cardinality({k \in Cases : OldTenant = UserTenant})
    + Cardinality({w \in seen : w.kind = "create" /\ NewTenant = UserTenant})

\* Mutant: the new case itself is forgotten in the count.
CaseNumberOfCount(seen) == Counted(seen)

\* The case number: one more than the cases counted.
CaseNumber(seen) == Counted(seen) + 1

\* The rows the handler leaves: its own, or a whole column read before.
Committed(m) == (IF watched = "timeline" THEN m.seen ELSE rows) \union {m.w}

HandlerCommits(m) ==
    /\ m.phase = IF ReadsFirst(m) THEN "read" ELSE "sent"
    /\ muts' = (muts \ {m}) \union {[m EXCEPT !.phase = "done", !.seen = {}]}
    /\ rows' = IF watched \in CaseTouches(m.op) /\ Concerns(m.case) THEN Committed(m) ELSE rows
    /\ overlapped' =
         IF Rewrites(m) /\ \E x \in muts \ {m} : x.phase = "read" /\ Rewrites(x)
         THEN overlapped \union {m.w.n} ELSE overlapped
    /\ closed' = IF /\ watched = "case" /\ m.case = Here
                    /\ m.w.kind \in {"reopen", "close", "verdict"}
                 THEN m.w.kind # "reopen" ELSE closed
    /\ numbers' = IF m.op = "createCase"
                  THEN numbers \union {<<m.w, CaseNumber(m.seen)>>} ELSE numbers
    /\ UNCHANGED <<watched, role, page, modal, entry, started, faults, owed>>

-----------------------------------------------------------------------------
(* Fetches of the watched list                                             *)

CaseEntryStep(e) ==
    /\ entry' = e
    /\ UNCHANGED <<watched, role, page, modal, rows, muts, closed, numbers, started,
                   overlapped, owed>>

CaseListIsRead ==
    /\ entry.fetch = "sent" /\ CaseEntryStep(BackendReads(entry, Listed))
    /\ UNCHANGED faults
CaseListArrives ==
    /\ entry.fetch = "read" /\ CaseEntryStep(Received(entry))
    /\ UNCHANGED faults
CaseFetchFails ==
    /\ entry.fetch = "sent" /\ faults < MaxFaults /\ faults' = faults + 1
    /\ CaseEntryStep(GivenUp(entry))
\* The list of cases is fetched again every minute while its page is shown.
CasePoll ==
    /\ watched = "cases" /\ page = ListPage /\ entry.fetch = "idle"
    /\ CaseEntryStep(Send(entry))
    /\ UNCHANGED faults

CaseNext ==
    \/ \E p \in Pages, old \in Ages(entry) : Navigate(p, old)
    \/ \E panel \in CasePanels, op \in CaseOps : Submit(panel, op)
    \/ \E closing \in BOOLEAN : SelectStatus(closing)
    \/ Confirm
    \/ Cancel
    \/ \E panel \in ListPanels, op \in CaseOps, k \in Pages : SubmitOnList(panel, op, k)
    \/ \E m \in muts :
        CaseAnswered(m) \/ RequestFails(m) \/ HandlerReads(m) \/ HandlerCommits(m)
    \/ CaseListIsRead \/ CaseListArrives \/ CaseFetchFails \/ CasePoll

CaseSpec == CaseInit /\ [][CaseNext]_caseVars

-----------------------------------------------------------------------------
(* Properties                                                              *)

CaseTypeOK ==
    /\ watched \in Watchable /\ role \in Roles /\ page \in Pages /\ modal \in BOOLEAN
    /\ rows \subseteq Writes
    /\ entry \in Entries(SUBSET Writes)
    /\ muts \subseteq CaseMutations
    /\ closed \in BOOLEAN
    /\ numbers \subseteq Writes \X Nat
    /\ started \in 0 .. MaxWrites /\ faults \in 0 .. MaxFaults
    /\ overlapped \subseteq 1 .. MaxWrites
    /\ owed \subseteq Writes

\* What the user has written is in the list as soon as the page has settled,
\* however the answers of mutations and fetches, navigation and age interleave.
\* Left out are the writes the code does not follow up (CaseUnfollowed), those
\* whose answer found the page on another case or the first fetch of the list
\* still on its way, timeline entries written over by an overlapping handler,
\* and the cases a customer creates, which never get into a customer's list.
OwnWriteShown ==
    Settled(entry) => owed \subseteq entry.data

\* "Every case needs a verdict when it's resolved or closed" (CaseDetail.tsx):
\* no request of the pages closes a case without one, or takes it away, even
\* if what the page knows of the case is out of date.
ClosedHasVerdict ==
    watched = "case" /\ closed => HasVerdict(rows)

\* "Auto-increment case number per tenant" (create_case, router.py): cases
\* created one after the other, neither counted before the other was committed,
\* have different numbers.  The code counts the cases of the user's tenant and
\* stores the new one without, so this is false of a user who has a tenant.
AutoIncrement ==
    \A a, b \in numbers :
        a # b /\ {a[1].n, b[1].n} \intersect overlapped = {} => a[2] # b[2]

\* It is true of a user without a tenant: of the cases he creates two have the
\* same number only if their handlers overlapped, both having counted before
\* either committed, and none has the number of an old case.
NumbersDistinct ==
    role = "untenanted" =>
        /\ \A a \in numbers : a[2] > Cardinality(Cases)
        /\ AutoIncrement
=============================================================================
