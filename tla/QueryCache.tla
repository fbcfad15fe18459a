------------------------------ MODULE QueryCache ------------------------------
(***************************************************************************)
(* One entry of the browser's query cache (TanStack Query 5), as far as    *)
(* the pages use it.  A fetch has three steps: it is sent, the backend     *)
(* reads its rows, the answer is received.  Rows written between the last  *)
(* two are not in the answer.                                              *)
(*                                                                         *)
(* "has" says whether there is data; without, data is the page's empty     *)
(* default.  "stale" is set by an invalidation or by the age of the data   *)
(* (staleTime of App.tsx), "read" is what the fetch in flight has seen.    *)
(***************************************************************************)

FetchStates == {"idle", "sent", "read"}

Entries(Data) ==
    [has: BOOLEAN, data: Data, fetch: FetchStates, read: Data, stale: BOOLEAN]

NoEntry(empty) ==
    [has |-> FALSE, data |-> empty, fetch |-> "idle", read |-> empty, stale |-> FALSE]

\* Nothing more will change the entry until somebody asks for it again.
Settled(e) == e.has /\ e.fetch = "idle" /\ ~e.stale

\* A fetch begins; one in flight is given up and its answer ignored.
Send(e) == [e EXCEPT !.fetch = "sent", !.read = e.data]

\* A component that uses the query is mounted, or turns to this key.
Observed(e) == IF e.fetch = "idle" /\ (~e.has \/ e.stale) THEN Send(e) ELSE e

\* invalidateQueries: the data are stale, and fetched again if somebody is
\* using them.  The very first fetch of a key is joined, not repeated.
Joins(e, active) == e.fetch # "idle" /\ ~(active /\ e.has)
Invalidated(e, active) ==
    LET marked == [e EXCEPT !.stale = e.has \/ e.fetch # "idle"] IN
    IF active /\ ~Joins(e, active) THEN Send(marked) ELSE marked

BackendReads(e, rows) == [e EXCEPT !.fetch = "read", !.read = rows]

\* The answer makes the entry fresh, whatever was marked meanwhile.
Received(e) == [e EXCEPT !.has = TRUE, !.data = e.read, !.fetch = "idle", !.stale = FALSE]

\* The fetch and both its retries failed.
GivenUp(e) == [e EXCEPT !.fetch = "idle", !.read = e.data]

\* The data are older than staleTime: matters when a component turns to them.
Ages(e) == IF e.has /\ ~e.stale THEN BOOLEAN ELSE {FALSE}
Aged(e, old) == IF old THEN [e EXCEPT !.stale = e.has] ELSE e

\* setQueryData; a fetch in flight goes on and will overwrite it.
Written(e, rows) ==
    [e EXCEPT !.has = TRUE, !.data = rows, !.stale = FALSE,
              !.read = IF e.fetch = "read" THEN e.read ELSE rows]
=============================================================================
