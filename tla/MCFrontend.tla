------------------------------ MODULE MCFrontend ------------------------------
(* Two cases, dashboards, workflows, parsers, users and browsers each; of the  *)
(* lists of a case those that differ in the way they are written and read      *)
(* again, and of the eleven mutations that log to the timeline three.          *)
EXTENDS Frontend
CONSTANTS d1, f1, a, t1

MCWatchable == {"cases", "case", "timeline", "observables", "comments"}
MCSpared ==
    [cases       |-> {"addTimelineNote"},
     case        |-> {"addTimelineNote"},
     timeline    |-> LogsTimeline \ {"addTimelineNote", "createTask", "updateCase"},
     observables |-> {"updateObservable"},
     comments    |-> {}]

MCKept == [d \in {d1} |-> {}]
MCKeptFlows == [f \in {f1} |-> {}]
MCBuiltin == [n \in {a} |-> t1]
=============================================================================
