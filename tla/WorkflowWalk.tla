----------------------------- MODULE WorkflowWalk -----------------------------
(***************************************************************************)
(* execute_workflow (backend/app/services/workflow_engine.py): the walk    *)
(* over one SOAR graph.  The users draw the graph, so it may have cycles,  *)
(* parallel edges, several triggers or none, and nodes of unknown types.   *)
(* One iteration of the while loop is one step.  A node is its position in *)
(* the list of nodes; what its executor returns is left open within what   *)
(* executors of its kind can return.                                       *)
(***************************************************************************)
EXTENDS Integers, Sequences, FiniteSets, Enumeration

CONSTANTS
    NumNodes,      \* the nodes are 1 .. NumNodes, in the order of the list
    EdgeLists      \* the edge lists users draw, over Edge

Nodes == 1 .. NumNodes
Kinds == {"trigger", "condition", "action", "unknown"}
Handles == {"true", "false", "none"}   \* "none": no sourceHandle
Edge == [source : Nodes, target : Nodes, handle : Handles]

ASSUME WorkflowWalkAssumption ==
    /\ NumNodes \in Nat
    /\ EdgeLists \subseteq Seq(Edge)

VARIABLES
    kind,      \* what each node is
    edges,     \* the edges, in the order of the list
    queue,     \* nodes still to look at
    visited,   \* nodes executed
    log        \* the entries returned, in order

graph == <<kind, edges>>
vars == <<graph, queue, visited, log>>

-----------------------------------------------------------------------------
(* The first trigger, or else the first node.                                *)
StartNode(k) ==
    LET triggers == {n \in Nodes : k[n] = "trigger"}
    IN  IF triggers = {} THEN 1
        ELSE CHOOSE n \in triggers : \A m \in triggers : n <= m

(* What a node can return.  A condition that raises reports no branch.       *)
Outcomes(k) ==
    CASE k = "trigger"   -> {[ok |-> TRUE, branch |-> "none"]}
      [] k = "condition" -> [ok : {TRUE}, branch : {"true", "false"}]
                                \union {[ok |-> FALSE, branch |-> "none"]}
      [] k = "action"    -> [ok : BOOLEAN, branch : {"none"}]
      [] k = "unknown"   -> {[ok |-> FALSE, branch |-> "none"]}

(* An edge is filtered out only when it and the result both name a branch.   *)
Leads(e, n, branch) ==
    e.source = n /\ (branch = "none" \/ e.handle = "none" \/ e.handle = branch)

(* Mutant: the branch is ignored.                                            *)
AllNextNodes(n, branch, es) ==
    LET out(e) == e.source = n
        taken == SelectSeq(es, out)
    IN  [i \in DOMAIN taken |-> taken[i].target]

(* The edges of the list that lead on from n, by their index.                *)
Taken(n, branch, es) == {k \in DOMAIN es : Leads(es[k], n, branch)}

(* The nodes they lead to, in the order of the list.                         *)
NextNodes(n, branch, es) ==
    LET taken == Taken(n, branch, es)
        order == Ascending(taken)
    IN  [i \in 1 .. Cardinality(taken) |-> es[order[i]].target]

(* A hard failure ends its chain; a failed condition still branches.         *)
Continues(k, result) == result.ok \/ k = "condition"

-----------------------------------------------------------------------------
(* Without nodes the walk returns at once, with one failed entry.            *)
Init ==
    /\ kind \in [Nodes -> Kinds]
    /\ edges \in EdgeLists
    /\ queue = IF Nodes = {} THEN <<>> ELSE <<StartNode(kind)>>
    /\ visited = {} /\ log = <<>>

Skip ==
    /\ queue # <<>> /\ Head(queue) \in visited
    /\ queue' = Tail(queue)
    /\ UNCHANGED <<graph, visited, log>>

(* Mutant: a condition's node is not marked as visited.                      *)
ExecuteUnmarked(result) ==
    /\ queue # <<>> /\ Head(queue) \notin visited
    /\ LET n == Head(queue)
       IN  /\ result \in Outcomes(kind[n])
           /\ visited' = IF kind[n] = "condition" THEN visited ELSE visited \union {n}
           /\ log' = IF n \in {log[i].node : i \in DOMAIN log} THEN log
                     ELSE Append(log, [node |-> n, result |-> result])
           /\ queue' = Tail(queue) \o (IF Continues(kind[n], result)
                                       THEN NextNodes(n, result.branch, edges) ELSE <<>>)
    /\ UNCHANGED graph

(* Mutant: a failure ends the whole walk.                                    *)
ExecuteOrStop(result) ==
    /\ queue # <<>> /\ Head(queue) \notin visited
    /\ LET n == Head(queue)
       IN  /\ result \in Outcomes(kind[n])
           /\ visited' = visited \union {n}
           /\ log' = Append(log, [node |-> n, result |-> result])
           /\ queue' = IF Continues(kind[n], result)
                       THEN Tail(queue) \o NextNodes(n, result.branch, edges) ELSE <<>>
    /\ UNCHANGED graph

Execute(result) ==
    /\ queue # <<>> /\ Head(queue) \notin visited
    /\ LET n == Head(queue)
       IN  /\ result \in Outcomes(kind[n])
           /\ visited' = visited \union {n}
           /\ log' = Append(log, [node |-> n, result |-> result])
           /\ queue' = Tail(queue) \o (IF Continues(kind[n], result)
                                       THEN NextNodes(n, result.branch, edges) ELSE <<>>)
    /\ UNCHANGED graph

Next ==
    \/ Skip
    \/ \E ok \in BOOLEAN, branch \in Handles : Execute([ok |-> ok, branch |-> branch])

Spec == Init /\ [][Next]_vars

(* A while loop runs on as long as its condition holds, and every executor   *)
(* returns: requests and mail have timeouts, a delay is capped.              *)
FairSpec == Spec /\ WF_vars(Next)

-----------------------------------------------------------------------------
Entry == [node : Nodes, result : [ok : BOOLEAN, branch : Handles]]

(* Every variable has its type, and the log has one entry for every node     *)
(* executed: "executing each reachable node once" (workflow_engine.py:292).  *)
TypeOK ==
    /\ kind \in [Nodes -> Kinds] /\ edges \in Seq(Edge)
    /\ queue \in Seq(Nodes) /\ visited \subseteq Nodes
    /\ log \in Seq(Entry) /\ Len(log) = Cardinality(visited)
    /\ visited = {log[i].node : i \in DOMAIN log}

(* The entry i of the log lets the walk go on along edge e.                  *)
Follows(i, e) ==
    /\ Continues(kind[log[i].node], log[i].result)
    /\ Leads(e, log[i].node, log[i].result.branch)

Parents(j) == {i \in DOMAIN log : \E k \in DOMAIN edges :
                  Follows(i, edges[k]) /\ edges[k].target = log[j].node}

(* No node runs behind a failed action or on the branch not taken: a node    *)
(* other than the start has an earlier entry that leads to it.               *)
OnlyWhatIsReached ==
    \A j \in DOMAIN log :
        IF j = 1 THEN log[j].node = StartNode(kind) ELSE \E i \in Parents(j) : i < j

(* A failure stops its own chain only: when the walk ends, every node that   *)
(* some entry leads to has been executed.                                    *)
AllThatIsReached ==
    queue = <<>> =>
        \A i \in DOMAIN log, k \in DOMAIN edges :
            Follows(i, edges[k]) => edges[k].target \in visited

(* The walk ends on every graph, cyclic ones included.                       *)
Terminates == <>(queue = <<>>)

=============================================================================
