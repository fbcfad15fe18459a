--------------------------- MODULE MCWorkflowWalk ---------------------------
(* Four nodes of any kind and every graph that can be drawn with some of      *)
(* eight edges: a diamond, two ways back, two edges in parallel, handles on   *)
(* edges that leave conditions and on edges that do not.                     *)
EXTENDS WorkflowWalk

E(source, target, handle) == [source |-> source, target |-> target, handle |-> handle]

Candidates ==
    <<E(1, 2, "true"), E(1, 3, "false"), E(1, 2, "none"), E(2, 4, "none"),
      E(3, 2, "none"), E(2, 3, "true"), E(4, 1, "none"), E(4, 3, "false")>>

MCEdgeLists ==
    {LET in(i) == i \in drawn
         order == SelectSeq([i \in DOMAIN Candidates |-> i], in)
     IN  [k \in DOMAIN order |-> Candidates[order[k]]] :
        drawn \in SUBSET DOMAIN Candidates}
=============================================================================
