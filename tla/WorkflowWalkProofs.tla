-------------------------- MODULE WorkflowWalkProofs --------------------------
(***************************************************************************)
(* What the walk promises on every graph that can be drawn, of any number  *)
(* of nodes and edges: it executes each node once, only nodes that are     *)
(* reached, and when it ends all of those.                                 *)
(***************************************************************************)
EXTENDS WorkflowWalk, EnumerationProofs, SequenceTheorems

-----------------------------------------------------------------------------
(* The inductive invariant                                                 *)

(* The entry i of the log leads to node x.                                   *)
LeadsTo(i, x) == \E k \in DOMAIN edges : Follows(i, edges[k]) /\ edges[k].target = x

Queued(x) == \E p \in DOMAIN queue : queue[p] = x

(* Before the first entry only the start is queued; it gets that entry.      *)
Begun ==
    /\ log = <<>> => Len(queue) <= 1 /\ \A p \in DOMAIN queue : queue[p] = StartNode(kind)
    /\ log # <<>> => log[1].node = StartNode(kind)

(* What is queued later, some entry leads to.                                *)
QueuedIsReached ==
    log # <<>> => \A x \in Nodes : Queued(x) => \E i \in DOMAIN log : LeadsTo(i, x)

(* What an entry leads to is executed or queued.                             *)
Pending ==
    \A i \in DOMAIN log, x \in Nodes :
        LeadsTo(i, x) => x \in visited \/ Queued(x)

WalkInv == TypeOK /\ Begun /\ QueuedIsReached /\ OnlyWhatIsReached /\ Pending


-----------------------------------------------------------------------------
(* The start and the queue                                                 *)

(* The walk starts at a node of the graph.                                   *)
LEMMA StartIsANode ==
    ASSUME Nodes # {}, NEW k \in [Nodes -> Kinds]
    PROVE  StartNode(k) \in Nodes
<1> DEFINE T == {n \in Nodes : k[n] = "trigger"}
           first(n) == \A m \in T : n <= m
<1>1. 1 \in Nodes
  BY WorkflowWalkAssumption DEF Nodes
<1>2. T \subseteq Nat /\ IsFiniteSet(T)
  <2>1. IsFiniteSet(Nodes) /\ Nodes \subseteq Nat
    BY WorkflowWalkAssumption, FS_Interval DEF Nodes
  <2>2. QED
    BY <2>1, FS_Subset
<1>3. ASSUME T # {} PROVE \E n \in T : first(n)
  <2> DEFINE c == Cardinality(T)
             s == Ascending(T)
  <2>1. /\ c \in Nat /\ s \in [1 .. c -> T]
        /\ \A i, j \in 1 .. c : i < j => s[i] < s[j]
        /\ \A x \in T : \E i \in 1 .. c : s[i] = x
    BY <1>2, AscendingOrders
  <2> HIDE DEF c, s, T
  <2>2. 1 \in 1 .. c
    BY <1>3, <2>1
  <2>3. s[1] \in T
    BY <2>1, <2>2
  <2>4. ASSUME NEW x \in T PROVE s[1] <= x
    <3>1. PICK i \in 1 .. c : s[i] = x
      BY <2>1
    <3>2. s[1] \in Nat /\ x \in Nat
      BY <1>2, <2>3
    <3>3. CASE i = 1
      BY <3>1, <3>2, <3>3
    <3>4. CASE i # 1
      <4>1. 1 < i
        BY <2>1, <3>4
      <4>2. s[1] < s[i]
        BY <2>1, <2>2, <4>1
      <4>3. QED
        BY <3>1, <3>2, <4>2
    <3>5. QED
      BY <3>3, <3>4
  <2>5. QED
    BY <2>3, <2>4
<1>4. StartNode(k) = IF T = {} THEN 1 ELSE CHOOSE n \in T : first(n)
  BY DEF StartNode
<1>5. T \subseteq Nodes
  OBVIOUS
<1> HIDE DEF T, first
<1>6. T # {} => (CHOOSE n \in T : first(n)) \in T
  BY <1>3
<1>7. QED
  BY <1>1, <1>4, <1>5, <1>6

\* next holds the targets of the edges taken.
Targets(taken, es, next) ==
    /\ next \in Seq(Nodes)
    /\ \A p \in DOMAIN next : \E k \in taken : next[p] = es[k].target
    /\ \A k \in taken : \E p \in DOMAIN next : next[p] = es[k].target

(* The nodes queued are the targets of the edges taken.                      *)
LEMMA NextNodesFacts ==
    ASSUME NEW es \in Seq(Edge), NEW n, NEW branch
    PROVE  Targets(Taken(n, branch, es), es, NextNodes(n, branch, es))
<1> DEFINE taken == Taken(n, branch, es)
           c == Cardinality(taken)
           order == Ascending(taken)
           next == [i \in 1 .. c |-> es[order[i]].target]
<1>1. DOMAIN es = 1 .. Len(es) /\ Len(es) \in Nat /\ \A k \in DOMAIN es : es[k] \in Edge
  BY LenProperties, ElementOfSeq
<1>2. taken \subseteq DOMAIN es
  BY DEF Taken
<1>3. taken \subseteq Nat /\ IsFiniteSet(taken)
  <2>1. IsFiniteSet(DOMAIN es) /\ DOMAIN es \subseteq Nat
    BY <1>1, FS_Interval
  <2> HIDE DEF taken
  <2>2. QED
    BY <1>2, <2>1, FS_Subset
<1>4. /\ c \in Nat /\ order \in [1 .. c -> taken]
      /\ \A k \in taken : \E i \in 1 .. c : order[i] = k
  BY <1>3, AscendingOrders
<1>5. NextNodes(n, branch, es) = next
  BY DEF NextNodes
<1>6. \A k \in taken : es[k].target \in Nodes
  BY <1>1, <1>2 DEF Edge
<1> HIDE DEF taken, c, order
<1>7. next \in [1 .. c -> Nodes]
  BY <1>4, <1>6
<1>8. next \in Seq(Nodes)
  BY <1>4, <1>7, SeqDef
<1>9. \A p \in 1 .. c : \E k \in taken : next[p] = es[k].target
  BY <1>4
<1>10. \A k \in taken : \E p \in 1 .. c : next[p] = es[k].target
  BY <1>4
<1>11. DOMAIN next = 1 .. c
  OBVIOUS
<1> HIDE DEF next
<1>12. QED
  BY <1>5, <1>8, <1>9, <1>10, <1>11 DEF Targets, taken

\* The head of q has left and more have joined it at the end.
Moved(q, more, r) ==
    /\ Head(q) \in Nodes /\ r \in Seq(Nodes)
    /\ Len(r) = Len(q) - 1 + Len(more)
    /\ \A p \in DOMAIN r : (\E m \in DOMAIN q : m # 1 /\ q[m] = r[p])
                           \/ (\E m \in DOMAIN more : more[m] = r[p])
    /\ \A m \in DOMAIN q : q[m] = Head(q) \/ \E p \in DOMAIN r : r[p] = q[m]
    /\ \A m \in DOMAIN more : \E p \in DOMAIN r : r[p] = more[m]

(* A queue that moves keeps the rest of what it held, and holds what joined. *)
LEMMA QueueMoves ==
    ASSUME NEW q \in Seq(Nodes), q # <<>>, NEW more \in Seq(Nodes)
    PROVE  Moved(q, more, Tail(q) \o more)
<1> DEFINE t == Tail(q)
           r == t \o more
<1>1. /\ Head(q) \in Nodes /\ Head(q) = q[1] /\ t \in Seq(Nodes)
      /\ Len(t) = Len(q) - 1 /\ \A i \in 1 .. Len(t) : t[i] = q[i + 1]
  BY HeadTailProperties
<1>2. /\ Len(q) \in Nat /\ DOMAIN q = 1 .. Len(q)
      /\ Len(more) \in Nat /\ DOMAIN more = 1 .. Len(more)
      /\ Len(t) \in Nat
  BY <1>1, LenProperties
<1> HIDE DEF t
<1>3. r = t \o more
  OBVIOUS
<1> HIDE DEF r
<1>4. /\ t \o more \in Seq(Nodes) /\ Len(t \o more) = Len(t) + Len(more)
      /\ \A i \in 1 .. Len(t) + Len(more) :
             (t \o more)[i] = IF i <= Len(t) THEN t[i] ELSE more[i - Len(t)]
  BY ONLY <1>1, more \in Seq(Nodes), ConcatProperties
<1>5. /\ r \in Seq(Nodes) /\ Len(r) = Len(t) + Len(more)
      /\ \A i \in 1 .. Len(t) + Len(more) : r[i] = IF i <= Len(t) THEN t[i] ELSE more[i - Len(t)]
  BY <1>3, <1>4
<1>6. DOMAIN r = 1 .. Len(t) + Len(more)
  BY <1>5, LenProperties
<1>7. \A i \in 1 .. Len(t) : i \in DOMAIN r /\ r[i] = q[i + 1] /\ i + 1 \in DOMAIN q /\ i + 1 # 1
  BY <1>1, <1>2, <1>5, <1>6
<1>8. \A i \in 1 .. Len(more) : Len(t) + i \in DOMAIN r /\ r[Len(t) + i] = more[i]
  <2>1. ASSUME NEW i \in 1 .. Len(more) PROVE Len(t) + i \in DOMAIN r /\ r[Len(t) + i] = more[i]
    <3>1. /\ Len(t) + i \in 1 .. Len(t) + Len(more) /\ ~(Len(t) + i <= Len(t))
          /\ (Len(t) + i) - Len(t) = i
      BY <1>2
    <3>2. QED
      BY <1>5, <1>6, <3>1
  <2>2. QED
    BY <2>1
<1>9. ASSUME NEW p \in DOMAIN r
      PROVE  (\E m \in DOMAIN q : m # 1 /\ q[m] = r[p]) \/ (\E m \in DOMAIN more : more[m] = r[p])
  <2>1. CASE p <= Len(t)
    <3>1. p \in 1 .. Len(t)
      BY <1>2, <1>6, <2>1
    <3>2. r[p] = q[p + 1] /\ p + 1 \in DOMAIN q /\ p + 1 # 1
      BY <1>7, <3>1
    <3>3. QED
      BY <3>2
  <2>2. CASE ~(p <= Len(t))
    <3>1. p - Len(t) \in 1 .. Len(more) /\ Len(t) + (p - Len(t)) = p
      BY <1>2, <1>6, <2>2
    <3>2. QED
      BY <1>2, <1>8, <3>1
  <2>3. QED
    BY <2>1, <2>2
<1>10. ASSUME NEW m \in DOMAIN q, m # 1 PROVE \E p \in DOMAIN r : r[p] = q[m]
  <2>1. m - 1 \in 1 .. Len(t) /\ (m - 1) + 1 = m
    BY <1>1, <1>2, <1>10
  <2>2. QED
    BY <1>7, <2>1
<1>11. QED
  BY <1>1, <1>2, <1>5, <1>8, <1>9, <1>10 DEF Moved, r, t

-----------------------------------------------------------------------------
(* The steps                                                               *)

(* What the types say of the log and the edges.                              *)
LEMMA WalkFacts ==
    ASSUME TypeOK
    PROVE  /\ Len(log) \in Nat /\ DOMAIN log = 1 .. Len(log)
           /\ Len(queue) \in Nat /\ DOMAIN queue = 1 .. Len(queue)
           /\ \A k \in DOMAIN edges : edges[k] \in Edge /\ edges[k].target \in Nodes
           /\ \A p \in DOMAIN queue : queue[p] \in Nodes
           /\ \A i \in DOMAIN log : log[i].node \in visited
           /\ log = <<>> <=> visited = {}
           /\ log # <<>> => 1 \in DOMAIN log
<1>1. /\ edges \in Seq(Edge) /\ queue \in Seq(Nodes) /\ log \in Seq(Entry)
      /\ visited = {log[i].node : i \in DOMAIN log}
  BY DEF TypeOK
<1>2. /\ Len(log) \in Nat /\ DOMAIN log = 1 .. Len(log)
      /\ Len(queue) \in Nat /\ DOMAIN queue = 1 .. Len(queue)
      /\ DOMAIN edges = 1 .. Len(edges)
  BY <1>1, LenProperties
<1>3. /\ \A k \in DOMAIN edges : edges[k] \in Edge
      /\ \A p \in DOMAIN queue : queue[p] \in Nodes
  BY <1>1, <1>2, ElementOfSeq
<1>4. \A k \in DOMAIN edges : edges[k].target \in Nodes
  BY <1>3 DEF Edge
<1>5. log = <<>> <=> Len(log) = 0
  BY <1>1, EmptySeq
<1>6. log # <<>> => 1 \in DOMAIN log
  BY <1>2, <1>5
<1>7. log = <<>> => visited = {}
  BY <1>1
<1>8. QED
  BY <1>1, <1>2, <1>3, <1>4, <1>6, <1>7

(* A node that has been executed already only leaves the queue.              *)
LEMMA SkipKeeps == WalkInv /\ Skip => WalkInv'
<1> SUFFICES ASSUME WalkInv, Skip PROVE WalkInv'
  OBVIOUS
<1>1. /\ TypeOK /\ Begun /\ QueuedIsReached /\ OnlyWhatIsReached /\ Pending
  BY DEF WalkInv
<1>2. /\ queue # <<>> /\ Head(queue) \in visited /\ queue' = Tail(queue)
      /\ UNCHANGED <<kind, edges, visited, log>>
  BY DEF Skip, graph
<1>3. queue \in Seq(Nodes) /\ <<>> \in Seq(Nodes)
  BY <1>1 DEF TypeOK
<1>4. queue' = Tail(queue) \o <<>>
  BY <1>2, <1>3, HeadTailProperties, ConcatEmptySeq
<1>5. /\ queue' \in Seq(Nodes)
      /\ \A p \in DOMAIN queue' : \E m \in DOMAIN queue : queue[m] = queue'[p]
      /\ \A m \in DOMAIN queue : queue[m] = Head(queue) \/ \E p \in DOMAIN queue' : queue'[p] = queue[m]
  <2>1. /\ queue' \in Seq(Nodes)
        /\ \A p \in DOMAIN queue' : (\E m \in DOMAIN queue : m # 1 /\ queue[m] = queue'[p])
                                    \/ (\E m \in DOMAIN <<>> : <<>>[m] = queue'[p])
        /\ \A m \in DOMAIN queue : queue[m] = Head(queue) \/ \E p \in DOMAIN queue' : queue'[p] = queue[m]
    <3>1. Moved(queue, <<>>, Tail(queue) \o <<>>)
      BY <1>2, <1>3, QueueMoves
    <3>2. Moved(queue, <<>>, queue')
      BY <1>4, <3>1
    <3>3. QED
      BY <3>2 DEF Moved
  <2>2. DOMAIN <<>> = {}
    OBVIOUS
  <2>3. QED
    BY <2>1, <2>2
<1>6. log # <<>>
  BY <1>1, <1>2, WalkFacts
<1>7. \A i, x : LeadsTo(i, x)' <=> LeadsTo(i, x)
  BY <1>2 DEF LeadsTo, Follows
<1>8. TypeOK'
  BY <1>1, <1>2, <1>5 DEF TypeOK
<1>9. Begun'
  BY <1>1, <1>2, <1>6 DEF Begun
<1>10. \A x : /\ Queued(x)' => Queued(x)
              /\ Queued(x) => x \in visited \/ Queued(x)'
  BY <1>2, <1>5 DEF Queued
<1>11. QueuedIsReached'
  BY <1>1, <1>2, <1>7, <1>10 DEF QueuedIsReached
<1>12. OnlyWhatIsReached'
  BY <1>1, <1>2 DEF OnlyWhatIsReached, Parents, Follows
<1>13. Pending'
  BY <1>1, <1>2, <1>7, <1>10 DEF Pending
<1>14. QED
  BY <1>8, <1>9, <1>11, <1>12, <1>13 DEF WalkInv

\* What an execution that returns result does to the log and the queue.
Executed(n, result, last) ==
    /\ n \in Nodes \ visited /\ visited' = visited \union {n}
    /\ UNCHANGED <<kind, edges>>
    /\ last \in Nat /\ last = Len(log) + 1 /\ Len(log') = last
    /\ log' \in Seq(Entry) /\ DOMAIN log' = DOMAIN log \union {last}
    /\ last \notin DOMAIN log /\ \A i \in DOMAIN log : log'[i] = log[i] /\ i < last
    /\ log'[last] = [node |-> n, result |-> result] /\ log'[last].node = n
    /\ queue' \in Seq(Nodes)
    /\ Queued(n) /\ (log = <<>> => n = StartNode(kind))
    /\ \A x \in Nodes : /\ Queued(x)' => (log # <<>> /\ Queued(x)) \/ LeadsTo(last, x)'
                        /\ Queued(x) => x = n \/ Queued(x)'
                        /\ LeadsTo(last, x)' => Queued(x)'

\* Node n with result leads to x.
Onward(n, result, x) ==
    /\ Continues(kind[n], result)
    /\ \E k \in Taken(n, result.branch, edges) : edges[k].target = x

(* The entry last leads to the nodes that its execution queues.              *)
LEMMA LastLeads ==
    ASSUME NEW last, UNCHANGED <<kind, edges>>, NEW x
    PROVE  LeadsTo(last, x)' <=> Onward(log'[last].node, log'[last].result, x)
<1>1. LeadsTo(last, x)' <=>
          \E k \in DOMAIN edges : /\ Continues(kind[log'[last].node], log'[last].result)
                                  /\ Leads(edges[k], log'[last].node, log'[last].result.branch)
                                  /\ edges[k].target = x
  BY DEF LeadsTo, Follows, Continues, Leads
<1>2. QED
  BY <1>1 DEF Taken, Onward

(* An execution is of the node at the head of the queue, its entry the last. *)
LEMMA ExecutionFacts ==
    ASSUME WalkInv, NEW ok \in BOOLEAN, NEW branch \in Handles,
           Execute([ok |-> ok, branch |-> branch])
    PROVE  \E n \in Nodes, last \in Nat : Executed(n, [ok |-> ok, branch |-> branch], last)
<1> DEFINE result == [ok |-> ok, branch |-> branch]
           n0 == Head(queue)
           e == [node |-> n0, result |-> result]
<1>1. TypeOK /\ Begun
  BY DEF WalkInv
<1>2. /\ queue # <<>> /\ n0 \notin visited /\ visited' = visited \union {n0}
      /\ log' = Append(log, e)
      /\ queue' = Tail(queue) \o (IF Continues(kind[n0], result)
                                  THEN NextNodes(n0, result.branch, edges) ELSE <<>>)
      /\ UNCHANGED <<kind, edges>>
  BY DEF Execute, graph
<1> HIDE DEF result
<1>a. result \in [ok : BOOLEAN, branch : Handles]
  BY DEF result
<1>3. queue \in Seq(Nodes) /\ log \in Seq(Entry) /\ edges \in Seq(Edge) /\ <<>> \in Seq(Nodes)
  BY <1>1 DEF TypeOK
<1> DEFINE more == IF Continues(kind[n0], result)
                   THEN NextNodes(n0, result.branch, edges) ELSE <<>>
<1>4. more \in Seq(Nodes)
  BY <1>3, NextNodesFacts DEF Targets
<1>5. queue' = Tail(queue) \o more
  BY <1>2
<1>6. /\ \A p \in DOMAIN more : /\ Continues(kind[n0], result)
                                /\ \E k \in Taken(n0, result.branch, edges) : more[p] = edges[k].target
      /\ Continues(kind[n0], result) =>
            \A k \in Taken(n0, result.branch, edges) : \E p \in DOMAIN more : more[p] = edges[k].target
  <2>1. CASE Continues(kind[n0], result)
    <3>1. Targets(Taken(n0, result.branch, edges), edges, NextNodes(n0, result.branch, edges))
      BY <1>3, NextNodesFacts
    <3>2. Targets(Taken(n0, result.branch, edges), edges, more)
      BY <2>1, <3>1
    <3>3. QED
      BY <2>1, <3>2 DEF Targets
  <2>2. CASE ~Continues(kind[n0], result)
    BY <2>2
  <2>3. QED
    BY <2>1, <2>2
<1> HIDE DEF more
<1>7. /\ n0 \in Nodes /\ queue' \in Seq(Nodes)
      /\ \A p \in DOMAIN queue' : (\E m \in DOMAIN queue : m # 1 /\ queue[m] = queue'[p])
                                  \/ (\E m \in DOMAIN more : more[m] = queue'[p])
      /\ \A m \in DOMAIN queue : queue[m] = n0 \/ \E p \in DOMAIN queue' : queue'[p] = queue[m]
      /\ \A m \in DOMAIN more : \E p \in DOMAIN queue' : queue'[p] = more[m]
  <2>1. Moved(queue, more, queue')
    BY <1>2, <1>3, <1>4, <1>5, QueueMoves
  <2>2. QED
    BY <2>1 DEF Moved
<1>8. PICK n \in Nodes : n = n0
  BY <1>7
<1>9. PICK last \in Nat : last = Len(log) + 1
  BY <1>1, WalkFacts
<1>10. e \in Entry /\ e = [node |-> n, result |-> result]
  BY <1>a, <1>7, <1>8 DEF Entry
<1> HIDE DEF e, n0
<1>11. /\ log' \in Seq(Entry) /\ Len(log') = Len(log) + 1
       /\ \A i \in 1 .. Len(log) : log'[i] = log[i]
       /\ log'[Len(log) + 1] = e
  BY <1>2, <1>3, <1>10, AppendProperties
<1>12. /\ DOMAIN log = 1 .. Len(log) /\ Len(log) \in Nat /\ DOMAIN log' = 1 .. Len(log')
       /\ DOMAIN queue = 1 .. Len(queue) /\ Len(queue) \in Nat
  BY <1>1, <1>11, LenProperties, WalkFacts
<1>13. /\ DOMAIN log' = DOMAIN log \union {last} /\ last \notin DOMAIN log
       /\ \A i \in DOMAIN log : log'[i] = log[i] /\ i < last
  BY <1>9, <1>11, <1>12
<1>14. log'[last] = [node |-> n, result |-> result] /\ log'[last].node = n
  BY <1>9, <1>10, <1>11
<1>15. \A x : LeadsTo(last, x)' <=>
               /\ Continues(kind[n], result)
               /\ \E k \in Taken(n, result.branch, edges) : edges[k].target = x
  <2>1. \A x : LeadsTo(last, x)' <=> Onward(log'[last].node, log'[last].result, x)
    BY <1>2, LastLeads
  <2>2. log'[last].node = n /\ log'[last].result = result
    BY <1>14
  <2>3. QED
    BY <2>1, <2>2 DEF Onward
<1>16. \E m \in DOMAIN queue : m = 1 /\ queue[m] = n
  BY <1>2, <1>3, <1>8, <1>12, EmptySeq, HeadTailProperties DEF n0
<1>17. log = <<>> => n = StartNode(kind) /\ \A m \in DOMAIN queue : m = 1
  BY <1>1, <1>12, <1>16 DEF Begun
<1>18. ASSUME NEW x, Queued(x)'
       PROVE  (log # <<>> /\ Queued(x)) \/ LeadsTo(last, x)'
  <2>1. PICK p \in DOMAIN queue' : queue'[p] = x
    BY <1>18 DEF Queued
  <2>2. CASE \E m \in DOMAIN queue : m # 1 /\ queue[m] = x
    BY <1>17, <2>2 DEF Queued
  <2>3. CASE \E m \in DOMAIN more : more[m] = x
    BY <1>6, <1>8, <1>15, <2>3
  <2>4. QED
    BY <1>7, <2>1, <2>2, <2>3
<1>19. \A x : /\ Queued(x) => x = n \/ Queued(x)'
              /\ LeadsTo(last, x)' => Queued(x)'
  BY <1>6, <1>7, <1>8, <1>15 DEF Queued
<1>20. Queued(n)
  BY <1>16 DEF Queued
<1>21. Executed(n, result, last)
  BY <1>2, <1>7, <1>8, <1>9, <1>11, <1>13, <1>14, <1>17, <1>18, <1>19, <1>20 DEF Executed
<1>22. QED
  BY <1>21 DEF result

(* An execution enters one more node, and what the entry leads to is queued. *)
LEMMA ExecuteKeeps ==
    ASSUME WalkInv, NEW n \in Nodes, NEW result, NEW last \in Nat, Executed(n, result, last)
    PROVE  WalkInv'
<1>1. /\ TypeOK /\ Begun /\ QueuedIsReached /\ OnlyWhatIsReached /\ Pending
  BY DEF WalkInv
<1>2. /\ n \notin visited /\ visited' = visited \union {n} /\ UNCHANGED <<kind, edges>>
      /\ last = Len(log) + 1 /\ Len(log') = last
      /\ log' \in Seq(Entry) /\ DOMAIN log' = DOMAIN log \union {last}
      /\ last \notin DOMAIN log /\ \A i \in DOMAIN log : log'[i] = log[i] /\ i < last
      /\ log'[last].node = n /\ queue' \in Seq(Nodes)
      /\ Queued(n) /\ (log = <<>> => n = StartNode(kind))
      /\ \A x \in Nodes : /\ Queued(x)' => (log # <<>> /\ Queued(x)) \/ LeadsTo(last, x)'
                          /\ Queued(x) => x = n \/ Queued(x)'
                          /\ LeadsTo(last, x)' => Queued(x)'
  BY DEF Executed
<1>3. \A i \in DOMAIN log : \A x : LeadsTo(i, x)' <=> LeadsTo(i, x)
  BY <1>2 DEF LeadsTo, Follows
<1>4. /\ Len(log) \in Nat /\ DOMAIN log = 1 .. Len(log)
      /\ log = <<>> <=> visited = {}
      /\ log # <<>> => 1 \in DOMAIN log
  BY <1>1, WalkFacts
<1>5. TypeOK'
  <2>1. visited \subseteq Nodes /\ Len(log) = Cardinality(visited)
        /\ visited = {log[i].node : i \in DOMAIN log}
    BY <1>1 DEF TypeOK
  <2>2. IsFiniteSet(visited)
    <3>1. IsFiniteSet(Nodes)
      BY WorkflowWalkAssumption, FS_Interval DEF Nodes
    <3>2. QED
      BY <2>1, <3>1, FS_Subset
  <2>3. Cardinality(visited \union {n}) = Cardinality(visited) + 1
    BY <1>2, <2>2, FS_AddElement
  <2>4. Len(log') = Cardinality(visited')
    BY <1>2, <2>1, <2>3
  <2>5. visited' = {log'[i].node : i \in DOMAIN log'}
    BY <1>2, <2>1
  <2>6. kind \in [Nodes -> Kinds] /\ edges \in Seq(Edge) /\ visited' \subseteq Nodes
    BY <1>1, <1>2 DEF TypeOK
  <2>7. QED
    BY <1>2, <2>4, <2>5, <2>6 DEF TypeOK
<1>6. log' # <<>>
  BY <1>2, WalkFacts
<1>7. Begun'
  <2>1. CASE log = <<>>
    <3>1. last = 1
      BY <1>2, <2>1
    <3>2. QED
      BY <1>2, <1>6, <2>1, <3>1 DEF Begun
  <2>2. CASE log # <<>>
    <3>1. log'[1] = log[1]
      BY <1>2, <1>4, <2>2
    <3>2. QED
      BY <1>1, <1>2, <1>6, <2>2, <3>1 DEF Begun
  <2>3. QED
    BY <2>1, <2>2
<1>8. QueuedIsReached'
  BY <1>1, <1>2, <1>3 DEF QueuedIsReached
<1>9. Pending'
  BY <1>1, <1>2, <1>3 DEF Pending
<1>10. OnlyWhatIsReached'
  <2>1. ASSUME NEW j \in DOMAIN log, j # 1
        PROVE  \E i \in DOMAIN log : i < j /\ LeadsTo(i, log[j].node)
    BY <1>1, <2>1 DEF OnlyWhatIsReached, Parents, LeadsTo
  <2>2. ASSUME NEW j \in DOMAIN log, j # 1
        PROVE  (\E i \in DOMAIN log : i < j /\ LeadsTo(i, log[j].node))'
    <3>1. PICK x : x = log[j].node
      OBVIOUS
    <3>2. PICK i \in DOMAIN log : i < j /\ LeadsTo(i, x)
      BY <2>1, <2>2, <3>1
    <3>3. i \in DOMAIN log' /\ LeadsTo(i, x)' /\ log'[j].node = x
      BY <1>2, <1>3, <3>1, <3>2
    <3>4. QED
      BY <3>2, <3>3
  <2>3. ASSUME last # 1
        PROVE  (\E i \in DOMAIN log : i < last /\ LeadsTo(i, log[last].node))'
    <3>1. log # <<>>
      BY <1>2, <2>3
    <3>2. PICK i \in DOMAIN log : LeadsTo(i, n)
      BY <1>1, <1>2, <3>1 DEF QueuedIsReached
    <3>3. i \in DOMAIN log' /\ i < last /\ LeadsTo(i, n)' /\ log'[last].node = n
      BY <1>2, <1>3, <3>2
    <3>4. QED
      BY <3>3
  <2>4. log'[1].node = StartNode(kind')
    BY <1>6, <1>7 DEF Begun
  <2>5. \A j \in DOMAIN log' : j = 1 \/ (\E i \in DOMAIN log : i < j /\ LeadsTo(i, log[j].node))'
    BY <1>2, <2>2, <2>3
  <2>6. QED
    BY <2>4, <2>5 DEF OnlyWhatIsReached, Parents, LeadsTo
<1>11. QED
  BY <1>5, <1>7, <1>8, <1>9, <1>10 DEF WalkInv

(* A walk begins with the start queued, if there is a node at all.           *)
LEMMA WalkInit == Init => WalkInv
<1> SUFFICES ASSUME Init PROVE WalkInv
  OBVIOUS
<1>1. /\ kind \in [Nodes -> Kinds] /\ edges \in EdgeLists
      /\ queue = IF Nodes = {} THEN <<>> ELSE <<StartNode(kind)>>
      /\ visited = {} /\ log = <<>>
  BY DEF Init
<1>2. edges \in Seq(Edge)
  BY <1>1, WorkflowWalkAssumption
<1>3. queue \in Seq(Nodes) /\ Len(queue) <= 1 /\ \A p \in DOMAIN queue : queue[p] = StartNode(kind)
  <2>1. CASE Nodes = {}
    BY <1>1, <2>1
  <2>2. CASE Nodes # {}
    <3>1. StartNode(kind) \in Nodes
      BY <1>1, <2>2, StartIsANode
    <3>2. QED
      BY <1>1, <2>2, <3>1
  <2>3. QED
    BY <2>1, <2>2
<1>4. DOMAIN log = {} /\ Len(log) = 0 /\ log \in Seq(Entry) /\ Cardinality({}) = 0
  BY <1>1, FS_EmptySet
<1>5. TypeOK
  BY <1>1, <1>2, <1>3, <1>4 DEF TypeOK
<1>6. Begun /\ QueuedIsReached /\ OnlyWhatIsReached /\ Pending
  BY <1>1, <1>3, <1>4 DEF Begun, QueuedIsReached, OnlyWhatIsReached, Pending
<1>7. QED
  BY <1>5, <1>6 DEF WalkInv

-----------------------------------------------------------------------------
(* The theorems                                                            *)

(* On every graph: the types, one entry for every node executed, what is     *)
(* queued being reached, and what is reached being executed or queued.       *)
THEOREM WalkInvariant == Spec => []WalkInv
<1>1. WalkInv /\ Next => WalkInv'
  BY SkipKeeps, ExecutionFacts, ExecuteKeeps DEF Next
<1>2. WalkInv /\ UNCHANGED vars => WalkInv'
  BY DEF vars, graph, WalkInv, TypeOK, Begun, QueuedIsReached, OnlyWhatIsReached, Pending,
         Queued, LeadsTo, Parents, Follows
<1>3. QED
  BY <1>1, <1>2, WalkInit, PTL DEF Spec

(* "executing each reachable node once": an entry of the log for each node   *)
(* executed and no more, whatever cycles the graph has.                      *)
THEOREM EachOnce == Spec => []TypeOK
<1>1. WalkInv => TypeOK
  BY DEF WalkInv
<1>2. QED
  BY <1>1, WalkInvariant, PTL

(* No node runs behind a failed action or on the branch that was not taken.  *)
THEOREM OnlyReachedRuns == Spec => []OnlyWhatIsReached
<1>1. WalkInv => OnlyWhatIsReached
  BY DEF WalkInv
<1>2. QED
  BY <1>1, WalkInvariant, PTL

(* When the walk ends, every node that some entry leads to has run: a        *)
(* failure stops its own chain only.                                         *)
THEOREM AllReachedRun == Spec => []AllThatIsReached
<1>1. ASSUME WalkInv, queue = <<>>, NEW i \in DOMAIN log, NEW k \in DOMAIN edges,
             Follows(i, edges[k])
      PROVE  edges[k].target \in visited
  <2>1. TypeOK /\ Pending
    BY <1>1 DEF WalkInv
  <2>2. edges[k].target \in Nodes
    BY <2>1, WalkFacts
  <2>3. LeadsTo(i, edges[k].target)
    BY <1>1 DEF LeadsTo
  <2>4. ~Queued(edges[k].target)
    BY <1>1 DEF Queued
  <2>5. QED
    BY <2>1, <2>2, <2>3, <2>4 DEF Pending
<1>2. WalkInv => AllThatIsReached
  BY <1>1 DEF AllThatIsReached
<1>3. QED
  BY <1>2, WalkInvariant, PTL
===============================================================================
