-------------------------- MODULE ParserStoreProofs --------------------------
(***************************************************************************)
(* What ParserStore promises for any number of handlers, names, documents, *)
(* requests and restarts: what runs is what is listed, custom parsers      *)
(* first; what runs is persisted; and edits made one after the other       *)
(* survive a restart.                                                      *)
(***************************************************************************)
EXTENDS ParserStore, EnumerationProofs, SequenceTheorems

-----------------------------------------------------------------------------
(* The inductive invariant                                                 *)

(* Rows are of the past, and only tombstones hold no document that compiles; *)
(* what a handler has stored is in the table.                                *)
RowOK(row) == row.at <= clock /\ (~row.deleted => row.doc \in Compiling)

RowsOK ==
    /\ \A i \in DOMAIN table : RowOK(table[i])
    /\ \A row \in adrift : RowOK(row)
    /\ \A h \in Handlers : Busy(h) => RowOK(req[h].row)
    /\ \A h \in Handlers : req[h].phase = "checked" => req[h].row.deleted
    /\ \A h \in Handlers : req[h].phase = "stored" =>
           \E i \in DOMAIN table : table[i] = req[h].row

(* The active set is the one the map gives.                                  *)
Rebuilt == IsFiniteSet(DOMAIN custom) /\ active = Merge(custom)

RowsOf(n) == {i \in DOMAIN table : table[i].name = n}
InHand(n) == {h \in Handlers : Busy(h) /\ req[h].row.name = n}

(* The row of a name that is both its newest and the one inserted last.      *)
Latest(n, i) ==
    /\ i \in RowsOf(n)
    /\ \A j \in RowsOf(n) : j <= i /\ table[j].at <= table[i].at

(* Memory holds of a name what its latest row says.                          *)
Kept(n) ==
    \/ RowsOf(n) = {} /\ n \notin DOMAIN custom
    \/ \E i \in RowsOf(n) :
           /\ Latest(n, i)
           /\ table[i].deleted => n \notin DOMAIN custom
           /\ ~table[i].deleted => n \in DOMAIN custom /\ custom[n] = table[i].doc

(* The writes of a name come one after the other, and memory follows them.   *)
Sequential(n) ==
    /\ \A row \in adrift : row.name # n
    /\ \A g, h \in InHand(n) : g = h
    /\ \A h \in InHand(n) : req[h].phase = "writing" =>
           \A j \in RowsOf(n) : table[j].at <= req[h].row.at
    /\ \A h \in InHand(n) : req[h].phase = "stored" =>
           \E i \in RowsOf(n) : Latest(n, i) /\ table[i] = req[h].row
    /\ (\A h \in InHand(n) : req[h].phase # "stored") => Kept(n)

AllSequential == \A n \in Names \ (failed \union overlapped) : Sequential(n)

StoreInv == TypeOK /\ RowsOK /\ Rebuilt /\ RunningIsPersisted /\ AllSequential

-----------------------------------------------------------------------------
(* The active set                                                          *)

(* The parsers left of the base, by their index.                             *)
LEMMA BaseLeftFacts ==
    ASSUME NEW cust
    PROVE  BaseLeft(cust) \subseteq Nat /\ IsFiniteSet(BaseLeft(cust))
<1>1. DOMAIN Base = 1 .. Len(Base) /\ Len(Base) \in Nat
  BY ParserStoreAssumption, LenProperties
<1>2. IsFiniteSet(1 .. Len(Base)) /\ 1 .. Len(Base) \subseteq Nat
  BY <1>1, FS_Interval
<1>3. BaseLeft(cust) \subseteq 1 .. Len(Base)
  BY <1>1 DEF BaseLeft
<1>4. QED
  BY <1>2, <1>3, FS_Subset

(* The k custom parsers come first, in name order, then l of the base.       *)
InOrder(run, cust, k, l) ==
    /\ k \in Nat /\ l \in Nat /\ Len(run) = k + l /\ DOMAIN run = 1 .. k + l
    /\ \A i \in 1 .. k : run[i].name \in DOMAIN cust /\ run[i].doc = cust[run[i].name]
    /\ \A i, j \in 1 .. k : i < j => run[i].name < run[j].name
    /\ \A i \in BaseLeft(cust) : \E j \in k + 1 .. k + l : run[j] = Base[i]
    /\ \A j \in k + 1 .. k + l : \E i \in BaseLeft(cust) : run[j] = Base[i]

(* Merge puts the custom parsers first, in name order, and then what the     *)
(* base has besides.                                                         *)
LEMMA Merged ==
    ASSUME NEW cust, DOMAIN cust \subseteq Names, IsFiniteSet(DOMAIN cust)
    PROVE  InOrder(Merge(cust), cust, Cardinality(DOMAIN cust), Cardinality(BaseLeft(cust)))
<1> DEFINE k == Cardinality(DOMAIN cust)
           l == Cardinality(BaseLeft(cust))
           names == Ascending(DOMAIN cust)
           left == Ascending(BaseLeft(cust))
           a == [i \in 1 .. k |-> [name |-> names[i], doc |-> cust[names[i]]]]
           b == [i \in 1 .. l |-> Base[left[i]]]
           S == {a[i] : i \in 1 .. k} \union {b[i] : i \in 1 .. l}
<1>1. /\ k \in Nat /\ names \in [1 .. k -> DOMAIN cust]
      /\ \A i, j \in 1 .. k : i < j => names[i] < names[j]
  BY AscendingOrders, ParserStoreAssumption
<1>2. /\ l \in Nat /\ left \in [1 .. l -> BaseLeft(cust)]
      /\ \A x \in BaseLeft(cust) : \E i \in 1 .. l : left[i] = x
  BY AscendingOrders, BaseLeftFacts
<1>3. Merge(cust) = [i \in 1 .. k |-> [name |-> names[i], doc |-> cust[names[i]]]]
                      \o [i \in 1 .. l |-> Base[left[i]]]
  BY DEF Merge
<1> HIDE DEF names, left, k, l
<1>4. Merge(cust) = a \o b
  BY <1>3
<1>5. \A i \in 1 .. k : a[i].name = names[i] /\ a[i].doc = cust[names[i]]
  OBVIOUS
<1>6. \A i \in 1 .. l : b[i] = Base[left[i]]
  OBVIOUS
<1>7. DOMAIN a = 1 .. k /\ DOMAIN b = 1 .. l
  OBVIOUS
<1>8. a \in [1 .. k -> S] /\ b \in [1 .. l -> S]
  OBVIOUS
<1> HIDE DEF a, b, S
<1>9. a \in Seq(S) /\ b \in Seq(S)
  BY <1>1, <1>2, <1>8, SeqDef
<1>10. Len(a) = k /\ Len(b) = l
  BY <1>1, <1>2, <1>7, <1>9, LenProperties
<1> DEFINE c == a \o b
<1>11. /\ Len(c) = k + l /\ c \in Seq(S)
       /\ \A i \in 1 .. k + l : c[i] = IF i <= k THEN a[i] ELSE b[i - k]
  <2>1. /\ a \o b \in Seq(S) /\ Len(a \o b) = Len(a) + Len(b)
        /\ \A i \in 1 .. Len(a) + Len(b) :
               (a \o b)[i] = IF i <= Len(a) THEN a[i] ELSE b[i - Len(a)]
    BY ONLY <1>9, ConcatProperties
  <2>2. QED
    BY <1>10, <2>1
<1>12. DOMAIN c = 1 .. k + l
  BY <1>11, LenProperties
<1>13. Merge(cust) = c
  BY <1>4
<1> HIDE DEF c
<1>14. \A i \in 1 .. k : c[i] = a[i]
  BY <1>1, <1>2, <1>11
<1>15. \A j \in k + 1 .. k + l : j - k \in 1 .. l /\ c[j] = b[j - k]
  BY <1>1, <1>2, <1>11
<1>16. \A i \in 1 .. l : k + i \in k + 1 .. k + l /\ (k + i) - k = i
  BY <1>1, <1>2
<1>17. \A i \in BaseLeft(cust) : \E j \in k + 1 .. k + l : c[j] = Base[i]
  BY <1>2, <1>6, <1>15, <1>16
<1>18. \A j \in k + 1 .. k + l : \E i \in BaseLeft(cust) : c[j] = Base[i]
  BY <1>2, <1>6, <1>15
<1>19. \A i, j \in 1 .. k : i < j => c[i].name < c[j].name
  BY <1>1, <1>5, <1>14
<1>20. \A i \in 1 .. k : /\ c[i].name \in DOMAIN cust
                         /\ c[i].doc = cust[c[i].name]
  BY <1>1, <1>5, <1>14
<1>21. QED
  BY <1>1, <1>2, <1>13, <1>11, <1>12, <1>17, <1>18, <1>19, <1>20 DEF InOrder, k, l

(* What is rebuilt serves custom parsers first, and lists what it serves.    *)
LEMMA RebuiltServes ==
    ASSUME TypeOK, Rebuilt, RunningIsPersisted
    PROVE  ServesWhatItLists
<1> DEFINE k == Cardinality(DOMAIN custom)
           l == Cardinality(BaseLeft(custom))
<1>1. /\ k \in Nat /\ l \in Nat /\ Len(active) = k + l /\ DOMAIN active = 1 .. k + l
      /\ \A i \in 1 .. k : /\ active[i].name \in DOMAIN custom
                           /\ active[i].doc = custom[active[i].name]
      /\ \A i, j \in 1 .. k : i < j => active[i].name < active[j].name
      /\ \A i \in BaseLeft(custom) : \E j \in k + 1 .. k + l : active[j] = Base[i]
      /\ \A j \in k + 1 .. k + l : \E i \in BaseLeft(custom) : active[j] = Base[i]
  <2>1. DOMAIN custom \subseteq Names /\ IsFiniteSet(DOMAIN custom) /\ active = Merge(custom)
    BY DEF Rebuilt, TypeOK
  <2>2. InOrder(active, custom, k, l)
    BY <2>1, Merged
  <2> HIDE DEF k, l
  <2>3. QED
    BY <2>2 DEF InOrder
<1>2. ActiveServesCustomFirst
  BY <1>1 DEF ActiveServesCustomFirst
<1> HIDE DEF k, l
<1>3. ASSUME NEW p \in Range(active), p.name \in DOMAIN custom
      PROVE  p.doc = custom[p.name]
  <2>1. PICK j \in 1 .. k + l : active[j] = p
    BY <1>1, <1>3 DEF Range
  <2>2. CASE j \in 1 .. k
    BY <1>1, <2>1, <2>2
  <2>3. CASE j \notin 1 .. k
    <3>1. j \in k + 1 .. k + l
      BY <1>1, <2>1, <2>3
    <3>2. PICK i \in BaseLeft(custom) : p = Base[i]
      BY <1>1, <2>1, <3>1
    <3>3. QED
      BY <1>3, <3>2 DEF BaseLeft
  <2>4. QED
    BY <2>2, <2>3
<1>4. ASSUME NEW p \in Range(active), p.name \notin DOMAIN custom
      PROVE  \E i \in DOMAIN Base : Base[i] = p
  <2>1. PICK j \in 1 .. k + l : active[j] = p
    BY <1>1, <1>4 DEF Range
  <2>2. j \notin 1 .. k
    BY <1>1, <1>4, <2>1
  <2>3. j \in k + 1 .. k + l
    BY <1>1, <2>1, <2>2
  <2>4. QED
    BY <1>1, <2>1, <2>3 DEF BaseLeft
<1>5. ASSUME NEW m \in Listing
      PROVE  \E p \in Range(active) :
                 /\ m = [name |-> p.name, doc |-> p.doc,
                         source |-> IF p.name \in DOMAIN custom THEN "custom" ELSE "builtin"]
                 /\ m.name = p.name /\ m.doc = p.doc
                 /\ m.source = IF p.name \in DOMAIN custom THEN "custom" ELSE "builtin"
  BY <1>5 DEF Listing
<1>6. ASSUME NEW m \in Listing, m.source = "builtin"
      PROVE  \E i \in DOMAIN Base : Base[i] = [name |-> m.name, doc |-> m.doc]
  <2>1. PICK p \in Range(active) : m.name = p.name /\ m.doc = p.doc /\ p.name \notin DOMAIN custom
    BY <1>5, <1>6
  <2>2. PICK i \in DOMAIN Base : Base[i] = p
    BY <1>4, <2>1
  <2> DEFINE R == [name : Names, doc : Docs]
  <2>3. Base \in Seq(R)
    BY ParserStoreAssumption
  <2>4. i \in 1 .. Len(Base)
    BY <2>2, <2>3, LenProperties
  <2> HIDE DEF R
  <2>5. Base[i] \in R
    BY <2>3, <2>4, ElementOfSeq
  <2>6. Base[i] \in [name : Names, doc : Docs]
    BY <2>5 DEF R
  <2>7. QED
    BY <2>1, <2>2, <2>6
<1>7. ASSUME NEW m \in Listing, m.source # "builtin"
      PROVE  m.name \in DOMAIN custom /\ m.doc = custom[m.name]
             /\ m = [name |-> m.name, doc |-> custom[m.name], source |-> "custom"]
  BY <1>3, <1>5, <1>7
<1>8. ASSUME NEW m \in Listing, m.source # "builtin", NEW o \in Listing, o.name = m.name
      PROVE  o = m
  <2>1. PICK p \in Range(active) :
            /\ o = [name |-> p.name, doc |-> p.doc,
                    source |-> IF p.name \in DOMAIN custom THEN "custom" ELSE "builtin"]
            /\ o.name = p.name
    BY <1>5, <1>8
  <2>2. p.name = m.name /\ m.name \in DOMAIN custom
    BY <1>7, <1>8, <2>1
  <2>3. QED
    BY <1>3, <1>7, <1>8, <2>1, <2>2
<1>9. ListingIsServed
  BY <1>6, <1>7, <1>8 DEF ListingIsServed, RunningIsPersisted
<1>10. QED
  BY <1>2, <1>9 DEF ServesWhatItLists

-----------------------------------------------------------------------------
(* Handlers and rows                                                       *)

(* What the types say of the handlers and the table.                         *)
LEMMA StoreFacts ==
    ASSUME TypeOK
    PROVE  /\ req \in [Handlers -> {Idle} \union Request]
           /\ \A h \in Handlers : Busy(h) => /\ req[h] \in Request /\ req[h].row \in Row
                                             /\ req[h] = [phase |-> req[h].phase, row |-> req[h].row]
                                             /\ req[h].row.name \in Names
           /\ \A h \in Handlers : ~Busy(h) => req[h] = Idle
           /\ table \in Seq(Row) /\ DOMAIN table = 1 .. Len(table) /\ Len(table) \in Nat
           /\ \A i \in DOMAIN table : /\ table[i] \in Row /\ table[i].name \in Names
                                      /\ table[i].at \in Nat
           /\ \A row \in Row : row.name \in Names /\ row.at \in Nat
           /\ clock \in Nat /\ adrift \subseteq Row
<1>1. /\ req \in [Handlers -> {Idle} \union Request] /\ table \in Seq(Row)
      /\ clock \in Nat /\ adrift \subseteq Row
  BY DEF TypeOK
<1>2. \A row \in Row : row.name \in Names /\ row.at \in Nat
  BY DEF Row
<1>3. \A r \in Request : r.row \in Row /\ r = [phase |-> r.phase, row |-> r.row] /\ r.phase # "idle"
  BY DEF Request
<1>4. DOMAIN table = 1 .. Len(table) /\ Len(table) \in Nat
  BY <1>1, LenProperties
<1>5. \A i \in DOMAIN table : table[i] \in Row
  BY <1>1, <1>4, ElementOfSeq
<1>6. Idle.phase = "idle"
  BY DEF Idle
<1>7. \A h \in Handlers : Busy(h) <=> req[h] \in Request
  BY <1>1, <1>3, <1>6 DEF Busy
<1>8. QED
  BY <1>1, <1>2, <1>3, <1>4, <1>5, <1>7

(* A row put last leaves the others where they are.                          *)
LEMMA RowAdded ==
    ASSUME TypeOK, NEW row \in Row, table' = Append(table, row)
    PROVE  /\ table' \in Seq(Row) /\ DOMAIN table' = 1 .. Len(table) + 1
           /\ \A i \in DOMAIN table : i \in DOMAIN table' /\ table'[i] = table[i]
           /\ Len(table) + 1 \in DOMAIN table' /\ table'[Len(table) + 1] = row
           /\ \A i \in DOMAIN table' : i \in DOMAIN table \/ i = Len(table) + 1
<1>1. table \in Seq(Row) /\ DOMAIN table = 1 .. Len(table) /\ Len(table) \in Nat
  BY StoreFacts
<1>2. /\ table' \in Seq(Row) /\ Len(table') = Len(table) + 1
      /\ \A i \in 1 .. Len(table) : table'[i] = table[i]
      /\ table'[Len(table) + 1] = row
  BY <1>1, AppendProperties
<1>3. DOMAIN table' = 1 .. Len(table')
  BY <1>2, LenProperties
<1>4. DOMAIN table' = 1 .. Len(table) + 1
  BY <1>2, <1>3
<1>5. QED
  BY <1>1, <1>2, <1>4

\* Handler h has gone on to a phase, with a row.
Moves(h, phase, row) == req' = [req EXCEPT ![h] = [phase |-> phase, row |-> row]]

\* And is free again.
Ends(h) == req' = [req EXCEPT ![h] = Idle]

(* Only the handler that moves changes.                                      *)
LEMMA HandlerMoves ==
    ASSUME TypeOK, NEW h \in Handlers, NEW phase \in {"checked", "writing", "stored"},
           NEW row \in Row, Moves(h, phase, row)
    PROVE  /\ req' \in [Handlers -> {Idle} \union Request]
           /\ Busy(h)' /\ req'[h].phase = phase /\ req'[h].row = row
           /\ \A g \in Handlers : g # h => req'[g] = req[g] /\ (Busy(g)' <=> Busy(g))
           /\ \A n : InHand(n)' = IF row.name = n THEN InHand(n) \union {h}
                                  ELSE InHand(n) \ {h}
<1>1. req \in [Handlers -> {Idle} \union Request]
  BY StoreFacts
<1>2. [phase |-> phase, row |-> row] \in Request
  BY DEF Request
<1>3. /\ req' \in [Handlers -> {Idle} \union Request]
      /\ req'[h] = [phase |-> phase, row |-> row]
      /\ \A g \in Handlers : g # h => req'[g] = req[g]
  BY <1>1, <1>2 DEF Moves
<1>4. Busy(h)' /\ req'[h].phase = phase /\ req'[h].row = row
  BY <1>3 DEF Busy
<1>5. \A g \in Handlers : g # h => (Busy(g)' <=> Busy(g))
  BY <1>3 DEF Busy
<1>6. ASSUME NEW n
      PROVE  InHand(n)' = IF row.name = n THEN InHand(n) \union {h} ELSE InHand(n) \ {h}
  BY <1>3, <1>4, <1>5 DEF InHand
<1>7. QED
  BY <1>3, <1>4, <1>5, <1>6

(* Or ends.                                                                  *)
LEMMA HandlerEnds ==
    ASSUME TypeOK, NEW h \in Handlers, Ends(h)
    PROVE  /\ req' \in [Handlers -> {Idle} \union Request]
           /\ ~Busy(h)' /\ req'[h] = Idle /\ req'[h].phase = "idle"
           /\ \A g \in Handlers : g # h => req'[g] = req[g] /\ (Busy(g)' <=> Busy(g))
           /\ \A n : InHand(n)' = InHand(n) \ {h}
<1>1. req \in [Handlers -> {Idle} \union Request]
  BY StoreFacts
<1>2. /\ req' \in [Handlers -> {Idle} \union Request] /\ req'[h] = Idle
      /\ \A g \in Handlers : g # h => req'[g] = req[g]
  BY <1>1 DEF Ends
<1>3. ~Busy(h)' /\ req'[h].phase = "idle"
  BY <1>2 DEF Busy, Idle
<1>4. \A g \in Handlers : g # h => (Busy(g)' <=> Busy(g))
  BY <1>2 DEF Busy
<1>5. \A n : InHand(n)' = InHand(n) \ {h}
  BY <1>2, <1>3, <1>4 DEF InHand
<1>6. QED
  BY <1>2, <1>3, <1>4, <1>5

\* A request begins to write: an upsert with a document that compiles, or a deletion
\* with a tombstone.
Begins(h, phase, row) ==
    /\ ~Busy(h) /\ Moves(h, phase, row) /\ row.at = clock
    /\ \/ phase = "writing" /\ ~row.deleted /\ row.doc \in Compiling
       \/ phase = "checked" /\ row.deleted
    /\ overlapped' = IF row.name \in BusyNames THEN overlapped \union {row.name} ELSE overlapped
    /\ issued' = issued + 1
    /\ UNCHANGED <<custom, active, table, adrift, clock, restarts, failed>>

(* Both kinds of requests begin so.                                          *)
LEMMA RequestsBegin ==
    ASSUME TypeOK, NEW h \in Handlers,
           (\E doc \in Docs : UpsertStart(h, doc)) \/ (\E name \in Names : DeleteStart(h, name))
    PROVE  \E row \in Row, phase \in {"writing", "checked"} : Begins(h, phase, row)
<1>1. clock \in Nat
  BY StoreFacts
<1>2. CASE \E doc \in Docs : UpsertStart(h, doc)
  <2>1. PICK doc \in Docs : UpsertStart(h, doc)
    BY <1>2
  <2> DEFINE row == [name |-> DocName[doc], doc |-> doc, deleted |-> FALSE, at |-> clock]
  <2>2. row \in Row
    BY <1>1, ParserStoreAssumption DEF Row
  <2>3. /\ ~Busy(h) /\ Moves(h, "writing", row) /\ issued' = issued + 1
        /\ overlapped' = IF DocName[doc] \in BusyNames
                         THEN overlapped \union {DocName[doc]} ELSE overlapped
        /\ UNCHANGED <<custom, active, table, adrift, clock, restarts, failed>>
        /\ doc \in Compiling
    BY <2>1 DEF UpsertStart, Take, Arrives, Moves, store
  <2>4. row.at = clock /\ row.deleted = FALSE /\ row.doc = doc /\ row.name = DocName[doc]
    OBVIOUS
  <2> HIDE DEF row
  <2>5. Begins(h, "writing", row)
    BY <2>3, <2>4 DEF Begins
  <2>6. QED
    BY <2>2, <2>5
<1>3. CASE \E name \in Names : DeleteStart(h, name)
  <2>1. PICK name \in Names : DeleteStart(h, name)
    BY <1>3
  <2> DEFINE row == [name |-> name, doc |-> NoDoc, deleted |-> TRUE, at |-> clock]
  <2>2. row \in Row
    BY <1>1 DEF Row
  <2>3. Begins(h, "checked", row)
    BY <2>1 DEF DeleteStart, Take, Arrives, Begins, Moves, store
  <2>4. QED
    BY <2>2, <2>3
<1>4. QED
  BY <1>2, <1>3

(* A deletion's tombstone gets the time at which it is sent.                 *)
LEMMA TombstoneSent ==
    ASSUME TypeOK, NEW h \in Handlers, DeleteWrite(h)
    PROVE  \E row \in Row : /\ Moves(h, "writing", row) /\ row.at = clock
                            /\ row.name = req[h].row.name /\ row.doc = req[h].row.doc
                            /\ row.deleted = req[h].row.deleted
<1>1. Busy(h)
  BY DEF DeleteWrite, Busy
<1>2. /\ req \in [Handlers -> {Idle} \union Request] /\ req[h] \in Request
      /\ req[h].row \in Row /\ clock \in Nat
      /\ req[h] = [phase |-> req[h].phase, row |-> req[h].row]
  BY <1>1, StoreFacts
<1> DEFINE row == [req[h].row EXCEPT !.at = clock]
<1>3. /\ row \in Row /\ row.at = clock /\ row.name = req[h].row.name
      /\ row.doc = req[h].row.doc /\ row.deleted = req[h].row.deleted
  BY <1>2 DEF Row
<1>4. req' = [req EXCEPT ![h] = [req[h] EXCEPT !.phase = "writing", !.row = row]]
  BY <1>2 DEF DeleteWrite
<1>a. row \in Row
  BY <1>3
<1> HIDE DEF row
<1>5. ASSUME NEW r \in Request
      PROVE  [r EXCEPT !.phase = "writing", !.row = row] = [phase |-> "writing", row |-> row]
  <2>1. PICK p \in {"checked", "writing", "stored"}, w \in Row : r = [phase |-> p, row |-> w]
    BY DEF Request
  <2> DEFINE sent == [r EXCEPT !.phase = "writing", !.row = row]
  <2>2. sent \in Request /\ sent.phase = "writing" /\ sent.row = row
    BY <1>a, <2>1 DEF Request
  <2> HIDE DEF sent
  <2>3. PICK q \in {"checked", "writing", "stored"}, v \in Row : sent = [phase |-> q, row |-> v]
    BY <2>2 DEF Request
  <2>4. sent = [phase |-> "writing", row |-> row]
    BY <2>2, <2>3
  <2>5. QED
    BY <2>4 DEF sent
<1>6. Moves(h, "writing", row)
  BY <1>2, <1>4, <1>5 DEF Moves
<1>7. QED
  BY <1>3, <1>6

(* The insert is executed.                                                   *)
LEMMA RowStored ==
    ASSUME TypeOK, NEW h \in Handlers, StoreRow(h)
    PROVE  /\ Busy(h) /\ req[h].row \in Row /\ req[h].phase = "writing"
           /\ Moves(h, "stored", req[h].row) /\ table' = Append(table, req[h].row)
           /\ UNCHANGED <<custom, active, adrift, clock, issued, restarts, failed, overlapped>>
<1>1. Busy(h) /\ req[h].phase = "writing"
  BY DEF StoreRow, Busy
<1>2. req[h].row \in Row /\ req[h] = [phase |-> req[h].phase, row |-> req[h].row]
  BY <1>1, StoreFacts
<1>3. [req[h] EXCEPT !.phase = "stored"] = [phase |-> "stored", row |-> req[h].row]
  BY <1>2
<1>4. req' = [req EXCEPT ![h] = [req[h] EXCEPT !.phase = "stored"]]
  BY DEF StoreRow
<1>5. QED
  BY <1>1, <1>2, <1>3, <1>4 DEF StoreRow, Moves, store, history

(* The map after an edit.                                                    *)
LEMMA MapChanged ==
    ASSUME TypeOK, NEW h \in Handlers, Apply(h)
    PROVE  /\ Busy(h) /\ req[h].row \in Row /\ req[h].phase = "stored" /\ Ends(h)
           /\ active' = Merge(custom')
           /\ \A n : n # req[h].row.name =>
                  /\ n \in DOMAIN custom' <=> n \in DOMAIN custom
                  /\ n \in DOMAIN custom => custom'[n] = custom[n]
           /\ req[h].row.deleted => req[h].row.name \notin DOMAIN custom'
           /\ ~req[h].row.deleted => /\ req[h].row.name \in DOMAIN custom'
                                     /\ custom'[req[h].row.name] = req[h].row.doc
           /\ DOMAIN custom' \subseteq DOMAIN custom \union {req[h].row.name}
           /\ UNCHANGED <<table, adrift, clock, issued, restarts, failed, overlapped>>
<1>1. Busy(h) /\ req[h].phase = "stored"
  BY DEF Apply, Busy
<1>2. req[h].row \in Row
  BY <1>1, StoreFacts
<1> DEFINE row == req[h].row
           rest == [n \in DOMAIN custom \ {row.name} |-> custom[n]]
           more == [n \in DOMAIN custom \union {row.name} |->
                       IF n = row.name THEN row.doc ELSE custom[n]]
<1>3. custom' = IF row.deleted THEN rest ELSE more
  BY DEF Apply
<1>4. CASE row.deleted
  BY <1>1, <1>2, <1>3, <1>4 DEF Apply, Ends, history
<1>5. CASE ~row.deleted
  BY <1>1, <1>2, <1>3, <1>5 DEF Apply, Ends, history
<1>6. QED
  BY <1>4, <1>5

(* An insert that fails leaves its name in doubt.                            *)
LEMMA RowFailed ==
    ASSUME TypeOK, NEW h \in Handlers, InsertFails(h)
    PROVE  /\ Busy(h) /\ req[h].row \in Row /\ Ends(h)
           /\ adrift' \subseteq adrift \union {req[h].row}
           /\ failed' = failed \union {req[h].row.name}
           /\ UNCHANGED <<custom, active, table, clock, issued, restarts, overlapped>>
<1>1. Busy(h)
  BY DEF InsertFails
<1>2. req[h].row \in Row
  BY <1>1, StoreFacts
<1>3. adrift' \subseteq adrift \union {req[h].row}
  BY DEF InsertFails
<1>4. QED
  BY <1>1, <1>2, <1>3 DEF InsertFails, Ends, store

-----------------------------------------------------------------------------
(* What a start reads                                                      *)

(* The latest row is the one FINAL gives.                                    *)
LEMMA LatestIsFinal ==
    ASSUME TypeOK, NEW n, NEW i \in RowsOf(n), Latest(n, i)
    PROVE  FinalRow(n) = table[i]
<1> DEFINE wins(c) == \A j \in RowsOf(n) : \/ table[j].at < table[c].at
                                           \/ table[j].at = table[c].at /\ j <= c
<1>1. \A j \in RowsOf(n) : j \in Nat /\ table[j].at \in Nat
  BY StoreFacts DEF RowsOf
<1>2. \A j \in RowsOf(n) : j <= i /\ table[j].at <= table[i].at
  BY DEF Latest
<1>3. wins(i)
  BY <1>1, <1>2
<1>4. ASSUME NEW c \in RowsOf(n), wins(c) PROVE c = i
  <2>1. table[i].at < table[c].at \/ (table[i].at = table[c].at /\ i <= c)
    BY <1>4
  <2>2. c <= i /\ table[c].at <= table[i].at /\ c \in Nat /\ i \in Nat
        /\ table[c].at \in Nat /\ table[i].at \in Nat
    BY <1>1, <1>2, <1>4
  <2>3. QED
    BY <2>1, <2>2
<1>5. (CHOOSE c \in RowsOf(n) : wins(c)) = i
  BY <1>3, <1>4
<1>6. QED
  BY <1>5 DEF FinalRow, RowsOf

(* FINAL gives one of the rows of the name.                                  *)
LEMMA FinalIsARow ==
    ASSUME TypeOK, RowsOK, NEW n, RowsOf(n) # {}
    PROVE  \E i \in RowsOf(n) : FinalRow(n) = table[i]
<1> DEFINE wins(c) == \A j \in RowsOf(n) : \/ table[j].at < table[c].at
                                           \/ table[j].at = table[c].at /\ j <= c
           stamps == {table[i].at : i \in RowsOf(n)}
<1>1. \A j \in RowsOf(n) : j \in Nat /\ table[j].at \in Nat /\ table[j].at <= clock
  BY StoreFacts DEF RowsOf, RowsOK, RowOK
<1>2. stamps \in SUBSET Nat /\ \A m \in stamps : m <= clock
  BY <1>1
<1>3. IsFiniteSet(stamps) /\ stamps # {}
  BY <1>2, FS_BoundedSetOfNaturals, StoreFacts
<1>4. PICK m \in stamps : \A x \in stamps : x <= m
  BY <1>2, <1>3, Greatest
<1> DEFINE W == {i \in RowsOf(n) : table[i].at = m}
<1>5. W \subseteq Nat /\ W # {}
  BY <1>1, <1>4
<1>6. IsFiniteSet(W)
  <2>1. IsFiniteSet(1 .. Len(table)) /\ W \subseteq 1 .. Len(table)
    BY StoreFacts, FS_Interval DEF RowsOf
  <2>2. QED
    BY <2>1, FS_Subset
<1>7. PICK c \in W : \A x \in W : x <= c
  BY <1>5, <1>6, Greatest
<1>8. ASSUME NEW j \in RowsOf(n)
      PROVE  table[j].at < table[c].at \/ (table[j].at = table[c].at /\ j <= c)
  <2>1. table[j].at <= m /\ table[c].at = m /\ m \in Nat /\ table[j].at \in Nat
    BY <1>1, <1>2, <1>4, <1>7, <1>8
  <2>2. CASE table[j].at = m
    BY <1>7, <2>1, <2>2
  <2>3. CASE table[j].at # m
    BY <2>1, <2>3
  <2>4. QED
    BY <2>2, <2>3
<1>9. wins(c) /\ c \in RowsOf(n)
  BY <1>7, <1>8
<1> HIDE DEF wins
<1>10. (CHOOSE d \in RowsOf(n) : wins(d)) \in RowsOf(n)
  BY <1>9
<1>11. FinalRow(n) = table[CHOOSE d \in RowsOf(n) : wins(d)]
  BY DEF FinalRow, RowsOf, wins
<1>12. QED
  BY <1>10, <1>11

(* What is loaded is what a live row of the table holds.                     *)
LEMMA LoadedIsStored ==
    ASSUME TypeOK, RowsOK
    PROVE  /\ IsFiniteSet(DOMAIN Loaded) /\ DOMAIN Loaded \subseteq Names
           /\ StoredNames \subseteq Names
           /\ \A n \in DOMAIN Loaded : Loaded[n] \in Compiling /\
                  \E i \in DOMAIN table : /\ table[i].name = n /\ table[i].doc = Loaded[n]
                                          /\ ~table[i].deleted
<1> DEFINE named == {table[i].name : i \in DOMAIN table}
<1>1. DOMAIN Loaded = {m \in StoredNames : FinalRow(m).doc \in Compiling}
      /\ \A n \in DOMAIN Loaded : Loaded[n] = FinalRow(n).doc
  BY DEF Loaded
<1>2. \A n \in StoredNames : n \in named /\ ~FinalRow(n).deleted
  BY DEF StoredNames
<1>3. \A n \in named : RowsOf(n) # {}
  BY DEF RowsOf
<1>4. \A n \in DOMAIN Loaded : Loaded[n] \in Compiling /\
          \E i \in RowsOf(n) : FinalRow(n) = table[i] /\ ~table[i].deleted /\ table[i].doc = Loaded[n]
  BY <1>1, <1>2, <1>3, FinalIsARow
<1>5. named \subseteq Names
  BY StoreFacts
<1>6. IsFiniteSet(named)
  <2>1. IsFiniteSet(DOMAIN table)
    BY StoreFacts, FS_Interval
  <2> DEFINE F == [i \in DOMAIN table |-> table[i].name]
  <2>2. F \in Surjection(DOMAIN table, named)
    BY DEF Surjection
  <2> HIDE DEF F, named
  <2>3. QED
    BY <2>1, <2>2, FS_Surjection
<1>7. IsFiniteSet(DOMAIN Loaded)
  <2>1. DOMAIN Loaded \subseteq named
    BY <1>1, <1>2
  <2> HIDE DEF named
  <2>2. QED
    BY <1>6, <2>1, FS_Subset
<1>8. QED
  BY <1>1, <1>2, <1>4, <1>5, <1>7 DEF RowsOf

\* The steps by what they do to the handlers.
Refused ==
    /\ issued' = issued + 1
    /\ UNCHANGED <<custom, active, req, table, adrift, clock, restarts, failed, overlapped>>

(* The steps of Next, in the forms above.                                    *)
LEMMA StoreSteps ==
    ASSUME TypeOK, Next
    PROVE  \/ \E h \in Handlers :
                  \/ \E row \in Row, phase \in {"writing", "checked"} : Begins(h, phase, row)
                  \/ Refused
                  \/ DeleteWrite(h) \/ StoreRow(h) \/ Apply(h) \/ InsertFails(h)
           \/ \E row \in adrift : LandAdrift(row)
           \/ Restart
           \/ Tick
<1>1. CASE \E h \in Handlers, doc \in Docs : UpsertRefused(h, doc)
  BY <1>1 DEF UpsertRefused, Arrives, Refused, store
<1>2. CASE \E h \in Handlers, name \in Names : DeleteRefused(h, name)
  BY <1>2 DEF DeleteRefused, Arrives, Refused, store
<1>3. CASE \E h \in Handlers : (\E doc \in Docs : UpsertStart(h, doc))
                               \/ (\E name \in Names : DeleteStart(h, name))
  BY <1>3, RequestsBegin
<1>4. QED
  BY <1>1, <1>2, <1>3 DEF Next

(* What a restart leaves.                                                    *)
LEMMA Restarted ==
    ASSUME TypeOK, RowsOK, Restart
    PROVE  /\ req' = [h \in Handlers |-> Idle] /\ (\A h \in Handlers : ~Busy(h)')
           /\ \A h \in Handlers : req'[h].phase = "idle"
           /\ \A row \in adrift' : row \in adrift \/
                  \E h \in Handlers : Busy(h) /\ row = req[h].row /\ row.name \in failed'
           /\ failed \subseteq failed' /\ failed' \subseteq Names
           /\ restarts' = restarts + 1 /\ active' = Merge(custom')
           /\ \/ custom' = Loaded
              \/ custom' = <<>> /\ StoredNames \subseteq failed'
           /\ UNCHANGED <<table, clock, issued, overlapped>>
<1> DEFINE writing == {h \in Handlers : req[h].phase = "writing"}
           given == {req[h].row.name : h \in writing}
<1>1. /\ restarts' = restarts + 1 /\ req' = [h \in Handlers |-> Idle]
      /\ active' = Merge(custom') /\ UNCHANGED <<table, clock, issued, overlapped>>
  BY DEF Restart
<1>2. PICK landing \in SUBSET writing : adrift' = adrift \union {req[h].row : h \in landing}
  BY DEF Restart
<1>3. \/ custom' = Loaded /\ failed' = failed \union given
      \/ custom' = <<>> /\ failed' = failed \union given \union StoredNames
  BY DEF Restart
<1>4. \A h \in writing : Busy(h) /\ req[h].row.name \in given
  BY DEF Busy
<1>5. given \subseteq Names
  BY <1>4, StoreFacts
<1>6. failed \subseteq failed' /\ failed' \subseteq Names /\ given \subseteq failed'
  BY <1>3, <1>5, LoadedIsStored DEF TypeOK
<1>7. \A h \in Handlers : ~Busy(h)' /\ req'[h].phase = "idle"
  BY <1>1 DEF Busy, Idle
<1> HIDE DEF given
<1>8. \A row \in adrift' : row \in adrift \/
          \E h \in Handlers : Busy(h) /\ row = req[h].row /\ row.name \in failed'
  BY <1>2, <1>4, <1>6
<1>9. QED
  BY <1>1, <1>3, <1>6, <1>7, <1>8

-----------------------------------------------------------------------------
(* What every step keeps                                                   *)

(* Every step keeps the types.                                               *)
LEMMA TypeOKNext == TypeOK /\ RowsOK /\ [Next]_vars => TypeOK'
<1> SUFFICES ASSUME TypeOK, RowsOK, [Next]_vars PROVE TypeOK'
  OBVIOUS
<1>a. /\ DOMAIN custom \subseteq Names /\ \A n \in DOMAIN custom : custom[n] \in Compiling
      /\ req \in [Handlers -> {Idle} \union Request]
      /\ table \in Seq(Row) /\ adrift \subseteq Row
      /\ clock \in Nat /\ issued \in Nat /\ restarts \in Nat
      /\ failed \subseteq Names /\ overlapped \subseteq Names
  BY DEF TypeOK
<1>1. ASSUME NEW h \in Handlers, NEW row \in Row, NEW phase \in {"writing", "checked"},
             Begins(h, phase, row)
      PROVE  TypeOK'
  <2>1. /\ Moves(h, phase, row) /\ issued' = issued + 1
        /\ overlapped' \subseteq overlapped \union {row.name}
        /\ UNCHANGED <<custom, table, adrift, clock, restarts, failed>>
    BY <1>1 DEF Begins
  <2>2. req' \in [Handlers -> {Idle} \union Request]
    BY <1>1, <2>1, HandlerMoves
  <2>3. row.name \in Names
    BY StoreFacts
  <2>4. issued' \in Nat
    BY <1>a, <2>1
  <2>5. QED
    BY <1>a, <2>1, <2>2, <2>3, <2>4 DEF TypeOK
<1>2. CASE Refused
  BY <1>a, <1>2 DEF Refused, TypeOK
<1>3. ASSUME NEW h \in Handlers, DeleteWrite(h) PROVE TypeOK'
  <2>1. req' \in [Handlers -> {Idle} \union Request]
    BY <1>3, TombstoneSent, HandlerMoves
  <2>2. UNCHANGED <<custom, table, adrift, clock, issued, restarts, failed, overlapped>>
    BY <1>3 DEF DeleteWrite, store, history
  <2>3. QED
    BY <1>a, <2>1, <2>2 DEF TypeOK
<1>4. ASSUME NEW h \in Handlers, StoreRow(h) PROVE TypeOK'
  <2>1. /\ req[h].row \in Row /\ Moves(h, "stored", req[h].row)
        /\ table' = Append(table, req[h].row)
        /\ UNCHANGED <<custom, adrift, clock, issued, restarts, failed, overlapped>>
    BY <1>4, RowStored
  <2>2. req' \in [Handlers -> {Idle} \union Request] /\ table' \in Seq(Row)
    BY <2>1, HandlerMoves, RowAdded
  <2>3. QED
    BY <1>a, <2>1, <2>2 DEF TypeOK
<1>5. ASSUME NEW h \in Handlers, Apply(h) PROVE TypeOK'
  <2> DEFINE row == req[h].row
  <2>1. /\ Busy(h) /\ row \in Row /\ Ends(h)
        /\ \A n : n # row.name => /\ n \in DOMAIN custom' <=> n \in DOMAIN custom
                                  /\ n \in DOMAIN custom => custom'[n] = custom[n]
        /\ row.deleted => row.name \notin DOMAIN custom'
        /\ ~row.deleted => row.name \in DOMAIN custom' /\ custom'[row.name] = row.doc
        /\ DOMAIN custom' \subseteq DOMAIN custom \union {row.name}
        /\ UNCHANGED <<table, adrift, clock, issued, restarts, failed, overlapped>>
    BY <1>5, MapChanged
  <2>2. req' \in [Handlers -> {Idle} \union Request]
    BY <2>1, HandlerEnds
  <2>3. row.name \in Names /\ (~row.deleted => row.doc \in Compiling)
    BY <2>1, StoreFacts DEF RowsOK, RowOK
  <2> HIDE DEF row
  <2>4. \A n \in DOMAIN custom' : custom'[n] \in Compiling
    BY <1>a, <2>1, <2>3
  <2>5. QED
    BY <1>a, <2>1, <2>2, <2>3, <2>4 DEF TypeOK
<1>6. ASSUME NEW h \in Handlers, InsertFails(h) PROVE TypeOK'
  <2>1. /\ Busy(h) /\ req[h].row \in Row /\ Ends(h)
        /\ adrift' \subseteq adrift \union {req[h].row}
        /\ failed' = failed \union {req[h].row.name}
        /\ UNCHANGED <<custom, table, clock, issued, restarts, overlapped>>
    BY <1>6, RowFailed
  <2>2. req' \in [Handlers -> {Idle} \union Request] /\ req[h].row.name \in Names
    BY <2>1, HandlerEnds, StoreFacts
  <2>3. QED
    BY <1>a, <2>1, <2>2 DEF TypeOK
<1>7. ASSUME NEW row \in adrift, LandAdrift(row) PROVE TypeOK'
  <2>1. /\ table' = Append(table, row) /\ adrift' \subseteq adrift
        /\ UNCHANGED <<custom, req, clock, issued, restarts, failed, overlapped>>
    BY <1>7 DEF LandAdrift, store, history
  <2>2. table' \in Seq(Row)
    BY <1>a, <2>1, RowAdded
  <2>3. QED
    BY <1>a, <2>1, <2>2 DEF TypeOK
<1>8. CASE Restart
  <2>1. /\ req' = [h \in Handlers |-> Idle] /\ failed' \subseteq Names
        /\ restarts' = restarts + 1 /\ UNCHANGED <<table, clock, issued, overlapped>>
        /\ custom' = Loaded \/ custom' = <<>>
    BY <1>8, Restarted
  <2>2. adrift' \subseteq Row
    BY <1>a, <1>8, Restarted, StoreFacts
  <2>3. DOMAIN custom' \subseteq Names /\ \A n \in DOMAIN custom' : custom'[n] \in Compiling
    BY <2>1, LoadedIsStored
  <2>4. restarts' \in Nat
    BY <1>a, <2>1
  <2>5. QED
    BY <1>a, <2>1, <2>2, <2>3, <2>4 DEF TypeOK
<1>9. CASE Tick
  BY <1>a, <1>9 DEF Tick, store, history, TypeOK
<1>10. CASE UNCHANGED vars
  BY <1>a, <1>10 DEF vars, store, TypeOK
<1>11. QED
  BY <1>1, <1>2, <1>3, <1>4, <1>5, <1>6, <1>7, <1>8, <1>9, <1>10, StoreSteps

(* A row keeps what is asked of it while time goes on.                       *)
LEMMA RowKept ==
    ASSUME TypeOK, clock' = clock \/ clock' = clock + 1, NEW row \in Row, RowOK(row)
    PROVE  RowOK(row)'
<1>1. row.at \in Nat /\ clock \in Nat
  BY StoreFacts
<1>2. QED
  BY <1>1 DEF RowOK

(* Rows are stamped with the time at which they are sent, and memory is      *)
(* changed only after the table.                                             *)
LEMMA RowsOKNext == TypeOK /\ RowsOK /\ [Next]_vars => RowsOK'
<1> SUFFICES ASSUME TypeOK, RowsOK, [Next]_vars PROVE RowsOK'
  OBVIOUS
<1>a. /\ \A i \in DOMAIN table : RowOK(table[i]) /\ table[i] \in Row
      /\ \A row \in adrift : RowOK(row) /\ row \in Row
      /\ \A h \in Handlers : Busy(h) => RowOK(req[h].row) /\ req[h].row \in Row
      /\ \A h \in Handlers : req[h].phase = "checked" => req[h].row.deleted
      /\ \A h \in Handlers : req[h].phase = "stored" =>
             \E i \in DOMAIN table : table[i] = req[h].row
  BY StoreFacts DEF RowsOK
<1>b. clock \in Nat
  BY StoreFacts
<1>c. clock' = clock => \A row \in Row : RowOK(row) => RowOK(row)'
  BY RowKept
<1>1. ASSUME NEW h \in Handlers, NEW row \in Row, NEW phase \in {"writing", "checked"},
             Begins(h, phase, row)
      PROVE  RowsOK'
  <2>1. /\ Moves(h, phase, row) /\ row.at = clock /\ UNCHANGED <<table, adrift, clock>>
        /\ \/ phase = "writing" /\ ~row.deleted /\ row.doc \in Compiling
           \/ phase = "checked" /\ row.deleted
    BY <1>1 DEF Begins
  <2>2. /\ req'[h].phase = phase /\ req'[h].row = row
        /\ \A g \in Handlers : g # h => req'[g] = req[g] /\ (Busy(g)' <=> Busy(g))
    BY <1>1, <2>1, HandlerMoves
  <2>3. RowOK(row)'
    BY <1>b, <2>1 DEF RowOK
  <2>4. QED
    BY <1>a, <1>c, <2>1, <2>2, <2>3 DEF RowsOK
<1>2. CASE Refused
  BY <1>2 DEF Refused, RowsOK, RowOK, Busy
<1>3. ASSUME NEW h \in Handlers, DeleteWrite(h) PROVE RowsOK'
  <2>1. PICK row \in Row : /\ Moves(h, "writing", row) /\ row.at = clock
                           /\ row.deleted = req[h].row.deleted
    BY <1>3, TombstoneSent
  <2>2. req[h].phase = "checked" /\ UNCHANGED <<table, adrift, clock>>
    BY <1>3 DEF DeleteWrite
  <2>3. /\ req'[h].phase = "writing" /\ req'[h].row = row
        /\ \A g \in Handlers : g # h => req'[g] = req[g] /\ (Busy(g)' <=> Busy(g))
    BY <1>3, <2>1, HandlerMoves
  <2>4. row.deleted
    BY <1>a, <2>1, <2>2
  <2>5. RowOK(row)'
    BY <1>b, <2>1, <2>2, <2>4 DEF RowOK
  <2>6. QED
    BY <1>a, <1>c, <2>2, <2>3, <2>5 DEF RowsOK
<1>4. ASSUME NEW h \in Handlers, StoreRow(h) PROVE RowsOK'
  <2>1. /\ Busy(h) /\ req[h].row \in Row /\ Moves(h, "stored", req[h].row)
        /\ table' = Append(table, req[h].row) /\ UNCHANGED <<adrift, clock>>
    BY <1>4, RowStored
  <2>2. /\ req'[h].phase = "stored" /\ req'[h].row = req[h].row
        /\ \A g \in Handlers : g # h => req'[g] = req[g] /\ (Busy(g)' <=> Busy(g))
    BY <1>4, <2>1, HandlerMoves
  <2>3. /\ \A i \in DOMAIN table : i \in DOMAIN table' /\ table'[i] = table[i]
        /\ Len(table) + 1 \in DOMAIN table' /\ table'[Len(table) + 1] = req[h].row
        /\ \A i \in DOMAIN table' : i \in DOMAIN table \/ i = Len(table) + 1
    BY <2>1, RowAdded
  <2>4. (\A i \in DOMAIN table : RowOK(table[i]))'
    BY <1>a, <2>1, <2>3 DEF RowOK
  <2>5. \A g \in Handlers : req'[g].phase = "stored" =>
            \E i \in DOMAIN table' : table'[i] = req'[g].row
    BY <1>a, <2>2, <2>3
  <2>6. QED
    BY <1>a, <1>c, <2>1, <2>2, <2>4, <2>5 DEF RowsOK
<1>5. ASSUME NEW h \in Handlers, Ends(h), UNCHANGED <<table, clock>>,
             adrift' \subseteq adrift \union {req[h].row}, Busy(h)
      PROVE  RowsOK'
  <2>1. /\ ~Busy(h)' /\ req'[h].phase = "idle"
        /\ \A g \in Handlers : g # h => req'[g] = req[g] /\ (Busy(g)' <=> Busy(g))
    BY <1>5, HandlerEnds
  <2>2. QED
    BY <1>a, <1>c, <1>5, <2>1 DEF RowsOK
<1>6. ASSUME NEW row \in adrift, LandAdrift(row) PROVE RowsOK'
  <2>1. /\ table' = Append(table, row) /\ adrift' \subseteq adrift /\ UNCHANGED <<req, clock>>
    BY <1>6 DEF LandAdrift
  <2>2. /\ \A i \in DOMAIN table : i \in DOMAIN table' /\ table'[i] = table[i]
        /\ table'[Len(table) + 1] = row
        /\ \A i \in DOMAIN table' : i \in DOMAIN table \/ i = Len(table) + 1
    BY <1>a, <2>1, RowAdded
  <2>3. (\A i \in DOMAIN table : RowOK(table[i]))'
    BY <1>a, <2>1, <2>2 DEF RowOK
  <2>4. QED
    BY <1>a, <1>c, <2>1, <2>2, <2>3 DEF RowsOK, Busy
<1>7. CASE Restart
  <2>1. /\ \A h \in Handlers : ~Busy(h)' /\ req'[h].phase = "idle"
        /\ \A row \in adrift' : row \in adrift \/ \E h \in Handlers : Busy(h) /\ row = req[h].row
        /\ UNCHANGED <<table, clock>>
    BY <1>7, Restarted
  <2>2. \A row \in adrift' : RowOK(row) /\ row \in Row
    BY <1>a, <2>1
  <2>3. QED
    BY <1>a, <1>c, <2>1, <2>2 DEF RowsOK
<1>8. CASE Tick
  <2>1. clock' = clock + 1 /\ UNCHANGED <<req, table, adrift>>
    BY <1>8 DEF Tick
  <2>2. \A row \in Row : RowOK(row) => RowOK(row)'
    BY <2>1, RowKept
  <2>3. QED
    BY <1>a, <2>1, <2>2 DEF RowsOK, Busy
<1>9. CASE UNCHANGED vars
  BY <1>9 DEF vars, store, RowsOK, RowOK, Busy
<1>10. \A h \in Handlers : Apply(h) \/ InsertFails(h) => RowsOK'
  BY <1>5, MapChanged, RowFailed
<1>11. QED
  BY <1>1, <1>2, <1>3, <1>4, <1>6, <1>7, <1>8, <1>9, <1>10, StoreSteps

(* The active set is rebuilt with every change of the map, and what the map  *)
(* holds was stored before.                                                  *)
LEMMA PersistedNext ==
    TypeOK /\ RowsOK /\ Rebuilt /\ RunningIsPersisted /\ [Next]_vars
        => Rebuilt' /\ RunningIsPersisted'
<1> SUFFICES ASSUME TypeOK, RowsOK, Rebuilt, RunningIsPersisted, [Next]_vars
             PROVE  Rebuilt' /\ RunningIsPersisted'
  OBVIOUS
<1>a. /\ IsFiniteSet(DOMAIN custom) /\ active = Merge(custom)
      /\ \A n \in DOMAIN custom : \E i \in DOMAIN table :
             table[i].name = n /\ table[i].doc = custom[n] /\ ~table[i].deleted
  BY DEF Rebuilt, RunningIsPersisted
<1>1. ASSUME UNCHANGED <<custom, active>>,
             \A i \in DOMAIN table : i \in DOMAIN table' /\ table'[i] = table[i]
      PROVE  Rebuilt' /\ RunningIsPersisted'
  <2>1. Rebuilt'
    BY <1>a, <1>1 DEF Rebuilt
  <2>2. RunningIsPersisted'
    BY <1>a, <1>1 DEF RunningIsPersisted
  <2>3. QED
    BY <2>1, <2>2
<1>2. ASSUME NEW h \in Handlers, Apply(h) PROVE Rebuilt' /\ RunningIsPersisted'
  <2> DEFINE row == req[h].row
  <2>1. /\ req[h].phase = "stored" /\ active' = Merge(custom')
        /\ \A n : n # row.name => /\ n \in DOMAIN custom' <=> n \in DOMAIN custom
                                  /\ n \in DOMAIN custom => custom'[n] = custom[n]
        /\ row.deleted => row.name \notin DOMAIN custom'
        /\ ~row.deleted => row.name \in DOMAIN custom' /\ custom'[row.name] = row.doc
        /\ DOMAIN custom' \subseteq DOMAIN custom \union {row.name}
        /\ UNCHANGED table
    BY <1>2, MapChanged
  <2>2. \E i \in DOMAIN table : table[i] = row
    BY <2>1 DEF RowsOK
  <2> HIDE DEF row
  <2>3. IsFiniteSet(DOMAIN custom')
    BY <1>a, <2>1, FS_AddElement, FS_Subset
  <2>4. \A n \in DOMAIN custom' : \E i \in DOMAIN table :
            table[i].name = n /\ table[i].doc = custom'[n] /\ ~table[i].deleted
    BY <1>a, <2>1, <2>2
  <2>5. QED
    BY <2>1, <2>3, <2>4 DEF Rebuilt, RunningIsPersisted
<1>3. CASE Restart
  <2>1. /\ active' = Merge(custom') /\ (custom' = Loaded \/ custom' = <<>>) /\ UNCHANGED table
    BY <1>3, Restarted
  <2>2. IsFiniteSet(DOMAIN <<>>) /\ DOMAIN <<>> = {}
    BY FS_EmptySet
  <2>3. IsFiniteSet(DOMAIN custom') /\
        \A n \in DOMAIN custom' : \E i \in DOMAIN table :
            table[i].name = n /\ table[i].doc = custom'[n] /\ ~table[i].deleted
    BY <2>1, <2>2, LoadedIsStored
  <2>4. QED
    BY <2>1, <2>3 DEF Rebuilt, RunningIsPersisted
<1>4. ASSUME NEW h \in Handlers, StoreRow(h) PROVE Rebuilt' /\ RunningIsPersisted'
  BY <1>1, <1>4, RowStored, RowAdded
<1>5. ASSUME NEW row \in adrift, LandAdrift(row) PROVE Rebuilt' /\ RunningIsPersisted'
  <2>1. table' = Append(table, row) /\ row \in Row /\ UNCHANGED <<custom, active>>
    BY <1>5, StoreFacts DEF LandAdrift, store
  <2>2. QED
    BY <1>1, <2>1, RowAdded
<1>6. ASSUME NEW h \in Handlers,
             DeleteWrite(h) \/ InsertFails(h) \/ Refused
             \/ \E row \in Row, phase \in {"writing", "checked"} : Begins(h, phase, row)
      PROVE  Rebuilt' /\ RunningIsPersisted'
  <2>1. UNCHANGED <<custom, active, table>>
    BY <1>6 DEF DeleteWrite, InsertFails, Refused, Begins, store
  <2>2. QED
    BY <1>1, <2>1
<1>7. CASE Tick \/ UNCHANGED vars
  <2>1. UNCHANGED <<custom, active, table>>
    BY <1>7 DEF Tick, vars, store
  <2>2. QED
    BY <1>1, <2>1
<1>8. QED
  BY <1>2, <1>3, <1>4, <1>5, <1>6, <1>7, StoreSteps

-----------------------------------------------------------------------------
(* Edits that come one after the other                                     *)

(* The rows of a name after an insert.                                       *)
LEMMA RowsAfter ==
    ASSUME TypeOK, NEW row \in Row, table' = Append(table, row), NEW n
    PROVE  /\ row.name # n => RowsOf(n)' = RowsOf(n)
           /\ row.name = n => RowsOf(n)' = RowsOf(n) \union {Len(table) + 1}
           /\ \A i \in RowsOf(n) : table'[i] = table[i] /\ i <= Len(table) + 1
                                   /\ table[i].at \in Nat /\ i \in Nat
           /\ table'[Len(table) + 1] = row
<1>1. /\ \A i \in DOMAIN table : i \in DOMAIN table' /\ table'[i] = table[i]
      /\ Len(table) + 1 \in DOMAIN table' /\ table'[Len(table) + 1] = row
      /\ \A i \in DOMAIN table' : i \in DOMAIN table \/ i = Len(table) + 1
  BY RowAdded
<1>2. \A i \in DOMAIN table : table[i].at \in Nat /\ i \in Nat /\ i <= Len(table) + 1
  BY StoreFacts
<1>3. row.name # n => RowsOf(n)' = RowsOf(n)
  BY <1>1 DEF RowsOf
<1>4. row.name = n => RowsOf(n)' = RowsOf(n) \union {Len(table) + 1}
  BY <1>1 DEF RowsOf
<1>5. QED
  BY <1>1, <1>2, <1>3, <1>4 DEF RowsOf

\* The rows of a name and what memory holds of it are as before.
Unread(n) ==
    /\ RowsOf(n)' = RowsOf(n) /\ \A i \in RowsOf(n) : table'[i] = table[i]
    /\ n \in DOMAIN custom' <=> n \in DOMAIN custom
    /\ n \in DOMAIN custom => custom'[n] = custom[n]

(* Then so are its latest row and their agreement.                           *)
LEMMA UnreadKept ==
    ASSUME NEW n, Unread(n)
    PROVE  /\ \A i : Latest(n, i) => Latest(n, i)'
           /\ Kept(n) => Kept(n)'
<1>1. \A i : Latest(n, i) => Latest(n, i)'
  BY DEF Unread, Latest
<1>2. Kept(n) => Kept(n)'
  BY <1>1 DEF Unread, Kept
<1>3. QED
  BY <1>1, <1>2

(* And if its handlers do nothing either, the name stays sequential.         *)
LEMMA Undisturbed ==
    ASSUME NEW n, Sequential(n), Unread(n),
           InHand(n)' = InHand(n), \A h \in InHand(n) : req'[h] = req[h],
           \A row \in adrift' : row \in adrift \/ row.name # n
    PROVE  Sequential(n)'
<1>1. \A row \in adrift' : row.name # n
  BY DEF Sequential
<1>2. (\A g, h \in InHand(n) : g = h)'
  BY DEF Sequential
<1>3. (\A h \in InHand(n) : req[h].phase = "writing" =>
           \A j \in RowsOf(n) : table[j].at <= req[h].row.at)'
  BY DEF Sequential, Unread
<1>4. (\A h \in InHand(n) : req[h].phase = "stored" =>
           \E i \in RowsOf(n) : Latest(n, i) /\ table[i] = req[h].row)'
  BY UnreadKept DEF Sequential, Unread
<1>5. ((\A h \in InHand(n) : req[h].phase # "stored") => Kept(n))'
  BY UnreadKept DEF Sequential
<1>6. QED
  BY <1>1, <1>2, <1>3, <1>4, <1>5 DEF Sequential

(* A sequential name has a latest row, if it has any.                        *)
LEMMA LatestKnown ==
    ASSUME NEW n, Sequential(n), RowsOf(n) # {}
    PROVE  \E i \in RowsOf(n) : Latest(n, i)
  BY DEF Sequential, Kept

(* A request that begins a write of a name finds no other one at it.         *)
LEMMA BeginSequential ==
    ASSUME TypeOK, RowsOK, NEW h \in Handlers, NEW row \in Row,
           NEW phase \in {"writing", "checked"}, Begins(h, phase, row),
           NEW n \in Names, Sequential(n), n \notin overlapped'
    PROVE  Sequential(n)'
<1>1. /\ ~Busy(h) /\ Moves(h, phase, row) /\ row.at = clock
      /\ overlapped' = IF row.name \in BusyNames THEN overlapped \union {row.name} ELSE overlapped
      /\ UNCHANGED <<custom, table, adrift, clock>>
  BY DEF Begins
<1>2. /\ req'[h].phase = phase /\ req'[h].row = row
      /\ \A g \in Handlers : g # h => req'[g] = req[g]
      /\ InHand(n)' = IF row.name = n THEN InHand(n) \union {h} ELSE InHand(n) \ {h}
  BY <1>1, HandlerMoves
<1>3. Unread(n)
  BY <1>1 DEF Unread, RowsOf
<1>4. h \notin InHand(n)
  BY <1>1 DEF InHand
<1>5. CASE row.name # n
  <2>1. InHand(n)' = InHand(n) /\ \A g \in InHand(n) : g # h /\ g \in Handlers
    BY <1>2, <1>4, <1>5 DEF InHand
  <2>2. QED
    BY <1>1, <1>2, <1>3, <2>1, Undisturbed
<1>6. CASE row.name = n
  <2>1. n \notin BusyNames
    BY <1>1, <1>6
  <2>2. InHand(n) = {}
    BY <2>1 DEF BusyNames, InHand
  <2>3. InHand(n)' = {h}
    BY <1>2, <1>6, <2>2
  <2>4. Kept(n)'
    BY <1>3, <2>2, UnreadKept DEF Sequential
  <2>5. \A j \in RowsOf(n) : table[j].at <= clock
    BY DEF RowsOf, RowsOK, RowOK
  <2>6. (\A j \in RowsOf(n) : table[j].at <= req[h].row.at)'
    BY <1>1, <1>2, <1>3, <2>5 DEF Unread
  <2>7. \A r \in adrift' : r.name # n
    BY <1>1 DEF Sequential
  <2>8. req'[h].phase # "stored"
    BY <1>2
  <2>9. QED
    BY <2>3, <2>4, <2>6, <2>7, <2>8 DEF Sequential
<1>7. QED
  BY <1>5, <1>6

(* A tombstone is stamped when it is sent, later than the rows it finds.     *)
LEMMA TombstoneSequential ==
    ASSUME TypeOK, RowsOK, NEW h \in Handlers, DeleteWrite(h), NEW n \in Names, Sequential(n)
    PROVE  Sequential(n)'
<1>1. PICK row \in Row : /\ Moves(h, "writing", row) /\ row.at = clock
                         /\ row.name = req[h].row.name
  BY TombstoneSent
<1>2. /\ req[h].phase = "checked" /\ Busy(h) /\ UNCHANGED <<custom, table, adrift, clock>>
  BY DEF DeleteWrite, store, Busy
<1>3. /\ req'[h].phase = "writing" /\ req'[h].row = row
      /\ \A g \in Handlers : g # h => req'[g] = req[g]
      /\ InHand(n)' = IF row.name = n THEN InHand(n) \union {h} ELSE InHand(n) \ {h}
  BY <1>1, HandlerMoves
<1>4. Unread(n)
  BY <1>2 DEF Unread, RowsOf
<1>5. CASE row.name # n
  <2>1. h \notin InHand(n)
    BY <1>1, <1>5 DEF InHand
  <2>2. InHand(n)' = InHand(n) /\ \A g \in InHand(n) : g # h /\ g \in Handlers
    BY <1>3, <1>5, <2>1 DEF InHand
  <2>3. QED
    BY <1>2, <1>3, <1>4, <2>2, Undisturbed
<1>6. CASE row.name = n
  <2>1. h \in InHand(n)
    BY <1>1, <1>2, <1>6 DEF InHand
  <2>2. InHand(n) = {h}
    BY <2>1 DEF Sequential
  <2>3. InHand(n)' = {h}
    BY <1>3, <1>6, <2>2
  <2>4. Kept(n)'
    BY <1>2, <1>4, <2>2, UnreadKept DEF Sequential
  <2>5. \A j \in RowsOf(n) : table[j].at <= clock
    BY DEF RowsOf, RowsOK, RowOK
  <2>6. (\A j \in RowsOf(n) : table[j].at <= req[h].row.at)'
    BY <1>1, <1>2, <1>3, <1>4, <2>5 DEF Unread
  <2>7. \A r \in adrift' : r.name # n
    BY <1>2 DEF Sequential
  <2>8. req'[h].phase # "stored"
    BY <1>3
  <2>9. QED
    BY <2>3, <2>4, <2>6, <2>7, <2>8 DEF Sequential
<1>7. QED
  BY <1>5, <1>6

(* An inserted row of a sequential name is its latest.                       *)
LEMMA StoredSequential ==
    ASSUME TypeOK, NEW h \in Handlers, StoreRow(h), NEW n \in Names, Sequential(n)
    PROVE  Sequential(n)'
<1> DEFINE row == req[h].row
           last == Len(table) + 1
<1>1. /\ Busy(h) /\ row \in Row /\ req[h].phase = "writing" /\ Moves(h, "stored", row)
      /\ table' = Append(table, row) /\ UNCHANGED <<custom, adrift>>
  BY RowStored
<1>2. /\ req'[h].phase = "stored" /\ req'[h].row = row
      /\ \A g \in Handlers : g # h => req'[g] = req[g]
      /\ InHand(n)' = IF row.name = n THEN InHand(n) \union {h} ELSE InHand(n) \ {h}
  BY <1>1, HandlerMoves
<1>3. /\ row.name # n => RowsOf(n)' = RowsOf(n)
      /\ row.name = n => RowsOf(n)' = RowsOf(n) \union {last}
      /\ \A i \in RowsOf(n) : table'[i] = table[i] /\ i <= last
                              /\ table[i].at \in Nat /\ i \in Nat
      /\ table'[last] = row
  BY <1>1, RowsAfter
<1>4. h \in InHand(n) <=> row.name = n
  BY <1>1 DEF InHand
<1>5. CASE row.name # n
  <2>1. InHand(n)' = InHand(n) /\ \A g \in InHand(n) : g # h /\ g \in Handlers
    BY <1>2, <1>4, <1>5 DEF InHand
  <2>2. Unread(n)
    BY <1>1, <1>3, <1>5 DEF Unread
  <2>3. QED
    BY <1>1, <1>2, <2>1, <2>2, Undisturbed
<1>6. CASE row.name = n
  <2>1. InHand(n) = {h}
    BY <1>4, <1>6 DEF Sequential
  <2>2. InHand(n)' = {h}
    BY <1>2, <1>6, <2>1
  <2>3. \A j \in RowsOf(n) : table[j].at <= row.at
    BY <1>1, <2>1 DEF Sequential
  <2>4. last \in Nat /\ row.at \in Nat
    BY <1>1, StoreFacts
  <2> HIDE DEF row, last
  <2>a. PICK m \in Nat : m = last
    BY <2>4
  <2>5. Latest(n, m)'
    BY <1>3, <1>6, <2>3, <2>4, <2>a DEF Latest
  <2>6. \A r \in adrift' : r.name # n
    BY <1>1 DEF Sequential
  <2>7. (\E i \in RowsOf(n) : Latest(n, i) /\ table[i] = req[h].row)'
    BY <1>2, <1>3, <1>6, <2>5, <2>a
  <2>8. QED
    BY <1>2, <2>2, <2>6, <2>7 DEF Sequential
<1>7. QED
  BY <1>5, <1>6

(* When its write is applied, memory follows the latest row of the name.     *)
LEMMA AppliedSequential ==
    ASSUME TypeOK, NEW h \in Handlers, Apply(h), NEW n \in Names, Sequential(n)
    PROVE  Sequential(n)'
<1> DEFINE row == req[h].row
<1>1. /\ Busy(h) /\ req[h].phase = "stored" /\ Ends(h)
      /\ \A m : m # row.name => /\ m \in DOMAIN custom' <=> m \in DOMAIN custom
                                /\ m \in DOMAIN custom => custom'[m] = custom[m]
      /\ row.deleted => row.name \notin DOMAIN custom'
      /\ ~row.deleted => row.name \in DOMAIN custom' /\ custom'[row.name] = row.doc
      /\ UNCHANGED <<table, adrift>>
  BY MapChanged
<1>2. /\ \A g \in Handlers : g # h => req'[g] = req[g]
      /\ InHand(n)' = InHand(n) \ {h}
  BY <1>1, HandlerEnds
<1>3. RowsOf(n)' = RowsOf(n)
  BY <1>1 DEF RowsOf
<1>4. h \in InHand(n) <=> row.name = n
  BY <1>1 DEF InHand
<1>5. CASE row.name # n
  <2>1. InHand(n)' = InHand(n) /\ \A g \in InHand(n) : g # h /\ g \in Handlers
    BY <1>2, <1>4, <1>5 DEF InHand
  <2>2. Unread(n)
    BY <1>1, <1>3, <1>5 DEF Unread
  <2>3. QED
    BY <1>1, <1>2, <2>1, <2>2, Undisturbed
<1>6. CASE row.name = n
  <2>1. InHand(n)' = {}
    BY <1>2, <1>4, <1>6 DEF Sequential
  <2>2. PICK i \in RowsOf(n) : Latest(n, i) /\ table[i] = row
    BY <1>1, <1>4, <1>6 DEF Sequential
  <2>3. Latest(n, i)'
    BY <1>1, <1>3, <2>2 DEF Latest
  <2> HIDE DEF row
  <2>4. Kept(n)'
    BY <1>1, <1>3, <1>6, <2>2, <2>3 DEF Kept
  <2>5. \A r \in adrift' : r.name # n
    BY <1>1 DEF Sequential
  <2>6. QED
    BY <2>1, <2>4, <2>5 DEF Sequential
<1>7. QED
  BY <1>5, <1>6

(* A name that an insert leaves in doubt is not asked about; the others do   *)
(* not notice.                                                               *)
LEMMA FailedSequential ==
    ASSUME TypeOK, NEW h \in Handlers, InsertFails(h), NEW n \in Names \ failed', Sequential(n)
    PROVE  Sequential(n)'
<1>1. /\ Busy(h) /\ Ends(h) /\ adrift' \subseteq adrift \union {req[h].row}
      /\ failed' = failed \union {req[h].row.name} /\ UNCHANGED <<custom, table>>
  BY RowFailed
<1>2. req[h].row.name # n
  BY <1>1
<1>3. /\ \A g \in Handlers : g # h => req'[g] = req[g]
      /\ InHand(n)' = InHand(n) \ {h}
  BY <1>1, HandlerEnds
<1>4. InHand(n)' = InHand(n) /\ \A g \in InHand(n) : g # h /\ g \in Handlers
  BY <1>2, <1>3 DEF InHand
<1>5. Unread(n)
  BY <1>1 DEF Unread, RowsOf
<1>6. QED
  BY <1>1, <1>2, <1>3, <1>4, <1>5, Undisturbed

(* A row adrift lands on a name that is not sequential.                      *)
LEMMA LandedSequential ==
    ASSUME TypeOK, NEW row \in adrift, LandAdrift(row), NEW n \in Names, Sequential(n)
    PROVE  Sequential(n)'
<1>1. /\ row \in Row /\ table' = Append(table, row) /\ adrift' \subseteq adrift
      /\ UNCHANGED <<custom, req>>
  BY StoreFacts DEF LandAdrift, store
<1>2. row.name # n
  BY DEF Sequential
<1>3. Unread(n)
  BY <1>1, <1>2, RowsAfter DEF Unread
<1>4. InHand(n)' = InHand(n)
  BY <1>1 DEF InHand, Busy
<1>5. QED
  BY <1>1, <1>3, <1>4, Undisturbed

(* A restart loads the latest row of a sequential name, or puts every name   *)
(* the table holds in doubt.                                                 *)
LEMMA RestartSequential ==
    ASSUME TypeOK, RowsOK, Restart, NEW n \in Names \ failed', Sequential(n)
    PROVE  Sequential(n)'
<1>1. /\ \A h \in Handlers : ~Busy(h)'
      /\ \A row \in adrift' : row \in adrift \/
             \E h \in Handlers : Busy(h) /\ row = req[h].row /\ row.name \in failed'
      /\ custom' = Loaded \/ (custom' = <<>> /\ StoredNames \subseteq failed')
      /\ UNCHANGED table
  BY Restarted
<1>2. \A row \in adrift' : row.name # n
  BY <1>1 DEF Sequential
<1>3. InHand(n)' = {}
  BY <1>1 DEF InHand
<1>4. RowsOf(n)' = RowsOf(n)
  BY <1>1 DEF RowsOf
<1>5. Kept(n)'
  <2>1. CASE RowsOf(n) = {}
    <3>1. n \notin StoredNames
      BY <2>1 DEF StoredNames, RowsOf
    <3>2. n \notin DOMAIN Loaded
      BY <3>1 DEF Loaded
    <3>3. n \notin DOMAIN custom'
      BY <1>1, <3>2
    <3>4. QED
      BY <1>4, <2>1, <3>3 DEF Kept
  <2>2. CASE RowsOf(n) # {}
    <3>1. PICK i \in RowsOf(n) : Latest(n, i)
      BY <2>2, LatestKnown
    <3>2. FinalRow(n) = table[i] /\ i \in DOMAIN table /\ table[i].name = n
      BY <3>1, LatestIsFinal DEF RowsOf
    <3>3. ~table[i].deleted => table[i].doc \in Compiling
      BY <3>2 DEF RowsOK, RowOK
    <3>4. n \in StoredNames <=> ~table[i].deleted
      BY <3>2 DEF StoredNames
    <3>5. /\ n \in DOMAIN Loaded <=> ~table[i].deleted
          /\ ~table[i].deleted => Loaded[n] = table[i].doc
      BY <3>2, <3>3, <3>4 DEF Loaded
    <3>6. /\ table[i].deleted => n \notin DOMAIN custom'
          /\ ~table[i].deleted => n \in DOMAIN custom' /\ custom'[n] = table[i].doc
      BY <1>1, <3>4, <3>5
    <3>7. Latest(n, i)'
      BY <1>1, <1>4, <3>1 DEF Latest
    <3>8. QED
      BY <1>1, <1>4, <3>1, <3>6, <3>7 DEF Kept
  <2>3. QED
    BY <2>1, <2>2
<1>6. QED
  BY <1>2, <1>3, <1>5 DEF Sequential

(* Every step keeps the writes of a name in their order.                     *)
LEMMA SequentialNext ==
    TypeOK /\ RowsOK /\ AllSequential /\ [Next]_vars => AllSequential'
<1> SUFFICES ASSUME TypeOK, RowsOK, AllSequential, [Next]_vars,
                    NEW n \in Names, n \notin failed', n \notin overlapped'
             PROVE  Sequential(n)'
  BY DEF AllSequential
<1>1. ASSUME n \notin failed, n \notin overlapped PROVE Sequential(n)
  BY <1>1 DEF AllSequential
<1>2. ASSUME NEW h \in Handlers, NEW row \in Row, NEW phase \in {"writing", "checked"},
             Begins(h, phase, row)
      PROVE  Sequential(n)'
  <2>1. n \notin failed /\ n \notin overlapped
    BY <1>2 DEF Begins
  <2>2. QED
    BY <1>1, <1>2, <2>1, BeginSequential
<1>3. ASSUME NEW h \in Handlers, DeleteWrite(h) PROVE Sequential(n)'
  <2>1. n \notin failed /\ n \notin overlapped
    BY <1>3 DEF DeleteWrite, history
  <2>2. QED
    BY <1>1, <1>3, <2>1, TombstoneSequential
<1>4. ASSUME NEW h \in Handlers, StoreRow(h) PROVE Sequential(n)'
  <2>1. n \notin failed /\ n \notin overlapped
    BY <1>4 DEF StoreRow, history
  <2>2. QED
    BY <1>1, <1>4, <2>1, StoredSequential
<1>5. ASSUME NEW h \in Handlers, Apply(h) PROVE Sequential(n)'
  <2>1. n \notin failed /\ n \notin overlapped
    BY <1>5 DEF Apply, history
  <2>2. QED
    BY <1>1, <1>5, <2>1, AppliedSequential
<1>6. ASSUME NEW h \in Handlers, InsertFails(h) PROVE Sequential(n)'
  <2>1. n \notin failed /\ n \notin overlapped
    BY <1>6 DEF InsertFails
  <2>2. QED
    BY <1>1, <1>6, <2>1, FailedSequential
<1>7. ASSUME NEW row \in adrift, LandAdrift(row) PROVE Sequential(n)'
  <2>1. n \notin failed /\ n \notin overlapped
    BY <1>7 DEF LandAdrift, history
  <2>2. QED
    BY <1>1, <1>7, <2>1, LandedSequential
<1>8. CASE Restart
  <2>1. n \notin failed /\ n \notin overlapped
    BY <1>8, Restarted
  <2>2. QED
    BY <1>1, <1>8, <2>1, RestartSequential
<1>9. CASE Refused \/ Tick \/ UNCHANGED vars
  <2>1. UNCHANGED <<custom, table, req, adrift, failed, overlapped>>
    BY <1>9 DEF Refused, Tick, vars, store, history
  <2>2. Unread(n) /\ InHand(n)' = InHand(n)
    BY <2>1 DEF Unread, RowsOf, InHand, Busy
  <2>3. Sequential(n)
    BY <1>1, <2>1
  <2>4. QED
    BY <2>1, <2>2, <2>3, Undisturbed
<1>10. QED
  BY <1>2, <1>3, <1>4, <1>5, <1>6, <1>7, <1>8, <1>9, StoreSteps

-----------------------------------------------------------------------------
(* The theorems                                                            *)

(* An engine that has just started holds nothing and serves the base.        *)
LEMMA StoreInit == Init => StoreInv
<1> SUFFICES ASSUME Init PROVE StoreInv
  OBVIOUS
<1>1. /\ custom = <<>> /\ active = Merge(<<>>) /\ req = [h \in Handlers |-> Idle]
      /\ table = <<>> /\ adrift = {} /\ clock = 0 /\ issued = 0 /\ restarts = 0
      /\ failed = {} /\ overlapped = {}
  BY DEF Init
<1>2. DOMAIN custom = {} /\ DOMAIN table = {} /\ table \in Seq(Row)
  BY <1>1
<1>3. \A h \in Handlers : ~Busy(h) /\ req[h].phase = "idle"
  BY <1>1 DEF Busy, Idle
<1>4. TypeOK
  BY <1>1, <1>2 DEF TypeOK
<1>5. RowsOK
  BY <1>1, <1>2, <1>3 DEF RowsOK
<1>6. Rebuilt /\ RunningIsPersisted
  BY <1>1, <1>2, FS_EmptySet DEF Rebuilt, RunningIsPersisted
<1>7. \A n : InHand(n) = {} /\ RowsOf(n) = {}
  BY <1>2, <1>3 DEF InHand, RowsOf
<1>8. \A n : Sequential(n)
  BY <1>1, <1>2, <1>7 DEF Sequential, Kept
<1>9. QED
  BY <1>4, <1>5, <1>6, <1>8 DEF StoreInv, AllSequential

(* For any number of handlers, names, documents, requests, failures and      *)
(* restarts: the types, the rows of the past, the rebuilt active set, what   *)
(* runs being persisted, and the names whose writes came one by one.         *)
THEOREM StoreInvariant == Spec => []StoreInv
<1>1. StoreInv /\ [Next]_vars => StoreInv'
  BY TypeOKNext, RowsOKNext, PersistedNext, SequentialNext DEF StoreInv
<1>2. QED
  BY <1>1, StoreInit, PTL DEF Spec

(* What the pipeline runs is what List and Get show: the custom parsers      *)
(* first, in name order, and every base parser none of them overrides.       *)
THEOREM ServesThroughout == Spec => []ServesWhatItLists
<1>1. StoreInv => ServesWhatItLists
  BY RebuiltServes DEF StoreInv
<1>2. QED
  BY <1>1, StoreInvariant, PTL

(* A custom parser that runs has a live row in the table, whatever failed or *)
(* restarted in between.                                                     *)
THEOREM PersistedThroughout == Spec => []RunningIsPersisted
<1>1. StoreInv => RunningIsPersisted
  BY DEF StoreInv
<1>2. QED
  BY <1>1, StoreInvariant, PTL

(* Edits of a name made one after the other, none of them failed, survive a  *)
(* restart, even when several are made in the same second.                   *)
THEOREM EditsSurvive == Spec => []SequentialEditsSurvive
<1>1. ASSUME StoreInv, NEW n \in Names, n \notin failed, n \notin overlapped, n \notin BusyNames
      PROVE  Agrees(n)
  <2>1. TypeOK /\ RowsOK /\ Sequential(n)
    BY <1>1 DEF StoreInv, AllSequential
  <2>2. InHand(n) = {}
    BY <1>1 DEF InHand, BusyNames
  <2>3. Kept(n)
    BY <2>1, <2>2 DEF Sequential
  <2>4. CASE RowsOf(n) = {} /\ n \notin DOMAIN custom
    <3>1. n \notin StoredNames
      BY <2>4 DEF StoredNames, RowsOf
    <3>2. QED
      BY <2>4, <3>1 DEF Agrees, Loaded
  <2>5. CASE RowsOf(n) # {} \/ n \in DOMAIN custom
    <3>1. PICK i \in RowsOf(n) :
              /\ Latest(n, i)
              /\ table[i].deleted => n \notin DOMAIN custom
              /\ ~table[i].deleted => n \in DOMAIN custom /\ custom[n] = table[i].doc
      BY <2>3, <2>5 DEF Kept
    <3>2. FinalRow(n) = table[i] /\ i \in DOMAIN table /\ table[i].name = n
      BY <2>1, <3>1, LatestIsFinal DEF RowsOf
    <3>3. ~table[i].deleted => table[i].doc \in Compiling
      BY <2>1, <3>2 DEF RowsOK, RowOK
    <3>4. n \in StoredNames <=> ~table[i].deleted
      BY <3>2 DEF StoredNames
    <3>5. /\ n \in DOMAIN Loaded <=> ~table[i].deleted
          /\ ~table[i].deleted => Loaded[n] = table[i].doc
      BY <3>2, <3>3, <3>4 DEF Loaded
    <3>6. QED
      BY <3>1, <3>5 DEF Agrees
  <2>6. QED
    BY <2>4, <2>5
<1>2. StoreInv => SequentialEditsSurvive
  BY <1>1 DEF SequentialEditsSurvive
<1>3. QED
  BY <1>2, StoreInvariant, PTL
===============================================================================
