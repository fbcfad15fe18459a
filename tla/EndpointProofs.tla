---------------------------- MODULE EndpointProofs ----------------------------
(***************************************************************************)
(* What Endpoint promises for any number of lines, files, paths, alerts,   *)
(* attempts, capacities, restarts and crashes.  Of the delivery: nothing   *)
(* vanishes unseen, what was answered has entered, lines keep their order  *)
(* until an attempt fails, and Delivery implements DeliveryPromise.  The   *)
(* tailing collector submits what is written to the file it follows, once; *)
(* the alerts on files add up to what the agent found; and the composition *)
(* inherits what is proved of its three parts.                             *)
(***************************************************************************)
EXTENDS Endpoint, EnumerationProofs, SequenceTheorems

-----------------------------------------------------------------------------
(* Delivery: channels                                                      *)

(* A channel with room stays within its capacity.                            *)
LEMMA PutBounded ==
    ASSUME NEW S, NEW s \in Seq(S), NEW e \in S, NEW cap \in Nat, Len(s) < cap
    PROVE  Append(s, e) \in Seq(S) /\ Len(Append(s, e)) <= cap
BY PutLast

(* Nor does one that something was taken from leave it.                      *)
LEMMA TakeBounded ==
    ASSUME NEW S, NEW s \in Seq(S), s # <<>>, NEW cap \in Nat, Len(s) <= cap
    PROVE  Head(s) \in S /\ Tail(s) \in Seq(S) /\ Len(Tail(s)) <= cap
BY TakeFirst

Increasing(seq) == \A i, j \in DOMAIN seq : i < j => seq[i] < seq[j]

(* What is first in an increasing channel is the least; the rest increases.  *)
LEMMA IncreasingTail ==
    ASSUME NEW s \in Seq(Int), s # <<>>, Increasing(s)
    PROVE  Increasing(Tail(s)) /\ \A e \in Range(Tail(s)) : Head(s) < e
<1>1. /\ Head(s) = s[1] /\ Len(s) \in Nat \ {0}
      /\ DOMAIN s = 1 .. Len(s) /\ DOMAIN Tail(s) = 1 .. Len(s) - 1
      /\ \A i \in 1 .. Len(s) - 1 : Tail(s)[i] = s[i + 1]
  BY TakeFirst
<1>2. \A i \in 1 .. Len(s) - 1 : i + 1 \in 1 .. Len(s) /\ 1 < i + 1
  BY <1>1
<1>3. Increasing(Tail(s))
  BY <1>1, <1>2 DEF Increasing
<1>4. \A i \in 1 .. Len(s) - 1 : s[1] < s[i + 1]
  BY <1>1, <1>2 DEF Increasing
<1>5. QED
  BY <1>1, <1>3, <1>4 DEF Range

(* What is greater than all of an increasing channel can be put last.        *)
LEMMA IncreasingAppend ==
    ASSUME NEW s \in Seq(Int), NEW e \in Int, Increasing(s),
           \A d \in Range(s) : d < e
    PROVE  Increasing(Append(s, e))
<1>1. /\ Len(s) \in Nat /\ DOMAIN s = 1 .. Len(s)
      /\ DOMAIN Append(s, e) = 1 .. Len(s) + 1
      /\ \A i \in 1 .. Len(s) : Append(s, e)[i] = s[i]
      /\ Append(s, e)[Len(s) + 1] = e
  BY PutLast
<1>2. \A i \in 1 .. Len(s) : s[i] < e
  BY <1>1 DEF Range
<1>3. SUFFICES ASSUME NEW i \in 1 .. Len(s) + 1, NEW j \in 1 .. Len(s) + 1, i < j
               PROVE  Append(s, e)[i] < Append(s, e)[j]
  BY <1>1 DEF Increasing
<1>4. i \in 1 .. Len(s)
  BY <1>1, <1>3
<1>5. CASE j = Len(s) + 1
  BY <1>1, <1>2, <1>4, <1>5
<1>6. CASE j # Len(s) + 1
  <2>1. j \in 1 .. Len(s)
    BY <1>1, <1>3, <1>6
  <2>2. QED
    BY <1>1, <1>3, <1>4, <2>1 DEF Increasing
<1>7. QED
  BY <1>5, <1>6

-----------------------------------------------------------------------------
(* Delivery: the inductive invariant                                       *)

(* There is room for the next event or alert, and an attempt left, wherever  *)
(* one is added or made.                                                     *)
Paced ==
    /\ phase = "select" => Len(batch) < MaxBatch
    /\ phase \in {"send", "wait"} => attempt < MaxAttempts
    /\ ~flushing => Len(alertBatch) < MaxAlerts

(* Lines stay in their order on the agent's side: a buffer, a batch and what *)
(* a handler has left increase, and what is in the buffer is newer than      *)
(* everything that was taken from it.                                        *)
Ordered ==
    /\ in \in Seq(Lines) /\ batch \in Seq(Lines) /\ syslog \in Seq(SyslogEvents)
    /\ \A r \in DOMAIN handlers : handlers[r] \in Seq(Lines) /\ Increasing(handlers[r])
    /\ Increasing(in) /\ Increasing(batch)
    /\ \A e \in Range(in) : \A d \in Range(batch) \union HandlerEvents : d < e
    /\ \A e \in Range(in) \union Range(batch) \union HandlerEvents : e <= read

(* While the client waits, what it has sent is with the handler or has       *)
(* entered; an answer says that all of it has.                               *)
Waiting ==
    /\ phase # "wait" => conn = 0 /\ ~answered
    /\ phase = "stopped" => in = <<>> /\ batch = <<>>
    /\ answered => \A e \in Range(batch) : entered[e] > 0
    /\ conn # 0 /\ ~answered =>
           /\ conn \in DOMAIN handlers
           /\ \A e \in Range(batch) : e \in Range(handlers[conn]) \/ entered[e] > 0

(* How often a line can be with a handler, entered ones included: not before *)
(* its first attempt, and once for each.                                     *)
SentSoFar(e) ==
    CASE e > read \/ e \in Range(in) -> 0
      [] e \in Range(batch) /\ phase = "select" -> 0
      [] e \in Range(batch) /\ phase = "send" -> attempt
      [] e \in Range(batch) /\ phase = "wait" -> attempt + 1
      [] OTHER -> MaxAttempts

Flight(e) == {r \in DOMAIN handlers : e \in Range(handlers[r])}

SendsCounted ==
    /\ \A e \in Lines : entered[e] + Cardinality(Flight(e)) <= SentSoFar(e)
    /\ \A e \in SyslogEvents :
           /\ e \in Range(syslog) => e <= NumLines + heard
           /\ e > NumLines + heard \/ e \in Range(syslog) => entered[e] = 0
           /\ entered[e] <= 1

DeliveryInv == TypeOK /\ Paced /\ Ordered /\ Waiting /\ SendsCounted

(* Until an attempt fails there is one handler at most, the one the client   *)
(* waits on, and nothing at or behind a line that has yet to enter has       *)
(* entered.                                                                  *)
Ahead ==
    Range(in) \union HandlerEvents \union (read + 1 .. NumLines)
        \union IF phase \in {"select", "send"} THEN Range(batch) ELSE {}

OneHandler ==
    /\ phase \in {"select", "send"} => DOMAIN handlers = {}
    /\ phase = "wait" => DOMAIN handlers \subseteq {conn}
    /\ answered => DOMAIN handlers = {}
    /\ \A q, r \in DOMAIN handlers : q = r

FirstTime ==
    ~retried => OneHandler /\ \A e \in Ahead : \A g \in e .. NumLines : entered[g] = 0

-----------------------------------------------------------------------------
(* Delivery: types                                                         *)

(* TypeOK in the parts a step may concern.                                   *)
AgentOK ==
    /\ read \in 0 .. NumLines
    /\ in \in Seq(Events) /\ Len(in) <= InCap
    /\ batch \in Seq(Events) /\ Len(batch) <= MaxBatch
    /\ phase \in Phases /\ attempt \in 0 .. MaxAttempts /\ conn \in 0 .. MaxHandlers

HandlersOK ==
    /\ DOMAIN handlers \subseteq 1 .. MaxHandlers
    /\ \A r \in DOMAIN handlers : handlers[r] \in Seq(Events)

EngineOK ==
    /\ crashes \in 0 .. MaxCrashes /\ heard \in 0 .. NumSyslog
    /\ syslog \in Seq(Events) /\ Len(syslog) <= 1
    /\ pipe \in Seq(Events) /\ Len(pipe) <= PipeCap
    /\ pending \in Seq(Events)
    /\ alertBatch \in Seq(Events) /\ Len(alertBatch) <= MaxAlerts

HistoryOK ==
    /\ entered \in [Events -> Nat] /\ stored \in [Events -> Nat]
    /\ acked \subseteq Events /\ lost \subseteq Events

FlagsOK == answered \in BOOLEAN /\ flushing \in BOOLEAN /\ retried \in BOOLEAN

(* The type invariant is the conjunction of its five groups of variables.    *)
LEMMA TypeParts ==
    TypeOK <=> AgentOK /\ HandlersOK /\ EngineOK /\ HistoryOK /\ FlagsOK
BY DEF TypeOK, AgentOK, HandlersOK, EngineOK, HistoryOK, FlagsOK

(* And so it is in the state after a step.                                   *)
LEMMA TypePartsNext ==
    AgentOK' /\ HandlersOK' /\ EngineOK' /\ HistoryOK' /\ FlagsOK' => TypeOK'
BY DEF TypeOK, AgentOK, HandlersOK, EngineOK, HistoryOK, FlagsOK

(* Everything has its type before the first message.                         *)
LEMMA TypeOKInit == Init => TypeOK
<1> SUFFICES ASSUME Init PROVE TypeOK
  OBVIOUS
<1>1. HandlersOK
  BY NothingInEmpty DEF Init, HandlersOK
<1>2. AgentOK /\ EngineOK /\ HistoryOK
  BY DeliveryAssumption DEF Init, Phases, AgentOK, EngineOK, HistoryOK
<1>3. FlagsOK
  BY DEF Init, FlagsOK
<1>4. QED
  BY <1>1, <1>2, <1>3, TypeParts

(* Positions of an event in a channel are counted by a number.               *)
LEMMA CountInType ==
    ASSUME NEW S, NEW s \in Seq(S), NEW e
    PROVE  IsFiniteSet({i \in DOMAIN s : s[i] = e}) /\ CountIn(s, e) \in Nat
<1>1. DOMAIN s = 1 .. Len(s) /\ Len(s) \in Nat
  BY LenProperties
<1>2. IsFiniteSet(1 .. Len(s))
  BY <1>1, FS_Interval
<1>3. IsFiniteSet({i \in DOMAIN s : s[i] = e})
  BY <1>1, <1>2, FS_Subset
<1>4. QED
  BY <1>3, FS_CardinalityType DEF CountIn

(* Every step keeps the types; what is added to a batch fits, by Paced.      *)
LEMMA TypeOKNext == TypeOK /\ Paced /\ [Next]_vars => TypeOK'
<1> SUFFICES ASSUME TypeOK, Paced, [Next]_vars PROVE TypeOK'
  OBVIOUS
<1> USE DeliveryAssumption
<1>0. AgentOK /\ HandlersOK /\ EngineOK /\ HistoryOK /\ FlagsOK
  BY TypeParts
<1>a. /\ in \in Seq(Events) /\ batch \in Seq(Events) /\ syslog \in Seq(Events)
      /\ pipe \in Seq(Events) /\ pending \in Seq(Events) /\ alertBatch \in Seq(Events)
      /\ Len(in) <= InCap /\ Len(batch) <= MaxBatch /\ Len(syslog) <= 1
      /\ Len(pipe) <= PipeCap /\ Len(alertBatch) <= MaxAlerts
  BY <1>0 DEF AgentOK, EngineOK
<1>b. /\ Range(in) \subseteq Events /\ Range(batch) \subseteq Events
      /\ Range(syslog) \subseteq Events /\ Range(pipe) \subseteq Events
      /\ Range(pending) \subseteq Events /\ Range(alertBatch) \subseteq Events
      /\ \A r \in DOMAIN handlers : Range(handlers[r]) \subseteq Events
  BY <1>0, <1>a, RangeOfSeq DEF HandlersOK
<1>1. CASE Submit
  <2>1. read + 1 \in 0 .. NumLines /\ read + 1 \in Events /\ read' = read + 1
    BY <1>0, <1>1 DEF Submit, Events, Lines, AgentOK
  <2>2. Len(in) < InCap => Append(in, read + 1) \in Seq(Events)
                           /\ Len(Append(in, read + 1)) <= InCap
    BY <1>a, <2>1, PutBounded
  <2>3. in' = in \/ (Len(in) < InCap /\ in' = Append(in, read + 1))
    BY <1>1 DEF Submit
  <2>4. in' \in Seq(Events) /\ Len(in') <= InCap
    BY <1>a, <2>2, <2>3
  <2>5. lost' \subseteq Events
    BY <1>0, <1>1, <2>1 DEF Submit, HistoryOK
  <2>6. AgentOK' /\ HandlersOK' /\ EngineOK' /\ HistoryOK'
    BY <1>0, <1>1, <2>1, <2>4, <2>5
       DEF Submit, AgentOK, HandlersOK, EngineOK, HistoryOK, ingest, pipeline
  <2>7. FlagsOK'
    BY <1>0, <1>1 DEF Submit, FlagsOK, pipeline
  <2>8. QED
    BY <2>6, <2>7, TypePartsNext
<1>2. CASE TakeEvent
  <2>1. /\ phase = "select" /\ in # <<>> /\ batch' = Append(batch, Head(in))
        /\ in' = Tail(in) /\ phase' \in {"send", "select"} /\ attempt' = 0
        /\ UNCHANGED <<read, conn, answered, ingest, pipeline, crashes, entered,
                       stored, acked, lost, retried>>
    BY <1>2 DEF TakeEvent
  <2>2. in' \in Seq(Events) /\ Len(in') <= InCap /\ Head(in) \in Events
    BY <1>a, <2>1, TakeBounded
  <2>3. batch' \in Seq(Events) /\ Len(batch') <= MaxBatch
    BY <1>a, <2>1, <2>2, PutBounded DEF Paced
  <2>4. AgentOK'
    BY <1>0, <2>1, <2>2, <2>3 DEF AgentOK, Phases
  <2>5. HandlersOK' /\ EngineOK' /\ HistoryOK'
    BY <1>0, <2>1 DEF HandlersOK, EngineOK, HistoryOK, ingest, pipeline
  <2>6. FlagsOK'
    BY <1>0, <2>1 DEF FlagsOK, pipeline
  <2>7. QED
    BY <2>4, <2>5, <2>6, TypePartsNext
<1>3. CASE TickFlush
  <2>1. AgentOK' /\ HandlersOK' /\ EngineOK' /\ HistoryOK'
    BY <1>0, <1>3
       DEF TickFlush, AgentOK, HandlersOK, EngineOK, HistoryOK, Phases, ingest, pipeline
  <2>2. FlagsOK'
    BY <1>0, <1>3 DEF TickFlush, FlagsOK, pipeline
  <2>3. QED
    BY <2>1, <2>2, TypePartsNext
<1>4. CASE Send
  <2>0. conn' = conn \/ conn' \in 1 .. MaxHandlers
    BY <1>4 DEF Send
  <2>1. conn' \in 0 .. MaxHandlers
    BY <1>0, <2>0 DEF AgentOK
  <2>2. UNCHANGED <<read, in, batch, attempt>> /\ phase' = "wait"
    BY <1>4 DEF Send
  <2>3. AgentOK'
    BY <1>0, <2>1, <2>2 DEF AgentOK, Phases
  <2>4. HandlersOK'
    BY <1>0, <1>4 DEF Send, AgentOK, HandlersOK
  <2>5. EngineOK' /\ HistoryOK'
    BY <1>0, <1>4 DEF Send, EngineOK, HistoryOK, pipeline
  <2>6. FlagsOK'
    BY <1>0, <1>4 DEF Send, FlagsOK, pipeline
  <2>7. QED
    BY <2>3, <2>4, <2>5, <2>6, TypePartsNext
<1>5. CASE PostSucceeds
  <2>1. /\ phase' = "select" /\ batch' = <<>> /\ conn' = 0 /\ answered' = FALSE
        /\ acked' = acked \union Range(batch)
        /\ UNCHANGED <<read, in, attempt, ingest, pipeline, crashes,
                       entered, stored, lost, retried>>
    BY <1>5 DEF PostSucceeds
  <2>2. AgentOK'
    BY <1>0, <2>1 DEF AgentOK, Phases
  <2>3. HandlersOK' /\ EngineOK'
    BY <1>0, <2>1 DEF HandlersOK, EngineOK, ingest, pipeline
  <2>4. HistoryOK'
    BY <1>0, <1>b, <2>1 DEF HistoryOK
  <2>5. FlagsOK'
    BY <1>0, <2>1 DEF FlagsOK, pipeline
  <2>6. QED
    BY <2>2, <2>3, <2>4, <2>5, TypePartsNext
<1>6. CASE AttemptFails
  <2>1. /\ phase = "wait" /\ attempt' = attempt + 1 /\ conn' = 0 /\ answered' = FALSE
        /\ phase' \in {"send", "select"} /\ batch' \in {batch, <<>>}
        /\ lost' \in {lost, lost \union Range(batch)}
        /\ retried' = TRUE
        /\ UNCHANGED <<read, in, ingest, pipeline, crashes, entered, stored, acked>>
    BY <1>6 DEF AttemptFails
  <2>2. attempt + 1 \in 0 .. MaxAttempts
    BY <1>0, <2>1 DEF AgentOK, Paced
  <2>8. <<>> \in Seq(Events) /\ Len(<<>>) = 0
    OBVIOUS
  <2>9. batch' \in Seq(Events) /\ Len(batch') <= MaxBatch
    <3>1. CASE batch' = batch
      BY <1>a, <3>1
    <3>2. CASE batch' = <<>>
      BY <2>8, <3>2
    <3>3. QED
      BY <2>1, <3>1, <3>2
  <2>3. AgentOK'
    BY <1>0, <2>1, <2>2, <2>9 DEF AgentOK, Phases
  <2>4. HandlersOK' /\ EngineOK'
    BY <1>0, <2>1 DEF HandlersOK, EngineOK, ingest, pipeline
  <2>5. HistoryOK'
    BY <1>0, <1>b, <2>1 DEF HistoryOK
  <2>6. FlagsOK'
    BY <1>0, <2>1 DEF FlagsOK, pipeline
  <2>7. QED
    BY <2>3, <2>4, <2>5, <2>6, TypePartsNext
<1>7. CASE AgentStops
  <2>1. /\ phase' = "stopped" /\ in' = <<>> /\ batch' = <<>> /\ conn' = 0 /\ answered' = FALSE
        /\ lost' = lost \union Range(in) \union Range(batch)
        /\ UNCHANGED <<read, attempt, ingest, pipeline, crashes, entered, stored, acked,
                       retried>>
    BY <1>7 DEF AgentStops
  <2>2. AgentOK'
    BY <1>0, <2>1 DEF AgentOK, Phases
  <2>3. HandlersOK' /\ EngineOK'
    BY <1>0, <2>1 DEF HandlersOK, EngineOK, ingest, pipeline
  <2>4. HistoryOK'
    BY <1>0, <1>b, <2>1 DEF HistoryOK
  <2>5. FlagsOK'
    BY <1>0, <2>1 DEF FlagsOK, pipeline
  <2>6. QED
    BY <2>2, <2>3, <2>4, <2>5, TypePartsNext
<1>8. CASE \E r \in DOMAIN handlers : PushEvent(r)
  <2>1. PICK r \in DOMAIN handlers : PushEvent(r)
    BY <1>8
  <2>2. /\ handlers[r] # <<>> /\ handlers' = [handlers EXCEPT ![r] = Tail(@)]
        /\ Enter(Head(handlers[r]))
        /\ UNCHANGED <<read, agent, heard, syslog, pipeline, crashes, stored,
                       acked, lost, retried>>
    BY <2>1 DEF PushEvent
  <2>3. Head(handlers[r]) \in Events /\ Tail(handlers[r]) \in Seq(Events)
    BY <1>0, <2>2, TakeFirst DEF HandlersOK
  <2>4. HandlersOK'
    BY <1>0, <2>2, <2>3 DEF HandlersOK
  <2>5. pipe' \in Seq(Events) /\ Len(pipe') <= PipeCap
    BY <1>a, <2>2, <2>3, PutBounded DEF Enter
  <2>6. EngineOK' /\ AgentOK'
    BY <1>0, <2>2, <2>5 DEF EngineOK, AgentOK, agent, pipeline
  <2>7. HistoryOK'
    <3>1. entered' = [entered EXCEPT ![Head(handlers[r])] = @ + 1]
      BY <2>2 DEF Enter
    <3>2. entered' \in [Events -> Nat]
      BY <1>0, <2>3, <3>1 DEF HistoryOK
    <3>3. QED
      BY <1>0, <2>2, <3>2 DEF HistoryOK
  <2>8. FlagsOK'
    BY <1>0, <2>2 DEF FlagsOK, pipeline, agent
  <2>9. QED
    BY <2>4, <2>6, <2>7, <2>8, TypePartsNext
<1>9. CASE \E r \in DOMAIN handlers : Answer(r)
  <2>1. PICK r \in DOMAIN handlers : Answer(r)
    BY <1>9
  <2>2. /\ answered' = (answered \/ conn = r)
        /\ handlers' = [q \in DOMAIN handlers \ {r} |-> handlers[q]]
        /\ UNCHANGED <<read, in, batch, phase, attempt, conn, heard, syslog, pipe,
                       pipeline, crashes, entered, stored, acked, lost, retried>>
    BY <2>1 DEF Answer
  <2>3. HandlersOK'
    BY <1>0, <2>2 DEF HandlersOK
  <2>4. AgentOK' /\ EngineOK' /\ HistoryOK'
    BY <1>0, <2>2 DEF AgentOK, EngineOK, HistoryOK, pipeline
  <2>5. FlagsOK'
    BY <1>0, <2>2 DEF FlagsOK, pipeline
  <2>6. QED
    BY <2>3, <2>4, <2>5, TypePartsNext
<1>10. CASE SyslogRead
  <2>1. /\ heard < NumSyslog /\ heard' = heard + 1 /\ syslog' = <<NumLines + heard'>>
        /\ UNCHANGED <<read, agent, handlers, pipe, pipeline, crashes, entered,
                       stored, acked, lost, retried>>
    BY <1>10 DEF SyslogRead
  <2>2. heard + 1 \in 0 .. NumSyslog /\ NumLines + (heard + 1) \in Events
    BY <1>0, <2>1 DEF EngineOK, Events, SyslogEvents
  <2>3. syslog' \in Seq(Events) /\ Len(syslog') <= 1
    BY <2>1, <2>2
  <2>4. EngineOK' /\ AgentOK' /\ HandlersOK' /\ HistoryOK'
    BY <1>0, <2>1, <2>2, <2>3
       DEF EngineOK, AgentOK, HandlersOK, HistoryOK, agent, pipeline
  <2>5. FlagsOK'
    BY <1>0, <2>1 DEF FlagsOK, agent, pipeline
  <2>6. QED
    BY <2>4, <2>5, TypePartsNext
<1>11. CASE SyslogPush
  <2>1. /\ syslog # <<>> /\ syslog' = <<>> /\ Enter(Head(syslog))
        /\ UNCHANGED <<read, agent, handlers, heard, pipeline, crashes, stored,
                       acked, lost, retried>>
    BY <1>11 DEF SyslogPush
  <2>2. Head(syslog) \in Events
    BY <1>a, <2>1, TakeFirst
  <2>3. pipe' \in Seq(Events) /\ Len(pipe') <= PipeCap
    BY <1>a, <2>1, <2>2, PutBounded DEF Enter
  <2>4. EngineOK' /\ AgentOK' /\ HandlersOK'
    BY <1>0, <2>1, <2>3 DEF EngineOK, AgentOK, HandlersOK, agent, pipeline
  <2>5. HistoryOK'
    BY <1>0, <2>1, <2>2 DEF HistoryOK, Enter
  <2>6. FlagsOK'
    BY <1>0, <2>1 DEF FlagsOK, agent, pipeline
  <2>7. QED
    BY <2>4, <2>5, <2>6, TypePartsNext
<1>12. CASE Evaluate
  <2>1. /\ pipe # <<>> /\ pipe' = Tail(pipe)
        /\ pending' = [k \in 1 .. AlertsOf[Head(pipe)] |-> Head(pipe)]
        /\ UNCHANGED <<read, agent, handlers, heard, syslog, alertBatch, flushing,
                       crashes, entered, stored, acked, lost, retried>>
    BY <1>12 DEF Evaluate
  <2>2. Head(pipe) \in Events /\ Tail(pipe) \in Seq(Events) /\ Len(Tail(pipe)) <= PipeCap
    BY <1>a, <2>1, TakeBounded
  <2>3. pending' \in Seq(Events)
    <3>1. AlertsOf[Head(pipe)] \in Nat
      BY <2>2
    <3>2. QED
      BY <2>1, <2>2, <3>1
  <2>4. EngineOK' /\ AgentOK' /\ HandlersOK' /\ HistoryOK'
    BY <1>0, <2>1, <2>2, <2>3 DEF EngineOK, AgentOK, HandlersOK, HistoryOK, agent
  <2>5. FlagsOK'
    BY <1>0, <2>1 DEF FlagsOK, agent
  <2>6. QED
    BY <2>4, <2>5, TypePartsNext
<1>13. CASE AddAlert
  <2>1. /\ ~flushing /\ pending # <<>>
        /\ alertBatch' = Append(alertBatch, Head(pending)) /\ pending' = Tail(pending)
        /\ flushing' \in BOOLEAN
        /\ UNCHANGED <<read, agent, ingest, crashes, entered, stored, acked, lost,
                       retried>>
    BY <1>13 DEF AddAlert
  <2>2. Head(pending) \in Events /\ Tail(pending) \in Seq(Events)
    BY <1>a, <2>1, TakeFirst
  <2>3. alertBatch' \in Seq(Events) /\ Len(alertBatch') <= MaxAlerts
    BY <1>a, <2>1, <2>2, PutBounded DEF Paced
  <2>4. EngineOK' /\ AgentOK' /\ HandlersOK' /\ HistoryOK'
    BY <1>0, <2>1, <2>2, <2>3 DEF EngineOK, AgentOK, HandlersOK, HistoryOK, agent, ingest
  <2>5. FlagsOK'
    BY <1>0, <2>1 DEF FlagsOK, agent
  <2>6. QED
    BY <2>4, <2>5, TypePartsNext
<1>14. CASE PipeTick
  <2>1. /\ flushing' = TRUE
        /\ UNCHANGED <<read, agent, ingest, pending, alertBatch, crashes, entered,
                       stored, acked, lost, retried>>
    BY <1>14 DEF PipeTick
  <2>2. EngineOK' /\ AgentOK' /\ HandlersOK' /\ HistoryOK'
    BY <1>0, <2>1 DEF EngineOK, AgentOK, HandlersOK, HistoryOK, agent, ingest
  <2>3. FlagsOK'
    BY <1>0, <2>1 DEF FlagsOK, agent
  <2>4. QED
    BY <2>2, <2>3, TypePartsNext
<1>15. CASE InsertReturns
  <2>1. /\ stored' = stored \/ stored' = [e \in Events |-> stored[e] + CountIn(alertBatch, e)]
        /\ lost' \in {lost, lost \union Range(alertBatch)}
        /\ alertBatch' = <<>> /\ flushing' = FALSE
        /\ UNCHANGED <<read, agent, ingest, pending, crashes, entered, acked, retried>>
    BY <1>15 DEF InsertReturns
  <2>2. \A e \in Events : CountIn(alertBatch, e) \in Nat
    BY <1>a, CountInType
  <2>3. stored' \in [Events -> Nat]
    BY <1>0, <2>1, <2>2 DEF HistoryOK
  <2>4. HistoryOK'
    BY <1>0, <1>b, <2>1, <2>3 DEF HistoryOK
  <2>5. EngineOK' /\ AgentOK' /\ HandlersOK'
    BY <1>0, <2>1 DEF EngineOK, AgentOK, HandlersOK, agent, ingest
  <2>6. FlagsOK'
    BY <1>0, <2>1 DEF FlagsOK, agent
  <2>7. QED
    BY <2>4, <2>5, <2>6, TypePartsNext
<1>16. CASE EngineCrash
  <2>1. /\ crashes < MaxCrashes /\ crashes' = crashes + 1
        /\ lost' = lost \union HandlerEvents \union Range(syslog) \union Range(pipe)
                        \union Range(pending) \union Range(alertBatch)
        /\ handlers' = <<>> /\ syslog' = <<>> /\ pipe' = <<>>
        /\ pending' = <<>> /\ alertBatch' = <<>> /\ flushing' = FALSE
        /\ answered' = FALSE /\ conn' = 0
        /\ UNCHANGED <<read, in, batch, phase, attempt, heard, entered, stored, acked,
                       retried>>
    BY <1>16 DEF EngineCrash
  <2>2. HandlerEvents \subseteq Events
    BY <1>b DEF HandlerEvents
  <2>3. HistoryOK'
    BY <1>0, <1>b, <2>1, <2>2 DEF HistoryOK
  <2>4. HandlersOK'
    BY <2>1, NothingInEmpty DEF HandlersOK
  <2>5. EngineOK' /\ AgentOK'
    BY <1>0, <2>1 DEF EngineOK, AgentOK
  <2>6. FlagsOK'
    BY <1>0, <2>1 DEF FlagsOK
  <2>7. QED
    BY <2>3, <2>4, <2>5, <2>6, TypePartsNext
<1>17. CASE UNCHANGED vars
  <2>1. AgentOK' /\ HandlersOK' /\ EngineOK' /\ HistoryOK'
    BY <1>0, <1>17
       DEF vars, agent, ingest, pipeline, AgentOK, HandlersOK, EngineOK, HistoryOK
  <2>2. FlagsOK'
    BY <1>0, <1>17 DEF vars, agent, pipeline, FlagsOK
  <2>3. QED
    BY <2>1, <2>2, TypePartsNext
<1>18. QED
  BY <1>1, <1>2, <1>3, <1>4, <1>5, <1>6, <1>7, <1>8, <1>9, <1>10, <1>11, <1>12, <1>13,
     <1>14, <1>15, <1>16, <1>17
     DEF Next, AgentLoop, PipelineLoop, Handler

(* A flush follows the event or the alert that fills a batch, and gives up   *)
(* after its last attempt.                                                   *)
LEMMA PacedInit == Init => Paced
BY DeliveryAssumption DEF Init, Paced

(* Every step leaves room for the next event and alert, and an attempt.      *)
LEMMA PacedNext == TypeOK /\ Paced /\ [Next]_vars => Paced'
<1> SUFFICES ASSUME TypeOK, Paced, [Next]_vars PROVE Paced'
  OBVIOUS
<1> USE DeliveryAssumption
<1>0. AgentOK /\ EngineOK
  BY TypeParts
<1>1. CASE TakeEvent
  <2>1. /\ phase' = IF Len(batch') >= MaxBatch THEN "send" ELSE "select"
        /\ attempt' = 0 /\ UNCHANGED <<alertBatch, flushing>>
    BY <1>1 DEF TakeEvent, pipeline
  <2>2. batch' = Append(batch, Head(in)) /\ Head(in) \in Events
    BY <1>0, <1>1, TakeFirst DEF TakeEvent, AgentOK
  <2>3. Len(batch') \in Nat
    BY <1>0, <2>2, PutLast DEF AgentOK
  <2>4. phase' = "select" => Len(batch') < MaxBatch
    <3>1. phase' = "select" => ~(Len(batch') >= MaxBatch)
      BY <2>1
    <3>2. QED
      BY <2>3, <3>1
  <2>5. attempt' < MaxAttempts
    BY <2>1
  <2>6. QED
    BY <2>1, <2>4, <2>5 DEF Paced
<1>2. CASE TickFlush
  BY <1>2 DEF TickFlush, Paced, pipeline
<1>3. CASE Send
  BY <1>3 DEF Send, Paced, pipeline
<1>4. CASE PostSucceeds
  BY <1>4 DEF PostSucceeds, Paced, pipeline
<1>5. CASE AttemptFails
  BY <1>0, <1>5 DEF AttemptFails, AgentOK, Paced, pipeline
<1>6. CASE AgentStops
  BY <1>6 DEF AgentStops, Paced, pipeline
<1>7. CASE AddAlert
  <2>1. /\ alertBatch' = Append(alertBatch, Head(pending))
        /\ flushing' = (Len(alertBatch') >= MaxAlerts) /\ UNCHANGED agent
    BY <1>7 DEF AddAlert
  <2>2. Head(pending) \in Events
    BY <1>0, <1>7, TakeFirst DEF AddAlert, EngineOK
  <2>3. Len(alertBatch') \in Nat
    BY <1>0, <2>1, <2>2, PutLast DEF EngineOK
  <2>4. ~flushing' => Len(alertBatch') < MaxAlerts
    <3>1. ~flushing' => ~(Len(alertBatch') >= MaxAlerts)
      BY <2>1
    <3>2. QED
      BY <2>3, <3>1
  <2>5. QED
    BY <2>1, <2>4 DEF Paced, agent
<1>8. CASE PipeTick
  BY <1>8 DEF PipeTick, Paced, agent
<1>9. CASE InsertReturns
  BY <1>9 DEF InsertReturns, Paced, agent
<1>10. CASE EngineCrash
  BY <1>10 DEF EngineCrash, Paced
<1>11. ASSUME UNCHANGED <<batch, phase, attempt, alertBatch, flushing>> PROVE Paced'
  BY <1>11 DEF Paced
<1>12. CASE Submit \/ SyslogRead \/ SyslogPush \/ Evaluate \/ UNCHANGED vars
  <2>1. UNCHANGED <<batch, phase, attempt, alertBatch, flushing>>
    BY <1>12 DEF Submit, SyslogRead, SyslogPush, Evaluate, vars, agent, pipeline
  <2>2. QED
    BY <1>11, <2>1
<1>13. CASE \E r \in DOMAIN handlers : Handler(r)
  <2>1. UNCHANGED <<batch, phase, attempt, alertBatch, flushing>>
    BY <1>13 DEF Handler, PushEvent, Answer, agent, pipeline
  <2>2. QED
    BY <1>11, <2>1
<1>14. QED
  BY <1>1, <1>2, <1>3, <1>4, <1>5, <1>6, <1>7, <1>8, <1>9, <1>10, <1>12, <1>13
     DEF Next, AgentLoop, PipelineLoop

(* TypeOK: every channel and batch of the way keeps its capacity, whatever   *)
(* the interleaving.                                                         *)
THEOREM TypeCorrect == Spec => []TypeOK
<1>1. Init => TypeOK /\ Paced
  BY TypeOKInit, PacedInit
<1>2. TypeOK /\ Paced /\ [Next]_vars => TypeOK' /\ Paced'
  BY TypeOKNext, PacedNext
<1>3. QED
  BY <1>1, <1>2, PTL DEF Spec

(* Lines are read in their order and keep it in buffer, batch and handlers.  *)
LEMMA OrderedInit == Init => Ordered
<1> SUFFICES ASSUME Init PROVE Ordered
  OBVIOUS
<1>1. in = <<>> /\ batch = <<>> /\ syslog = <<>> /\ handlers = <<>>
  BY DEF Init
<1>2. HandlerEvents = {}
  BY <1>1, NothingInEmpty DEF HandlerEvents
<1>3. Increasing(<<>>)
  BY NothingInEmpty DEF Increasing
<1>4. QED
  BY <1>1, <1>2, <1>3, NothingInEmpty DEF Ordered

(* Every step keeps the buffer, the batch and the handlers in order.         *)
LEMMA OrderedNext == TypeOK /\ Ordered /\ [Next]_vars => Ordered'
<1> SUFFICES ASSUME TypeOK, Ordered, [Next]_vars PROVE Ordered'
  OBVIOUS
<1> USE DeliveryAssumption
<1>0. AgentOK /\ HandlersOK /\ EngineOK
  BY TypeParts
<1>a. /\ in \in Seq(Lines) /\ batch \in Seq(Lines) /\ syslog \in Seq(SyslogEvents)
      /\ in \in Seq(Int) /\ batch \in Seq(Int)
      /\ Increasing(in) /\ Increasing(batch)
      /\ \A e \in Range(in) : \A d \in Range(batch) \union HandlerEvents : d < e
      /\ \A e \in Range(in) \union Range(batch) \union HandlerEvents : e <= read
  BY DEF Ordered, Lines
<1>b. \A r \in DOMAIN handlers : /\ handlers[r] \in Seq(Lines) /\ handlers[r] \in Seq(Int)
                                 /\ Increasing(handlers[r])
  BY DEF Ordered, Lines
<1>d. /\ Range(in) \subseteq Lines /\ Range(batch) \subseteq Lines
      /\ \A r \in DOMAIN handlers : Range(handlers[r]) \subseteq Lines
  BY <1>a, <1>b, RangeOfSeq
<1>e. HandlerEvents \subseteq Lines /\ Lines \subseteq Int /\ read \in Nat
  BY <1>0, <1>d DEF HandlerEvents, Lines, AgentOK
<1>c. ASSUME NEW H, handlers' = H, UNCHANGED <<in, batch, read>>,
             \A r \in DOMAIN H : H[r] \in Seq(Lines) /\ Increasing(H[r]),
             \A r \in DOMAIN H : Range(H[r]) \subseteq HandlerEvents \union Range(batch),
             syslog' \in Seq(SyslogEvents)
      PROVE  Ordered'
  <2>1. HandlerEvents' \subseteq HandlerEvents \union Range(batch)
    BY <1>c DEF HandlerEvents
  <2>2. QED
    BY <1>a, <1>c, <2>1 DEF Ordered
<1>1. CASE Submit
  <2>1. /\ read < NumLines /\ read' = read + 1 /\ UNCHANGED <<batch, handlers, syslog>>
        /\ in' = in \/ in' = Append(in, read + 1)
    BY <1>1 DEF Submit, ingest
  <2>2. read + 1 \in Lines
    BY <1>0, <2>1 DEF AgentOK, Lines
  <2>3. HandlerEvents' = HandlerEvents
    BY <2>1 DEF HandlerEvents
  <2>e. \A e \in Range(in) \union Range(batch) \union HandlerEvents : e \in Int /\ e < read + 1
    <3>1. ASSUME NEW e \in Range(in) \union Range(batch) \union HandlerEvents
          PROVE  e \in Int /\ e < read + 1
      <4>1. e \in Int /\ e <= read
        BY <1>a, <1>d, <1>e
      <4>2. QED
        BY <1>e, <4>1
    <3>2. QED
      BY <3>1
  <2>4. in' \in Seq(Lines) /\ Increasing(in') /\ Range(in') \subseteq Range(in) \union {read + 1}
    <3>1. CASE in' = in
      BY <1>a, <3>1
    <3>2. CASE in' = Append(in, read + 1)
      BY <1>a, <2>2, <2>e, <3>2, IncreasingAppend, PutLast DEF Lines
    <3>3. QED
      BY <2>1, <3>1, <3>2
  <2>5. \A e \in Range(in') : \A d \in Range(batch) \union HandlerEvents : d < e
    BY <1>a, <2>e, <2>4
  <2>6. \A e \in Range(in') \union Range(batch) \union HandlerEvents : e <= read + 1
    <3>1. ASSUME NEW e \in Range(in) \union Range(batch) \union HandlerEvents
          PROVE  e <= read + 1
      BY <1>e, <2>e
    <3>2. read + 1 <= read + 1
      BY <1>e
    <3>3. QED
      BY <2>4, <3>1, <3>2
  <2>7. QED
    BY <1>a, <1>b, <2>1, <2>3, <2>4, <2>5, <2>6 DEF Ordered
<1>2. CASE TakeEvent
  <2>1. /\ in # <<>> /\ batch' = Append(batch, Head(in)) /\ in' = Tail(in)
        /\ UNCHANGED <<read, handlers, syslog>>
    BY <1>2 DEF TakeEvent, ingest
  <2>2. /\ Head(in) \in Lines /\ Head(in) \in Int /\ Tail(in) \in Seq(Lines)
        /\ Range(in) = {Head(in)} \union Range(Tail(in))
    BY <1>a, <2>1, TakeFirst DEF Lines
  <2>3. Increasing(in') /\ \A e \in Range(in') : Head(in) < e
    BY <1>a, <2>1, IncreasingTail
  <2>4. /\ batch' \in Seq(Lines) /\ Increasing(batch')
        /\ Range(batch') = Range(batch) \union {Head(in)}
    <3>1. \A d \in Range(batch) : d < Head(in)
      BY <1>a, <2>2
    <3>2. Increasing(Append(batch, Head(in)))
      BY <1>a, <2>2, <3>1, IncreasingAppend
    <3>3. QED
      BY <1>a, <2>1, <2>2, <3>2, PutLast
  <2>5. HandlerEvents' = HandlerEvents
    BY <2>1 DEF HandlerEvents
  <2>6. QED
    BY <1>a, <1>b, <2>1, <2>2, <2>3, <2>4, <2>5 DEF Ordered
<1>3. CASE Send
  <2>1. /\ UNCHANGED <<read, in, batch, syslog>>
        /\ \/ \E r \in 1 .. MaxHandlers :
                 handlers' = [q \in DOMAIN handlers \union {r} |->
                                 IF q = r THEN batch ELSE handlers[q]]
           \/ handlers' = handlers
    BY <1>3 DEF Send
  <2>2. CASE handlers' = handlers
    BY <1>a, <1>b, <1>c, <2>1, <2>2 DEF HandlerEvents
  <2>3. ASSUME NEW r \in 1 .. MaxHandlers,
               handlers' = [q \in DOMAIN handlers \union {r} |->
                               IF q = r THEN batch ELSE handlers[q]]
        PROVE  Ordered'
    <3>1. \A q \in DOMAIN handlers' :
              handlers'[q] = batch \/ (q \in DOMAIN handlers /\ handlers'[q] = handlers[q])
      BY <2>3
    <3>2. \A q \in DOMAIN handlers : Range(handlers[q]) \subseteq HandlerEvents
      BY DEF HandlerEvents
    <3>3. \A q \in DOMAIN handlers' :
              /\ handlers'[q] \in Seq(Lines) /\ Increasing(handlers'[q])
              /\ Range(handlers'[q]) \subseteq HandlerEvents \union Range(batch)
      BY <1>a, <1>b, <3>1, <3>2
    <3>4. QED
      BY <1>a, <1>c, <2>1, <3>3
  <2>4. QED
    BY <2>1, <2>2, <2>3
<1>4. CASE PostSucceeds \/ AttemptFails \/ AgentStops
  <2>1. /\ in' = in \/ in' = <<>>
        /\ batch' = batch \/ batch' = <<>>
        /\ UNCHANGED <<read, handlers, syslog>>
    BY <1>4 DEF PostSucceeds, AttemptFails, AgentStops, ingest
  <2>2. Increasing(<<>>) /\ <<>> \in Seq(Lines) /\ Range(<<>>) = {}
    BY NothingInEmpty DEF Increasing
  <2>3. /\ in' \in Seq(Lines) /\ batch' \in Seq(Lines)
        /\ Increasing(in') /\ Increasing(batch')
    BY <1>a, <2>1, <2>2
  <2>4. /\ Range(in') \subseteq Range(in) /\ Range(batch') \subseteq Range(batch)
        /\ HandlerEvents' = HandlerEvents
    BY <2>1, <2>2 DEF HandlerEvents
  <2>5. QED
    BY <1>a, <1>b, <2>1, <2>3, <2>4 DEF Ordered
<1>5. CASE \E r \in DOMAIN handlers : PushEvent(r)
  <2>1. PICK r \in DOMAIN handlers : PushEvent(r)
    BY <1>5
  <2>2. /\ handlers[r] # <<>> /\ handlers' = [handlers EXCEPT ![r] = Tail(@)]
        /\ UNCHANGED <<read, in, batch, syslog>>
    BY <2>1 DEF PushEvent, agent
  <2>3. /\ Tail(handlers[r]) \in Seq(Lines) /\ Increasing(Tail(handlers[r]))
        /\ Range(Tail(handlers[r])) \subseteq Range(handlers[r])
    BY <1>b, <2>2, TakeFirst, IncreasingTail
  <2>4. \A q \in DOMAIN handlers' : /\ handlers'[q] \in Seq(Lines) /\ Increasing(handlers'[q])
                                    /\ Range(handlers'[q]) \subseteq HandlerEvents
    BY <1>b, <2>2, <2>3 DEF HandlerEvents
  <2>5. QED
    BY <1>a, <1>c, <2>2, <2>4
<1>6. CASE \E r \in DOMAIN handlers : Answer(r)
  <2>1. PICK r \in DOMAIN handlers : Answer(r)
    BY <1>6
  <2>2. /\ handlers' = [q \in DOMAIN handlers \ {r} |-> handlers[q]]
        /\ UNCHANGED <<read, in, batch, syslog>>
    BY <2>1 DEF Answer
  <2>3. QED
    <3>1. \A q \in DOMAIN handlers' : q \in DOMAIN handlers /\ handlers'[q] = handlers[q]
      BY <2>2
    <3>2. QED
      BY <1>a, <1>b, <1>c, <2>2, <3>1 DEF HandlerEvents
<1>7. CASE SyslogRead
  <2>1. /\ heard' = heard + 1 /\ syslog' = <<NumLines + heard'>> /\ heard < NumSyslog
        /\ UNCHANGED <<read, in, batch, handlers>>
    BY <1>7 DEF SyslogRead, agent
  <2>2. syslog' \in Seq(SyslogEvents)
    BY <1>0, <2>1 DEF EngineOK, SyslogEvents
  <2>3. QED
    BY <1>a, <1>b, <1>c, <2>1, <2>2 DEF HandlerEvents
<1>8. CASE EngineCrash
  <2>1. handlers' = <<>> /\ syslog' = <<>> /\ UNCHANGED <<read, in, batch>>
    BY <1>8 DEF EngineCrash
  <2>2. QED
    BY <1>c, <2>1, NothingInEmpty
<1>9. CASE TickFlush \/ SyslogPush \/ Evaluate \/ AddAlert \/ PipeTick \/ InsertReturns
           \/ UNCHANGED vars
  <2>1. UNCHANGED <<read, in, batch, handlers>> /\ (syslog' = syslog \/ syslog' = <<>>)
    BY <1>9 DEF TickFlush, SyslogPush, Evaluate, AddAlert, PipeTick, InsertReturns, vars,
                agent, ingest
  <2>2. syslog' \in Seq(SyslogEvents)
    <3>1. <<>> \in Seq(SyslogEvents)
      OBVIOUS
    <3>2. QED
      BY <1>a, <2>1, <3>1
  <2>3. QED
    BY <1>a, <1>b, <1>c, <2>1, <2>2 DEF HandlerEvents
<1>10. QED
  BY <1>1, <1>2, <1>3, <1>4, <1>5, <1>6, <1>7, <1>8, <1>9
     DEF Next, AgentLoop, PipelineLoop, Handler

(* An event that enters is counted once more, and no other is.               *)
LEMMA EnterCounts ==
    ASSUME entered \in [Events -> Nat], NEW e \in Events, Enter(e)
    PROVE  /\ entered' \in [Events -> Nat] /\ entered'[e] = entered[e] + 1
           /\ \A x \in Events : x # e => entered'[x] = entered[x]
           /\ \A x \in Events : entered[x] > 0 => entered'[x] > 0
<1>1. entered' = [entered EXCEPT ![e] = @ + 1]
  BY DEF Enter
<1>2. QED
  BY <1>1

(* A client waits for its own handler, and an answer means that all of the   *)
(* batch has entered.                                                        *)
LEMMA WaitingInit == Init => Waiting
BY DEF Init, Waiting

(* Every step keeps a waiting client's events where it can be answered for.  *)
LEMMA WaitingNext == TypeOK /\ Waiting /\ [Next]_vars => Waiting'
<1> SUFFICES ASSUME TypeOK, Waiting, [Next]_vars PROVE Waiting'
  OBVIOUS
<1>0. HandlersOK /\ HistoryOK /\ AgentOK /\ EngineOK
  BY TypeParts
<1>a. Range(batch) \subseteq Events
  BY <1>0, RangeOfSeq DEF AgentOK
<1>1. CASE Submit
  <2>1. phase # "stopped" /\ UNCHANGED <<batch, phase, conn, answered, handlers, entered>>
    BY <1>1 DEF Submit, ingest
  <2>2. QED
    BY <2>1 DEF Waiting
<1>2. CASE TakeEvent \/ TickFlush
  <2>1. phase = "select" /\ phase' \in {"select", "send"} /\ UNCHANGED <<conn, answered>>
    BY <1>2 DEF TakeEvent, TickFlush
  <2>2. conn' = 0 /\ ~answered'
    BY <2>1 DEF Waiting
  <2>3. QED
    BY <2>1, <2>2 DEF Waiting
<1>3. CASE Send
  <2>1. /\ phase = "send" /\ phase' = "wait" /\ UNCHANGED <<batch, answered, entered>>
        /\ \/ \E r \in 1 .. MaxHandlers \ DOMAIN handlers :
                 /\ conn' = r
                 /\ handlers' = [q \in DOMAIN handlers \union {r} |->
                                    IF q = r THEN batch ELSE handlers[q]]
           \/ UNCHANGED conn
    BY <1>3 DEF Send
  <2>2. conn = 0 /\ ~answered'
    BY <2>1 DEF Waiting
  <2>3. CASE UNCHANGED conn
    BY <2>1, <2>2, <2>3 DEF Waiting
  <2>4. ASSUME NEW r \in 1 .. MaxHandlers, conn' = r,
               handlers' = [q \in DOMAIN handlers \union {r} |->
                               IF q = r THEN batch ELSE handlers[q]]
        PROVE  Waiting'
    <3>1. conn' \in DOMAIN handlers' /\ handlers'[conn'] = batch
      BY <2>4
    <3>2. QED
      BY <2>1, <2>2, <3>1 DEF Waiting
  <2>5. QED
    BY <2>1, <2>3, <2>4
<1>4. CASE PostSucceeds \/ AttemptFails \/ AgentStops
  <2>1. /\ conn' = 0 /\ answered' = FALSE
        /\ phase' \in {"select", "send"} \/ (in' = <<>> /\ batch' = <<>>)
    BY <1>4 DEF PostSucceeds, AttemptFails, AgentStops
  <2>2. QED
    BY <2>1 DEF Waiting
<1>5. CASE \E r \in DOMAIN handlers : PushEvent(r)
  <2>1. PICK r \in DOMAIN handlers : PushEvent(r)
    BY <1>5
  <2>2. /\ handlers[r] # <<>> /\ handlers' = [handlers EXCEPT ![r] = Tail(@)]
        /\ Enter(Head(handlers[r])) /\ UNCHANGED <<in, batch, phase, conn, answered>>
    BY <2>1 DEF PushEvent, agent
  <2>3. Head(handlers[r]) \in Events
        /\ Range(handlers[r]) = {Head(handlers[r])} \union Range(Tail(handlers[r]))
    BY <1>0, <2>2, TakeFirst DEF HandlersOK
  <2>4. /\ entered'[Head(handlers[r])] > 0
        /\ \A x \in Events : entered[x] > 0 => entered'[x] > 0
    BY <1>0, <2>2, <2>3, EnterCounts DEF HistoryOK
  <2>5. ASSUME conn # 0, ~answered
        PROVE  /\ conn \in DOMAIN handlers'
               /\ \A e \in Range(batch) : e \in Range(handlers'[conn]) \/ entered'[e] > 0
    <3>1. conn \in DOMAIN handlers'
      BY <2>2, <2>5 DEF Waiting
    <3>2. ASSUME NEW e \in Range(batch)
          PROVE  e \in Range(handlers'[conn]) \/ entered'[e] > 0
      <4>1. e \in Range(handlers[conn]) \/ entered'[e] > 0
        BY <1>a, <2>4, <2>5 DEF Waiting
      <4>2. CASE conn = r
        BY <2>2, <2>3, <2>4, <4>1, <4>2
      <4>3. CASE conn # r
        BY <2>2, <2>5, <4>1, <4>3 DEF Waiting
      <4>4. QED
        BY <4>2, <4>3
    <3>3. QED
      BY <3>1, <3>2
  <2>6. answered => \A e \in Range(batch) : entered'[e] > 0
    BY <1>a, <2>4 DEF Waiting
  <2>7. QED
    BY <2>2, <2>5, <2>6 DEF Waiting
<1>6. CASE \E r \in DOMAIN handlers : Answer(r)
  <2>1. PICK r \in DOMAIN handlers : Answer(r)
    BY <1>6
  <2>2. /\ handlers[r] = <<>> /\ answered' = (answered \/ conn = r)
        /\ handlers' = [q \in DOMAIN handlers \ {r} |-> handlers[q]]
        /\ UNCHANGED <<in, batch, phase, conn, entered>>
    BY <2>1 DEF Answer
  <2>0. r # 0
    BY <1>0 DEF HandlersOK
  <2>3. phase # "wait" => ~answered'
    BY <2>0, <2>2 DEF Waiting
  <2>4. answered' => \A e \in Range(batch) : entered[e] > 0
    <3>1. CASE answered
      BY <3>1 DEF Waiting
    <3>2. CASE ~answered /\ conn = r
      BY <1>0, <2>2, <3>2, NothingInEmpty DEF Waiting, HandlersOK
    <3>3. QED
      BY <2>2, <3>1, <3>2
  <2>5. ASSUME conn # 0, ~answered'
        PROVE  conn \in DOMAIN handlers' /\ handlers'[conn] = handlers[conn]
    BY <2>2, <2>5 DEF Waiting
  <2>6. QED
    BY <2>2, <2>3, <2>4, <2>5 DEF Waiting
<1>7. CASE SyslogPush
  <2>1. /\ syslog # <<>> /\ Enter(Head(syslog))
        /\ UNCHANGED <<in, batch, phase, conn, answered, handlers>>
    BY <1>7 DEF SyslogPush, agent
  <2>2. Head(syslog) \in Events
    BY <1>0, <2>1, TakeFirst DEF EngineOK
  <2>3. \A x \in Events : entered[x] > 0 => entered'[x] > 0
    BY <1>0, <2>1, <2>2, EnterCounts DEF HistoryOK
  <2>4. QED
    BY <1>a, <2>1, <2>3 DEF Waiting
<1>8. CASE EngineCrash
  <2>1. conn' = 0 /\ answered' = FALSE /\ UNCHANGED <<in, batch, phase>>
    BY <1>8 DEF EngineCrash
  <2>2. QED
    BY <2>1 DEF Waiting
<1>9. CASE SyslogRead \/ Evaluate \/ AddAlert \/ PipeTick \/ InsertReturns \/ UNCHANGED vars
  <2>1. UNCHANGED <<in, batch, phase, conn, answered, handlers, entered>>
    BY <1>9 DEF SyslogRead, Evaluate, AddAlert, PipeTick, InsertReturns, vars, agent, ingest
  <2>2. QED
    BY <2>1 DEF Waiting
<1>10. QED
  BY <1>1, <1>2, <1>3, <1>4, <1>5, <1>6, <1>7, <1>8, <1>9
     DEF Next, AgentLoop, PipelineLoop, Handler

(* Nothing was sent before the start.                                       *)
LEMMA SendsCountedInit == Init => SendsCounted
<1> SUFFICES ASSUME Init PROVE SendsCounted
  OBVIOUS
<1> USE DeliveryAssumption
<1>1. /\ read = 0 /\ heard = 0 /\ in = <<>> /\ batch = <<>> /\ phase = "select"
      /\ handlers = <<>> /\ syslog = <<>> /\ entered = [e \in Events |-> 0]
  BY DEF Init
<1>2. \A e : Flight(e) = {}
  BY <1>1, NothingInEmpty DEF Flight
<1>3. Cardinality({}) = 0
  BY FS_EmptySet
<1>4. \A e \in Events : entered[e] = 0
  BY <1>1
<1>5. \A e \in Lines : SentSoFar(e) = 0
  BY <1>1 DEF SentSoFar, Lines
<1>6. \A e \in Lines : entered[e] + Cardinality(Flight(e)) <= SentSoFar(e)
  BY <1>2, <1>3, <1>4, <1>5 DEF Events
<1>7. QED
  BY <1>1, <1>4, <1>6, NothingInEmpty DEF SendsCounted, Events

(* A line is with at most as many handlers, entered copies included, as its  *)
(* post has had attempts, and at most MaxAttempts when the agent is done.    *)
LEMMA LinesCountedNext ==
    ASSUME TypeOK, Paced, Ordered, SendsCounted, [Next]_vars, NEW e \in Lines
    PROVE  entered'[e] + Cardinality(Flight(e)') <= SentSoFar(e)'
<1> USE DeliveryAssumption
<1>0. AgentOK /\ HandlersOK /\ HistoryOK /\ EngineOK
  BY TypeParts
<1>a. /\ e \in Int /\ e \in Events /\ read \in Nat /\ attempt \in 0 .. MaxAttempts
      /\ in \in Seq(Lines) /\ batch \in Seq(Lines)
  BY <1>0 DEF Lines, Events, AgentOK, Ordered
<1>b. e \in Range(batch) => e <= read /\ e \notin Range(in)
  <2>1. ASSUME e \in Range(batch), e \in Range(in) PROVE FALSE
    <3>1. e < e
      BY <2>1 DEF Ordered
    <3>2. QED
      BY <1>a, <3>1
  <2>2. QED
    BY <2>1 DEF Ordered
<1>c. /\ IsFiniteSet(1 .. MaxHandlers)
      /\ \A S \in SUBSET (1 .. MaxHandlers) : IsFiniteSet(S) /\ Cardinality(S) \in Nat
      /\ Flight(e) \subseteq 1 .. MaxHandlers
  <2>1. IsFiniteSet(1 .. MaxHandlers)
    BY FS_Interval
  <2>2. \A S \in SUBSET (1 .. MaxHandlers) : IsFiniteSet(S)
    BY <2>1, FS_Subset
  <2>3. \A S \in SUBSET (1 .. MaxHandlers) : Cardinality(S) \in Nat
    BY <2>2, FS_CardinalityType
  <2>4. QED
    BY <1>0, <2>1, <2>2, <2>3 DEF Flight, HandlersOK
<1>d. /\ entered[e] \in Nat /\ Cardinality(Flight(e)) \in Nat
      /\ SentSoFar(e) \in 0 .. MaxAttempts
      /\ entered[e] + Cardinality(Flight(e)) <= SentSoFar(e)
  <2>1. SentSoFar(e) \in 0 .. MaxAttempts
    BY <1>a DEF SentSoFar, Paced
  <2>2. QED
    BY <1>0, <1>a, <1>c, <2>1 DEF HistoryOK, SendsCounted
<1>e. ASSUME entered'[e] = entered[e], Flight(e)' \subseteq Flight(e),
             SentSoFar(e)' \in Nat, SentSoFar(e) <= SentSoFar(e)'
      PROVE  entered'[e] + Cardinality(Flight(e)') <= SentSoFar(e)'
  <2>1. Cardinality(Flight(e)') \in Nat /\ Cardinality(Flight(e)') <= Cardinality(Flight(e))
    BY <1>c, <1>e, FS_Subset, FS_CardinalityType
  <2>2. QED
    BY <1>d, <1>e, <2>1
<1>f. ASSUME UNCHANGED <<handlers, entered>>, SentSoFar(e)' \in Nat,
             SentSoFar(e) <= SentSoFar(e)'
      PROVE  entered'[e] + Cardinality(Flight(e)') <= SentSoFar(e)'
  <2>1. Flight(e)' = Flight(e)
    BY <1>f DEF Flight
  <2>2. QED
    BY <1>e, <1>f, <2>1
<1>g. UNCHANGED <<read, in, batch, phase, attempt>> => SentSoFar(e)' = SentSoFar(e)
  BY DEF SentSoFar
<1>1. CASE Submit
  <2>1. /\ read < NumLines /\ read' = read + 1
        /\ in' = in \/ in' = Append(in, read + 1)
        /\ UNCHANGED <<batch, phase, attempt, handlers, entered>>
    BY <1>1 DEF Submit, ingest
  <2>2. in' = Append(in, read + 1) => Range(in') = Range(in) \union {read + 1}
    BY <1>a, <2>1, PutLast DEF Lines
  <2>3. CASE e = read + 1
    <3>0. e > read
      BY <1>a, <2>3
    <3>1. SentSoFar(e) = 0
      BY <1>a, <1>b, <3>0 DEF SentSoFar
    <3>2. SentSoFar(e)' \in Nat
      BY <1>a, <2>1 DEF SentSoFar
    <3>3. QED
      BY <1>f, <2>1, <3>1, <3>2
  <2>4. CASE e # read + 1
    <3>1. (e > read <=> e > read') /\ (e \in Range(in) <=> e \in Range(in'))
      BY <1>a, <2>1, <2>2, <2>4
    <3>2. SentSoFar(e)' = SentSoFar(e)
      BY <2>1, <3>1 DEF SentSoFar
    <3>3. QED
      BY <1>d, <1>f, <2>1, <3>2
  <2>5. QED
    BY <2>3, <2>4
<1>2. CASE TakeEvent \/ TickFlush
  <2>1. /\ phase = "select" /\ phase' \in {"select", "send"} /\ attempt' = 0
        /\ (in # <<>> /\ in' = Tail(in) /\ batch' = Append(batch, Head(in)))
           \/ UNCHANGED <<in, batch>>
        /\ UNCHANGED <<read, handlers, entered>>
    BY <1>2 DEF TakeEvent, TickFlush, ingest
  <2>2. SentSoFar(e)' \in Nat
    BY <2>1 DEF SentSoFar
  <2>3. CASE UNCHANGED <<in, batch>>
    <3>1. SentSoFar(e) <= SentSoFar(e)'
      BY <1>d, <2>1, <2>3 DEF SentSoFar
    <3>2. QED
      BY <1>f, <2>1, <2>2, <3>1
  <2>4. CASE in # <<>> /\ in' = Tail(in) /\ batch' = Append(batch, Head(in))
    <3>1. /\ Head(in) \in Lines
          /\ Range(in) = {Head(in)} \union Range(in')
          /\ Range(batch') = Range(batch) \union {Head(in)}
      BY <1>a, <2>4, TakeFirst, PutLast
    <3>2. CASE SentSoFar(e) = 0
      BY <1>f, <2>1, <2>2, <3>2
    <3>3. CASE SentSoFar(e) # 0
      <4>1. ~(e > read) /\ e \notin Range(in) /\ e \notin Range(batch)
        BY <2>1, <3>3 DEF SentSoFar
      <4>2. ~(e > read') /\ e \notin Range(in') /\ e \notin Range(batch')
        BY <2>1, <3>1, <4>1
      <4>3. SentSoFar(e) = MaxAttempts /\ SentSoFar(e)' = MaxAttempts
        BY <4>1, <4>2 DEF SentSoFar
      <4>4. QED
        BY <1>f, <2>1, <4>3
    <3>4. QED
      BY <3>2, <3>3
  <2>5. QED
    BY <2>1, <2>3, <2>4
<1>3. CASE Send
  <2>1. /\ phase = "send" /\ phase' = "wait"
        /\ UNCHANGED <<read, in, batch, attempt, entered>>
        /\ \/ \E r \in 1 .. MaxHandlers \ DOMAIN handlers :
                 handlers' = [q \in DOMAIN handlers \union {r} |->
                                 IF q = r THEN batch ELSE handlers[q]]
           \/ UNCHANGED handlers
    BY <1>3 DEF Send
  <2>2. SentSoFar(e)' = IF e \in Range(batch) THEN SentSoFar(e) + 1 ELSE SentSoFar(e)
    BY <1>b, <2>1 DEF SentSoFar
  <2>3. CASE UNCHANGED handlers
    BY <1>d, <1>f, <2>1, <2>2, <2>3
  <2>4. ASSUME NEW r \in 1 .. MaxHandlers \ DOMAIN handlers,
               handlers' = [q \in DOMAIN handlers \union {r} |->
                               IF q = r THEN batch ELSE handlers[q]]
        PROVE  entered'[e] + Cardinality(Flight(e)') <= SentSoFar(e)'
    <3>1. CASE e \in Range(batch)
      <4>1. Flight(e)' = Flight(e) \union {r} /\ r \notin Flight(e)
        BY <2>4, <3>1 DEF Flight
      <4>2. Cardinality(Flight(e)') = Cardinality(Flight(e)) + 1
        BY <1>c, <4>1, FS_AddElement
      <4>3. QED
        BY <1>d, <2>1, <2>2, <3>1, <4>2
    <3>2. CASE e \notin Range(batch)
      <4>1. Flight(e)' = Flight(e)
        BY <2>4, <3>2 DEF Flight
      <4>2. QED
        BY <1>d, <2>1, <2>2, <3>2, <4>1
    <3>3. QED
      BY <3>1, <3>2
  <2>5. QED
    BY <2>1, <2>3, <2>4
<1>4. CASE PostSucceeds \/ AgentStops
  <2>1. /\ batch' = <<>> /\ (in' = in \/ in' = <<>>)
        /\ UNCHANGED <<read, handlers, entered>>
    BY <1>4 DEF PostSucceeds, AgentStops, ingest
  <2>2. ~(e > read \/ e \in Range(in)) => ~(e > read' \/ e \in Range(in'))
    BY <2>1, NothingInEmpty
  <2>3. SentSoFar(e)' = 0 \/ SentSoFar(e)' = MaxAttempts
    BY <2>1, NothingInEmpty DEF SentSoFar
  <2>4. SentSoFar(e) # 0 => SentSoFar(e)' = MaxAttempts
    <3>1. CASE e > read \/ e \in Range(in)
      BY <1>a, <1>b, <3>1 DEF SentSoFar
    <3>2. CASE ~(e > read \/ e \in Range(in))
      BY <2>1, <2>2, <3>2, NothingInEmpty DEF SentSoFar
    <3>3. QED
      BY <3>1, <3>2
  <2>5. QED
    BY <1>d, <1>f, <2>1, <2>3, <2>4
<1>5. CASE AttemptFails
  <2>1. /\ phase = "wait" /\ attempt' = attempt + 1
        /\ (phase' = "send" /\ UNCHANGED batch) \/ (phase' = "select" /\ batch' = <<>>)
        /\ UNCHANGED <<read, in, handlers, entered>>
    BY <1>5 DEF AttemptFails, ingest
  <2>2. SentSoFar(e)' = SentSoFar(e) \/ SentSoFar(e)' = MaxAttempts
    BY <1>b, <2>1, NothingInEmpty DEF SentSoFar
  <2>3. QED
    BY <1>d, <1>f, <2>1, <2>2
<1>6. CASE \E r \in DOMAIN handlers : PushEvent(r)
  <2>1. PICK r \in DOMAIN handlers : PushEvent(r)
    BY <1>6
  <2> DEFINE h == Head(handlers[r])
  <2>2. /\ handlers[r] # <<>> /\ handlers' = [handlers EXCEPT ![r] = Tail(@)]
        /\ Enter(h) /\ UNCHANGED <<read, in, batch, phase, attempt>>
    BY <2>1 DEF PushEvent, agent
  <2>3. handlers[r] \in Seq(Lines) /\ handlers[r] \in Seq(Int) /\ Increasing(handlers[r])
    BY DEF Ordered, Lines
  <2>4. /\ h \in Lines /\ h \in Events /\ h \in Int
        /\ Range(handlers[r]) = {h} \union Range(Tail(handlers[r]))
    BY <2>2, <2>3, TakeFirst DEF Lines, Events
  <2>5. h \notin Range(Tail(handlers[r]))
    BY <2>2, <2>3, <2>4, IncreasingTail
  <2>6. entered'[h] = entered[h] + 1 /\ \A x \in Events : x # h => entered'[x] = entered[x]
    BY <1>0, <2>2, <2>4, EnterCounts DEF HistoryOK
  <2>7. DOMAIN handlers' = DOMAIN handlers
        /\ \A q \in DOMAIN handlers : handlers'[q] = IF q = r THEN Tail(handlers[r]) ELSE handlers[q]
    BY <2>2
  <2>8. CASE e = h
    <3>1. Flight(e)' = Flight(e) \ {r} /\ r \in Flight(e)
      BY <2>4, <2>5, <2>7, <2>8 DEF Flight
    <3>2. Cardinality(Flight(e)') = Cardinality(Flight(e)) - 1
      BY <1>c, <3>1, FS_RemoveElement
    <3>3. entered'[e] = entered[e] + 1
      BY <2>6, <2>8
    <3>4. SentSoFar(e)' = SentSoFar(e)
      BY <1>g, <2>2
    <3> HIDE DEF h
    <3>5. QED
      BY <1>d, <3>2, <3>3, <3>4
  <2>9. CASE e # h
    <3>1. Flight(e)' = Flight(e)
      BY <2>4, <2>7, <2>9 DEF Flight
    <3>2. entered'[e] = entered[e]
      BY <1>a, <2>6, <2>9
    <3>3. SentSoFar(e)' = SentSoFar(e)
      BY <1>g, <2>2
    <3> HIDE DEF h
    <3>4. QED
      BY <1>d, <3>1, <3>2, <3>3
  <2>10. QED
    BY <2>8, <2>9
<1>7. CASE \E r \in DOMAIN handlers : Answer(r)
  <2>1. PICK r \in DOMAIN handlers : Answer(r)
    BY <1>7
  <2>2. /\ handlers' = [q \in DOMAIN handlers \ {r} |-> handlers[q]]
        /\ UNCHANGED <<read, in, batch, phase, attempt, entered>>
    BY <2>1 DEF Answer
  <2>3. Flight(e)' \subseteq Flight(e)
    BY <2>2 DEF Flight
  <2>4. QED
    BY <1>d, <1>e, <1>g, <2>2, <2>3
<1>8. CASE SyslogPush
  <2>1. /\ syslog # <<>> /\ Enter(Head(syslog))
        /\ UNCHANGED <<read, in, batch, phase, attempt, handlers>>
    BY <1>8 DEF SyslogPush, agent
  <2>2. Head(syslog) \in SyslogEvents
    BY <2>1, TakeFirst DEF Ordered
  <2>3. Head(syslog) \in Events /\ Head(syslog) # e
    BY <1>a, <2>2 DEF Events, Lines, SyslogEvents
  <2>4. entered'[e] = entered[e]
    BY <1>0, <1>a, <2>1, <2>3, EnterCounts DEF HistoryOK
  <2>5. Flight(e)' = Flight(e)
    BY <2>1 DEF Flight
  <2>6. QED
    BY <1>d, <1>e, <1>g, <2>1, <2>4, <2>5
<1>9. CASE EngineCrash
  <2>1. handlers' = <<>> /\ UNCHANGED <<read, in, batch, phase, attempt, entered>>
    BY <1>9 DEF EngineCrash
  <2>2. Flight(e)' \subseteq Flight(e)
    BY <2>1, NothingInEmpty DEF Flight
  <2>3. QED
    BY <1>d, <1>e, <1>g, <2>1, <2>2
<1>10. CASE SyslogRead \/ Evaluate \/ AddAlert \/ PipeTick \/ InsertReturns \/ UNCHANGED vars
  <2>1. UNCHANGED <<read, in, batch, phase, attempt, handlers, entered>>
    BY <1>10 DEF SyslogRead, Evaluate, AddAlert, PipeTick, InsertReturns, vars, agent, ingest
  <2>2. QED
    BY <1>d, <1>f, <1>g, <2>1
<1>11. QED
  BY <1>1, <1>2, <1>3, <1>4, <1>5, <1>6, <1>7, <1>8, <1>9, <1>10
     DEF Next, AgentLoop, PipelineLoop, Handler

(* A syslog message enters once, from the listener's goroutine alone.        *)
LEMMA SyslogCountedNext ==
    ASSUME TypeOK, Ordered, SendsCounted, [Next]_vars, NEW e \in SyslogEvents
    PROVE  /\ e \in Range(syslog') => e <= NumLines + heard'
           /\ e > NumLines + heard' \/ e \in Range(syslog') => entered'[e] = 0
           /\ entered'[e] <= 1
<1> USE DeliveryAssumption
<1>0. HandlersOK /\ HistoryOK /\ EngineOK
  BY TypeParts
<1>a. /\ e \in Int /\ e \in Events /\ heard \in 0 .. NumSyslog
      /\ syslog \in Seq(SyslogEvents) /\ Len(syslog) <= 1
  BY <1>0 DEF SyslogEvents, Events, EngineOK, Ordered
<1>b. /\ e \in Range(syslog) => e <= NumLines + heard
      /\ e > NumLines + heard \/ e \in Range(syslog) => entered[e] = 0
      /\ entered[e] <= 1 /\ entered[e] \in Nat
  BY <1>0, <1>a DEF SendsCounted, HistoryOK
<1>1. CASE SyslogRead
  <2>1. heard' = heard + 1 /\ syslog' = <<NumLines + heard'>> /\ UNCHANGED entered
    BY <1>1 DEF SyslogRead
  <2>2. Range(syslog') = {NumLines + (heard + 1)}
    BY <2>1 DEF Range
  <2>3. e \in Range(syslog') => e <= NumLines + heard' /\ e > NumLines + heard
    BY <1>a, <2>1, <2>2
  <2>4. e > NumLines + heard' => e > NumLines + heard
    BY <1>a, <2>1
  <2>5. QED
    BY <1>b, <2>1, <2>3, <2>4
<1>2. CASE SyslogPush
  <2>1. syslog # <<>> /\ Enter(Head(syslog)) /\ syslog' = <<>> /\ UNCHANGED heard
    BY <1>2 DEF SyslogPush
  <2>2. Head(syslog) \in SyslogEvents /\ Head(syslog) \in Events
        /\ Head(syslog) \in Range(syslog)
    BY <1>a, <2>1, TakeFirst DEF Events
  <2>3. /\ entered'[Head(syslog)] = entered[Head(syslog)] + 1
        /\ \A x \in Events : x # Head(syslog) => entered'[x] = entered[x]
    BY <1>0, <2>1, <2>2, EnterCounts DEF HistoryOK
  <2>4. CASE e = Head(syslog)
    <3>1. entered[e] = 0 /\ ~(e > NumLines + heard)
      BY <1>a, <1>b, <2>2, <2>4
    <3>2. QED
      BY <2>1, <2>3, <2>4, <3>1, NothingInEmpty
  <2>5. CASE e # Head(syslog)
    <3>1. entered'[e] = entered[e]
      BY <1>a, <2>3, <2>5
    <3>2. QED
      BY <1>b, <2>1, <3>1, NothingInEmpty
  <2>6. QED
    BY <2>4, <2>5
<1>3. CASE \E r \in DOMAIN handlers : PushEvent(r)
  <2>1. PICK r \in DOMAIN handlers : PushEvent(r)
    BY <1>3
  <2>2. handlers[r] # <<>> /\ Enter(Head(handlers[r])) /\ UNCHANGED <<heard, syslog>>
    BY <2>1 DEF PushEvent
  <2>3. Head(handlers[r]) \in Lines
    BY <2>2, TakeFirst DEF Ordered
  <2>4. Head(handlers[r]) \in Events /\ Head(handlers[r]) # e
    BY <1>a, <2>3 DEF Events, Lines, SyslogEvents
  <2>5. entered'[e] = entered[e]
    BY <1>0, <1>a, <2>2, <2>4, EnterCounts DEF HistoryOK
  <2>6. QED
    BY <1>b, <2>2, <2>5
<1>4. CASE EngineCrash
  <2>1. syslog' = <<>> /\ UNCHANGED <<heard, entered>>
    BY <1>4 DEF EngineCrash
  <2>2. QED
    BY <1>b, <2>1, NothingInEmpty
<1>5. ASSUME UNCHANGED <<heard, syslog, entered>>
      PROVE  /\ e \in Range(syslog') => e <= NumLines + heard'
             /\ e > NumLines + heard' \/ e \in Range(syslog') => entered'[e] = 0
             /\ entered'[e] <= 1
  BY <1>b, <1>5
<1>6. CASE \/ Submit \/ AgentLoop \/ AgentStops \/ PipelineLoop \/ UNCHANGED vars
           \/ \E r \in DOMAIN handlers : Answer(r)
  <2>1. UNCHANGED <<heard, syslog, entered>>
    BY <1>6 DEF Submit, AgentLoop, TakeEvent, TickFlush, Send, PostSucceeds, AttemptFails,
                AgentStops, PipelineLoop, Evaluate, AddAlert, PipeTick, InsertReturns,
                Answer, vars, ingest
  <2>2. QED
    BY <1>5, <2>1
<1>7. QED
  BY <1>1, <1>2, <1>3, <1>4, <1>6 DEF Next, Handler

(* Every step keeps the count of sends, for lines and for messages.          *)
LEMMA SendsCountedNext ==
    TypeOK /\ Paced /\ Ordered /\ SendsCounted /\ [Next]_vars => SendsCounted'
<1> SUFFICES ASSUME TypeOK, Paced, Ordered, SendsCounted, [Next]_vars PROVE SendsCounted'
  OBVIOUS
<1>1. \A e \in Lines : (entered[e] + Cardinality(Flight(e)) <= SentSoFar(e))'
  BY LinesCountedNext
<1>2. \A e \in SyslogEvents :
         /\ e \in Range(syslog') => e <= NumLines + heard'
         /\ e > NumLines + heard' \/ e \in Range(syslog') => entered'[e] = 0
         /\ entered'[e] <= 1
  BY SyslogCountedNext
<1>3. QED
  BY <1>1, <1>2 DEF SendsCounted

(* The inductive invariant, in every reachable state.                        *)
THEOREM DeliveryInvariant == Spec => []DeliveryInv
<1>1. Init => DeliveryInv
  BY TypeOKInit, PacedInit, OrderedInit, WaitingInit, SendsCountedInit DEF DeliveryInv
<1>2. DeliveryInv /\ [Next]_vars => DeliveryInv'
  BY TypeOKNext, PacedNext, OrderedNext, WaitingNext, SendsCountedNext DEF DeliveryInv
<1>3. QED
  BY <1>1, <1>2, PTL DEF Spec

-----------------------------------------------------------------------------
(* Delivery: what was answered has entered                                  *)

(* A post that comes back with a 202 was pushed to the pipeline event for    *)
(* event, although the handler may have outlived other attempts, the engine  *)
(* a crash, and the agent only ever sees the answer.                         *)
THEOREM AnsweredMeansEntered == Spec => []AckedEntered
<1>1. Init => AckedEntered
  BY DEF Init, AckedEntered
<1>2. DeliveryInv /\ AckedEntered /\ [Next]_vars => AckedEntered'
  <2> SUFFICES ASSUME DeliveryInv, AckedEntered, [Next]_vars PROVE AckedEntered'
    OBVIOUS
  <2>0. TypeOK /\ Waiting /\ HistoryOK /\ HandlersOK /\ EngineOK
    BY TypeParts DEF DeliveryInv
  <2>1. CASE PostSucceeds
    <3>1. answered /\ acked' = acked \union Range(batch) /\ UNCHANGED entered
      BY <2>1 DEF PostSucceeds
    <3>2. \A e \in Range(batch) : entered[e] > 0
      BY <2>0, <3>1 DEF Waiting
    <3>3. QED
      BY <3>1, <3>2 DEF AckedEntered
  <2>2. ASSUME NEW e \in Events, Enter(e), UNCHANGED acked PROVE AckedEntered'
    <3>1. \A x \in Events : entered[x] > 0 => entered'[x] > 0
      BY <2>0, <2>2, EnterCounts DEF HistoryOK
    <3>2. QED
      BY <2>0, <2>2, <3>1 DEF AckedEntered, HistoryOK
  <2>3. CASE \E r \in DOMAIN handlers : PushEvent(r)
    <3>1. PICK r \in DOMAIN handlers : PushEvent(r)
      BY <2>3
    <3>2. handlers[r] # <<>> /\ Enter(Head(handlers[r])) /\ UNCHANGED acked
      BY <3>1 DEF PushEvent
    <3>3. Head(handlers[r]) \in Events
      BY <2>0, <3>2, TakeFirst DEF HandlersOK
    <3>4. QED
      BY <2>2, <3>2, <3>3
  <2>4. CASE SyslogPush
    <3>1. syslog # <<>> /\ Enter(Head(syslog)) /\ UNCHANGED acked
      BY <2>4 DEF SyslogPush
    <3>2. Head(syslog) \in Events
      BY <2>0, <3>1, TakeFirst DEF EngineOK
    <3>3. QED
      BY <2>2, <3>1, <3>2
  <2>5. CASE \/ Submit \/ TakeEvent \/ TickFlush \/ Send \/ AttemptFails \/ AgentStops
             \/ SyslogRead \/ PipelineLoop \/ EngineCrash \/ UNCHANGED vars
             \/ \E r \in DOMAIN handlers : Answer(r)
    <3>1. UNCHANGED <<acked, entered>>
      BY <2>5 DEF Submit, TakeEvent, TickFlush, Send, AttemptFails, AgentStops, SyslogRead,
                  PipelineLoop, Evaluate, AddAlert, PipeTick, InsertReturns, EngineCrash,
                  Answer, vars
    <3>2. QED
      BY <3>1 DEF AckedEntered
  <2>6. QED
    BY <2>1, <2>3, <2>4, <2>5 DEF Next, AgentLoop, Handler
<1>3. QED
  BY <1>1, <1>2, DeliveryInvariant, PTL DEF Spec

-----------------------------------------------------------------------------
(* Delivery: nothing vanishes                                              *)

(* What leaves the agent's buffer or batch, or a handler, without having     *)
(* entered, is counted as lost at the same step.                             *)
LEMMA EventsKept == DeliveryInv /\ NoEventVanishes /\ [Next]_vars => NoEventVanishes'
<1> SUFFICES ASSUME DeliveryInv, NoEventVanishes, [Next]_vars, NEW e \in Arrived'
             PROVE  (e \in OnTheWay \/ entered[e] > 0 \/ e \in lost)'
  BY DEF NoEventVanishes
<1> USE DeliveryAssumption
<1>0. /\ TypeOK /\ Ordered /\ Waiting
      /\ AgentOK /\ HandlersOK /\ EngineOK /\ HistoryOK
  BY TypeParts DEF DeliveryInv
<1>a. /\ in \in Seq(Events) /\ batch \in Seq(Events) /\ syslog \in Seq(Events)
      /\ Len(syslog) <= 1
      /\ read \in 0 .. NumLines /\ heard \in 0 .. NumSyslog
      /\ entered \in [Events -> Nat]
  BY <1>0 DEF AgentOK, EngineOK, HistoryOK
<1>b. e \in Arrived => e \in Events
  BY <1>a DEF Arrived, Events, Lines, SyslogEvents
<1>c. e \in Arrived =>
         \/ e \in Range(in) \/ e \in Range(batch) \/ e \in HandlerEvents
         \/ e \in Range(syslog) \/ entered[e] > 0 \/ e \in lost
  BY DEF NoEventVanishes, OnTheWay
<1>1. CASE Submit
  <2>1. /\ read' = read + 1 /\ UNCHANGED <<batch, handlers, heard, syslog, entered>>
        /\ \/ in' = Append(in, read + 1) /\ UNCHANGED lost
           \/ lost' = lost \union {read + 1} /\ UNCHANGED in
    BY <1>1 DEF Submit, ingest
  <2>2. read + 1 \in Events
    BY <1>1, <1>a DEF Submit, Events, Lines
  <2>3. in' = Append(in, read + 1) => Range(in') = Range(in) \union {read + 1}
    BY <1>a, <2>2, PutLast
  <2>4. e \in Arrived \/ e = read + 1
    BY <1>a, <2>1 DEF Arrived
  <2>5. QED
    BY <1>c, <2>1, <2>3, <2>4 DEF OnTheWay, HandlerEvents
<1>2. CASE TakeEvent
  <2>1. /\ in # <<>> /\ batch' = Append(batch, Head(in)) /\ in' = Tail(in)
        /\ UNCHANGED <<read, handlers, heard, syslog, entered, lost>>
    BY <1>2 DEF TakeEvent, ingest
  <2>2. /\ Range(in) = {Head(in)} \union Range(in')
        /\ Range(batch') = Range(batch) \union {Head(in)}
    BY <1>a, <2>1, TakeFirst, PutLast
  <2>3. e \in Arrived
    BY <2>1 DEF Arrived
  <2>4. QED
    BY <1>c, <2>1, <2>2, <2>3 DEF OnTheWay, HandlerEvents
<1>3. CASE Send
  <2>1. /\ UNCHANGED <<read, in, batch, heard, syslog, entered, lost>>
        /\ \/ \E r \in 1 .. MaxHandlers \ DOMAIN handlers :
                 handlers' = [q \in DOMAIN handlers \union {r} |->
                                 IF q = r THEN batch ELSE handlers[q]]
           \/ UNCHANGED handlers
    BY <1>3 DEF Send
  <2>2. HandlerEvents \subseteq HandlerEvents'
    BY <2>1 DEF HandlerEvents
  <2>3. e \in Arrived
    BY <2>1 DEF Arrived
  <2>4. QED
    BY <1>c, <2>1, <2>2, <2>3 DEF OnTheWay
<1>4. CASE PostSucceeds \/ AttemptFails \/ AgentStops
  <2>1. /\ \/ UNCHANGED in
           \/ Range(in) \subseteq lost'
        /\ \/ UNCHANGED batch
           \/ \A x \in Range(batch) : entered[x] > 0
           \/ Range(batch) \subseteq lost'
        /\ lost \subseteq lost'
        /\ UNCHANGED <<read, handlers, heard, syslog, entered>>
    BY <1>0, <1>4 DEF PostSucceeds, AttemptFails, AgentStops, ingest, Waiting
  <2>2. e \in Arrived
    BY <2>1 DEF Arrived
  <2>3. QED
    BY <1>c, <2>1, <2>2 DEF OnTheWay, HandlerEvents
<1>5. CASE \E r \in DOMAIN handlers : PushEvent(r)
  <2>1. PICK r \in DOMAIN handlers : PushEvent(r)
    BY <1>5
  <2>2. /\ handlers[r] # <<>> /\ handlers' = [handlers EXCEPT ![r] = Tail(@)]
        /\ Enter(Head(handlers[r])) /\ UNCHANGED <<read, in, batch, heard, syslog, lost>>
    BY <2>1 DEF PushEvent, agent
  <2>3. /\ Head(handlers[r]) \in Events
        /\ Range(handlers[r]) = {Head(handlers[r])} \union Range(Tail(handlers[r]))
    BY <1>0, <2>2, TakeFirst DEF HandlersOK
  <2>4. /\ entered'[Head(handlers[r])] > 0
        /\ \A x \in Events : entered[x] > 0 => entered'[x] > 0
    BY <1>0, <2>2, <2>3, EnterCounts DEF HistoryOK
  <2>5. \A x \in HandlerEvents : x \in HandlerEvents' \/ x = Head(handlers[r])
    BY <2>2, <2>3 DEF HandlerEvents
  <2>6. e \in Arrived
    BY <2>2 DEF Arrived
  <2>7. QED
    BY <1>b, <1>c, <2>2, <2>4, <2>5, <2>6 DEF OnTheWay
<1>6. CASE \E r \in DOMAIN handlers : Answer(r)
  <2>1. PICK r \in DOMAIN handlers : Answer(r)
    BY <1>6
  <2>2. /\ handlers[r] = <<>> /\ handlers' = [q \in DOMAIN handlers \ {r} |-> handlers[q]]
        /\ UNCHANGED <<read, in, batch, heard, syslog, entered, lost>>
    BY <2>1 DEF Answer
  <2>3. HandlerEvents \subseteq HandlerEvents'
    BY <2>2, NothingInEmpty DEF HandlerEvents
  <2>4. e \in Arrived
    BY <2>2 DEF Arrived
  <2>5. QED
    BY <1>c, <2>2, <2>3, <2>4 DEF OnTheWay
<1>7. CASE SyslogRead
  <2>1. /\ syslog = <<>> /\ heard' = heard + 1 /\ syslog' = <<NumLines + heard'>>
        /\ UNCHANGED <<read, in, batch, handlers, entered, lost>>
    BY <1>7 DEF SyslogRead, agent
  <2>2. Range(syslog') = {NumLines + heard'}
    BY <2>1 DEF Range
  <2>3. e \in Arrived \/ e = NumLines + heard'
    BY <1>a, <2>1 DEF Arrived
  <2>4. QED
    BY <1>c, <2>1, <2>2, <2>3, NothingInEmpty DEF OnTheWay, HandlerEvents
<1>8. CASE SyslogPush
  <2>1. /\ syslog # <<>> /\ Enter(Head(syslog)) /\ syslog' = <<>>
        /\ UNCHANGED <<read, in, batch, handlers, heard, lost>>
    BY <1>8 DEF SyslogPush, agent
  <2>2. /\ Head(syslog) \in Events /\ Range(syslog) = {Head(syslog)} \union Range(Tail(syslog))
        /\ DOMAIN Tail(syslog) = 1 .. Len(syslog) - 1 /\ Len(syslog) \in Nat
    BY <1>a, <2>1, TakeFirst
  <2>3. Range(syslog) = {Head(syslog)}
    <3>1. DOMAIN Tail(syslog) = {}
      BY <1>a, <2>2
    <3>2. QED
      BY <2>2, <3>1 DEF Range
  <2>4. /\ entered'[Head(syslog)] > 0
        /\ \A x \in Events : entered[x] > 0 => entered'[x] > 0
    BY <1>a, <2>1, <2>2, EnterCounts
  <2>5. e \in Arrived
    BY <2>1 DEF Arrived
  <2>6. QED
    BY <1>b, <1>c, <2>1, <2>3, <2>4, <2>5 DEF OnTheWay, HandlerEvents
<1>9. CASE EngineCrash
  <2>1. /\ lost \subseteq lost' /\ HandlerEvents \subseteq lost' /\ Range(syslog) \subseteq lost'
        /\ UNCHANGED <<read, in, batch, heard, entered>>
    BY <1>9 DEF EngineCrash
  <2>2. e \in Arrived
    BY <2>1 DEF Arrived
  <2>3. QED
    BY <1>c, <2>1, <2>2 DEF OnTheWay
<1>10. CASE TickFlush \/ PipelineLoop \/ UNCHANGED vars
  <2>1. /\ UNCHANGED <<read, in, batch, handlers, heard, syslog, entered>>
        /\ lost \subseteq lost'
    BY <1>10 DEF TickFlush, PipelineLoop, Evaluate, AddAlert, PipeTick, InsertReturns, vars,
                 agent, ingest
  <2>2. e \in Arrived
    BY <2>1 DEF Arrived
  <2>3. QED
    BY <1>c, <2>1, <2>2 DEF OnTheWay, HandlerEvents
<1>11. QED
  BY <1>1, <1>2, <1>3, <1>4, <1>5, <1>6, <1>7, <1>8, <1>9, <1>10
     DEF Next, AgentLoop, Handler

(* Counting an event in a channel that is extended, shortened or empty.      *)
LEMMA CountInAppend ==
    ASSUME NEW S, NEW s \in Seq(S), NEW x \in S, NEW e
    PROVE  CountIn(Append(s, x), e) = CountIn(s, e) + IF x = e THEN 1 ELSE 0
<1> DEFINE P == {i \in DOMAIN s : s[i] = e}
           Q == {i \in DOMAIN Append(s, x) : Append(s, x)[i] = e}
<1>1. /\ Len(s) \in Nat /\ DOMAIN s = 1 .. Len(s)
      /\ DOMAIN Append(s, x) = 1 .. Len(s) + 1
      /\ \A i \in 1 .. Len(s) : Append(s, x)[i] = s[i]
      /\ Append(s, x)[Len(s) + 1] = x
  BY PutLast
<1>2. IsFiniteSet(P) /\ Cardinality(P) \in Nat
  BY CountInType DEF CountIn
<1>3. \A i \in 1 .. Len(s) + 1 : i \in 1 .. Len(s) \/ i = Len(s) + 1
  BY <1>1
<1>4. 1 .. Len(s) \subseteq 1 .. Len(s) + 1 /\ Len(s) + 1 \in 1 .. Len(s) + 1
      /\ Len(s) + 1 \notin 1 .. Len(s)
  BY <1>1
<1>5. CASE x = e
  <2>1. Q = P \union {Len(s) + 1} /\ Len(s) + 1 \notin P
    BY <1>1, <1>3, <1>4, <1>5
  <2>2. Cardinality(Q) = Cardinality(P) + 1
    BY <1>2, <2>1, FS_AddElement
  <2>3. QED
    BY <1>5, <2>2 DEF CountIn
<1>6. CASE x # e
  <2>1. Q = P
    BY <1>1, <1>3, <1>4, <1>6
  <2>2. CountIn(s, e) = Cardinality(P) /\ CountIn(Append(s, x), e) = Cardinality(Q)
    BY DEF CountIn
  <2> HIDE DEF P, Q
  <2>3. Cardinality(Q) = Cardinality(P) + 0
    BY <1>2, <2>1
  <2>4. QED
    BY <1>6, <2>2, <2>3
<1>7. QED
  BY <1>5, <1>6

(* The first one counts once.                                               *)
LEMMA CountInTail ==
    ASSUME NEW S, NEW s \in Seq(S), s # <<>>, NEW e
    PROVE  CountIn(s, e) = CountIn(Tail(s), e) + IF Head(s) = e THEN 1 ELSE 0
<1> DEFINE P == {i \in DOMAIN Tail(s) : Tail(s)[i] = e}
           Q == {i \in DOMAIN s : s[i] = e}
           R == Q \ {1}
           shift == [i \in P |-> i + 1]
<1>1. /\ Head(s) = s[1] /\ Tail(s) \in Seq(S) /\ Len(s) \in Nat \ {0}
      /\ DOMAIN s = 1 .. Len(s) /\ DOMAIN Tail(s) = 1 .. Len(s) - 1
      /\ \A i \in 1 .. Len(s) - 1 : Tail(s)[i] = s[i + 1]
  BY TakeFirst
<1>2. IsFiniteSet(P) /\ Cardinality(P) \in Nat
  BY <1>1, CountInType DEF CountIn
<1>3. \A i \in 1 .. Len(s) - 1 : i + 1 \in 1 .. Len(s) /\ i + 1 # 1 /\ i \in Int
  BY <1>1
<1>4. \A j \in 1 .. Len(s) : j # 1 => j - 1 \in 1 .. Len(s) - 1 /\ (j - 1) + 1 = j
  BY <1>1
<1>5. shift \in [P -> R]
  BY <1>1, <1>3
<1>6. \A a, b \in P : shift[a] = shift[b] => a = b
  BY <1>1, <1>3
<1>7. \A j \in R : j - 1 \in P /\ shift[j - 1] = j
  BY <1>1, <1>4
<1>8. ExistsBijection(P, R)
  <2>1. shift \in Injection(P, R)
    BY <1>5, <1>6 DEF Injection, IsInjective
  <2>2. shift \in Surjection(P, R)
    BY <1>5, <1>7 DEF Surjection
  <2>3. QED
    BY <2>1, <2>2 DEF ExistsBijection, Bijection
<1>9. IsFiniteSet(R) /\ Cardinality(R) = Cardinality(P)
  BY <1>2, <1>8, FS_Bijection
<1>10. CASE Head(s) = e
  <2>1. Q = R \union {1} /\ 1 \notin R
    BY <1>1, <1>10
  <2>2. Cardinality(Q) = Cardinality(R) + 1
    BY <1>9, <2>1, FS_AddElement
  <2>3. QED
    BY <1>9, <1>10, <2>2 DEF CountIn
<1>11. CASE Head(s) # e
  <2>1. Q = R
    BY <1>1, <1>11
  <2>2. CountIn(s, e) = Cardinality(Q) /\ CountIn(Tail(s), e) = Cardinality(P)
    BY DEF CountIn
  <2> HIDE DEF P, Q, R
  <2>3. Cardinality(Q) = Cardinality(P) + 0
    BY <1>2, <1>9, <2>1
  <2>4. QED
    BY <1>11, <2>2, <2>3
<1>12. QED
  BY <1>10, <1>11

(* What is not in a channel counts nothing.                                  *)
LEMMA CountInNone ==
    ASSUME NEW s, NEW e, e \notin Range(s)
    PROVE  CountIn(s, e) = 0
<1>1. {i \in DOMAIN s : s[i] = e} = {}
  BY DEF Range
<1>2. QED
  BY <1>1, FS_EmptySet DEF CountIn

(* The alerts of one event are as many as its rules raise.                   *)
LEMMA CountInCopies ==
    ASSUME NEW n \in Nat, NEW x, NEW e, NEW s,
           DOMAIN s = 1 .. n, \A k \in 1 .. n : s[k] = x
    PROVE  CountIn(s, e) = IF x = e THEN n ELSE 0
<1>1. CASE x = e
  <2>1. {i \in DOMAIN s : s[i] = e} = 1 .. n
    BY <1>1
  <2>2. Cardinality(1 .. n) = n
    BY FS_Interval
  <2>3. QED
    BY <1>1, <2>1, <2>2 DEF CountIn
<1>2. CASE x # e
  <2>1. e \notin Range(s)
    BY <1>2 DEF Range
  <2>2. QED
    BY <1>2, <2>1, CountInNone
<1>3. QED
  BY <1>1, <1>2

(* Of a copy that went through the rules, each alert is pending, in the      *)
(* batch or inserted, as often as the copy left the channel.                 *)
LEMMA AlertsKept == TypeOK /\ NoAlertVanishes /\ [Next]_vars => NoAlertVanishes'
<1> SUFFICES ASSUME TypeOK, NoAlertVanishes, [Next]_vars,
                    NEW e \in Events, e \notin lost'
             PROVE  CountIn(pending', e) + CountIn(alertBatch', e) + stored'[e]
                        = AlertsOf[e] * (entered'[e] - CountIn(pipe', e))
  BY DEF NoAlertVanishes
<1> USE DeliveryAssumption
<1>0. HandlersOK /\ EngineOK /\ HistoryOK
  BY TypeParts
<1>a. /\ pipe \in Seq(Events) /\ pending \in Seq(Events) /\ alertBatch \in Seq(Events)
      /\ syslog \in Seq(Events)
  BY <1>0 DEF EngineOK
<1> DEFINE cPending == CountIn(pending, e)
           cBatch == CountIn(alertBatch, e)
           cPipe == CountIn(pipe, e)
           a == AlertsOf[e]
<1>b. /\ cPending \in Nat /\ cBatch \in Nat /\ cPipe \in Nat /\ a \in Nat
      /\ entered[e] \in Nat /\ stored[e] \in Nat
  BY <1>0, <1>a, CountInType DEF HistoryOK
<1>c. e \notin lost => cPending + cBatch + stored[e] = a * (entered[e] - cPipe)
  BY DEF NoAlertVanishes
<1> HIDE DEF cPending, cBatch, cPipe, a
<1>1. ASSUME NEW x \in Events, Enter(x), UNCHANGED <<pending, alertBatch, stored, lost>>
      PROVE  CountIn(pending', e) + CountIn(alertBatch', e) + stored'[e]
                 = AlertsOf[e] * (entered'[e] - CountIn(pipe', e))
  <2>1. /\ entered'[e] = entered[e] + IF x = e THEN 1 ELSE 0
    BY <1>0, <1>1, <1>b, EnterCounts DEF HistoryOK
  <2>2. CountIn(pipe', e) = cPipe + IF x = e THEN 1 ELSE 0
    BY <1>1, <1>a, CountInAppend DEF Enter, cPipe
  <2>3. entered'[e] - CountIn(pipe', e) = entered[e] - cPipe
    BY <1>b, <2>1, <2>2
  <2>4. QED
    BY <1>1, <1>c, <2>3 DEF cPending, cBatch, a
<1>2. CASE \E r \in DOMAIN handlers : PushEvent(r)
  <2>1. PICK r \in DOMAIN handlers : PushEvent(r)
    BY <1>2
  <2>2. handlers[r] # <<>> /\ Enter(Head(handlers[r]))
        /\ UNCHANGED <<pending, alertBatch, stored, lost>>
    BY <2>1 DEF PushEvent, pipeline
  <2>3. Head(handlers[r]) \in Events
    BY <1>0, <2>2, TakeFirst DEF HandlersOK
  <2>4. QED
    BY <1>1, <2>2, <2>3
<1>3. CASE SyslogPush
  <2>1. syslog # <<>> /\ Enter(Head(syslog)) /\ UNCHANGED <<pending, alertBatch, stored, lost>>
    BY <1>3 DEF SyslogPush, pipeline
  <2>2. Head(syslog) \in Events
    BY <1>a, <2>1, TakeFirst
  <2>3. QED
    BY <1>1, <2>1, <2>2
<1>4. CASE Evaluate
  <2> DEFINE h == Head(pipe)
  <2>1. /\ pending = <<>> /\ pipe # <<>> /\ pipe' = Tail(pipe)
        /\ pending' = [k \in 1 .. AlertsOf[h] |-> h]
        /\ UNCHANGED <<alertBatch, entered, stored, lost>>
    BY <1>4 DEF Evaluate
  <2>2. h \in Events /\ AlertsOf[h] \in Nat
    BY <1>a, <2>1, TakeFirst
  <2>3. cPending = 0
    BY <2>1, CountInNone, NothingInEmpty DEF cPending
  <2>4. cPipe = CountIn(pipe', e) + IF h = e THEN 1 ELSE 0
    BY <1>a, <2>1, CountInTail DEF cPipe
  <2>5. CountIn(pending', e) = IF h = e THEN a ELSE 0
    <3> DEFINE n == AlertsOf[h]
    <3>1. /\ n \in Nat /\ DOMAIN pending' = 1 .. n /\ (\A k \in 1 .. n : pending'[k] = h)
          /\ h = e => n = a
      BY <2>1, <2>2 DEF a
    <3> HIDE DEF n, h
    <3>2. CountIn(pending', e) = IF h = e THEN n ELSE 0
      BY <3>1, CountInCopies
    <3>3. QED
      BY <3>1, <3>2
  <2>6. CountIn(pipe', e) \in Nat
    <3>1. pipe' \in Seq(Events)
      BY <1>a, <2>1, TakeFirst
    <3>2. QED
      BY <3>1, CountInType
  <2>7. cBatch + stored[e] = a * (entered[e] - cPipe)
    BY <1>b, <1>c, <2>1, <2>3
  <2>8. CASE h = e
    <3>1. entered[e] - CountIn(pipe', e) = (entered[e] - cPipe) + 1
      BY <1>b, <2>4, <2>6, <2>8
    <3>2. a * ((entered[e] - cPipe) + 1) = a * (entered[e] - cPipe) + a
      BY <1>b
    <3>3. a + cBatch + stored[e] = a * (entered[e] - CountIn(pipe', e))
      BY <1>b, <2>7, <3>1, <3>2
    <3>4. QED
      BY <2>1, <2>5, <2>8, <3>3 DEF cBatch, a
  <2>9. CASE h # e
    <3>1. CountIn(pipe', e) = cPipe
      BY <1>b, <2>4, <2>6, <2>9
    <3>2. 0 + cBatch + stored[e] = a * (entered[e] - CountIn(pipe', e))
      BY <1>b, <2>7, <3>1
    <3>3. QED
      BY <2>1, <2>5, <2>9, <3>2 DEF cBatch, a
  <2>10. QED
    BY <2>8, <2>9
<1>5. CASE AddAlert
  <2>1. /\ pending # <<>> /\ pending' = Tail(pending)
        /\ alertBatch' = Append(alertBatch, Head(pending))
        /\ UNCHANGED <<pipe, entered, stored, lost>>
    BY <1>5 DEF AddAlert, ingest
  <2>2. Head(pending) \in Events /\ Tail(pending) \in Seq(Events)
    BY <1>a, <2>1, TakeFirst
  <2>3. cPending = CountIn(pending', e) + IF Head(pending) = e THEN 1 ELSE 0
    BY <1>a, <2>1, CountInTail DEF cPending
  <2>4. CountIn(alertBatch', e) = cBatch + IF Head(pending) = e THEN 1 ELSE 0
    BY <1>a, <2>1, <2>2, CountInAppend DEF cBatch
  <2>5. CountIn(pending', e) \in Nat
    BY <2>1, <2>2, CountInType
  <2>6. CountIn(pending', e) + CountIn(alertBatch', e) + stored[e] = a * (entered[e] - cPipe)
    BY <1>b, <1>c, <2>1, <2>3, <2>4, <2>5
  <2>7. QED
    BY <2>1, <2>6 DEF a, cPipe
<1>6. CASE InsertReturns
  <2>1. /\ \/ stored' = [x \in Events |-> stored[x] + CountIn(alertBatch, x)] /\ UNCHANGED lost
           \/ /\ lost' = lost \union Range(alertBatch)
              /\ \/ stored' = stored
                 \/ stored' = [x \in Events |-> stored[x] + CountIn(alertBatch, x)]
        /\ alertBatch' = <<>> /\ UNCHANGED <<pipe, pending, entered>>
    BY <1>6 DEF InsertReturns, ingest
  <2>2. CountIn(alertBatch', e) = 0
    BY <2>1, CountInNone, NothingInEmpty
  <2>3. e \notin lost
    BY <2>1
  <2>4. stored'[e] = stored[e] + cBatch
    <3>1. CASE stored' = stored
      <4>1. CASE e \in Range(alertBatch)
        <5>1. stored' = [x \in Events |-> stored[x] + CountIn(alertBatch, x)]
          BY <2>1, <4>1
        <5>2. QED
          BY <5>1 DEF cBatch
      <4>2. CASE e \notin Range(alertBatch)
        <5>1. cBatch = 0
          BY <4>2, CountInNone DEF cBatch
        <5>2. QED
          BY <1>b, <3>1, <5>1
      <4>3. QED
        BY <4>1, <4>2
    <3>2. CASE stored' = [x \in Events |-> stored[x] + CountIn(alertBatch, x)]
      BY <3>2 DEF cBatch
    <3>3. QED
      BY <2>1, <3>1, <3>2
  <2>5. cPending + 0 + stored'[e] = a * (entered[e] - cPipe)
    BY <1>b, <1>c, <2>3, <2>4
  <2>6. QED
    BY <2>1, <2>2, <2>5 DEF cPending, cPipe, a
<1>7. CASE EngineCrash
  <2>1. /\ pipe' = <<>> /\ pending' = <<>> /\ alertBatch' = <<>>
        /\ lost \subseteq lost' /\ Range(pipe) \subseteq lost'
        /\ Range(pending) \subseteq lost' /\ Range(alertBatch) \subseteq lost'
        /\ UNCHANGED <<entered, stored>>
    BY <1>7 DEF EngineCrash
  <2>2. cPipe = 0 /\ cPending = 0 /\ cBatch = 0
    BY <2>1, CountInNone DEF cPipe, cPending, cBatch
  <2>3. CountIn(<<>>, e) = 0
    BY CountInNone, NothingInEmpty
  <2>4. 0 + 0 + stored[e] = a * (entered[e] - 0)
    BY <1>c, <2>1, <2>2
  <2>5. QED
    BY <2>1, <2>3, <2>4 DEF a
<1>8. ASSUME UNCHANGED <<pipe, pending, alertBatch, entered, stored>>, lost \subseteq lost'
      PROVE  CountIn(pending', e) + CountIn(alertBatch', e) + stored'[e]
                 = AlertsOf[e] * (entered'[e] - CountIn(pipe', e))
  BY <1>8, <1>c DEF cPending, cBatch, cPipe, a
<1>9. CASE \/ Submit \/ AgentLoop \/ AgentStops \/ SyslogRead \/ PipeTick \/ UNCHANGED vars
           \/ \E r \in DOMAIN handlers : Answer(r)
  <2>1. UNCHANGED <<pipe, pending, alertBatch, entered, stored>> /\ lost \subseteq lost'
    BY <1>9 DEF Submit, AgentLoop, TakeEvent, TickFlush, Send, PostSucceeds, AttemptFails,
                AgentStops, SyslogRead, PipeTick, Answer, vars, ingest, pipeline
  <2>2. QED
    BY <1>8, <2>1
<1>10. QED
  BY <1>2, <1>3, <1>4, <1>5, <1>6, <1>7, <1>9 DEF Next, PipelineLoop, Handler

(* Whatever crashes, fails or stops, and in whatever order the goroutines    *)
(* run, an event or an alert that is neither on its way nor where it belongs *)
(* was given up at one of the places that drop: there is no other.           *)
THEOREM NothingIsMislaid == Spec => []NothingVanishes
<1>1. Init => NothingVanishes
  <2> SUFFICES ASSUME Init PROVE NothingVanishes
    OBVIOUS
  <2>1. /\ read = 0 /\ heard = 0 /\ pending = <<>> /\ alertBatch = <<>> /\ pipe = <<>>
        /\ entered = [e \in Events |-> 0] /\ stored = [e \in Events |-> 0]
    BY DEF Init
  <2>2. \A e : CountIn(<<>>, e) = 0
    BY CountInNone, NothingInEmpty
  <2>3. \A e \in Events : AlertsOf[e] * (0 - 0) = 0
    BY DeliveryAssumption
  <2>4. NoAlertVanishes
    BY <2>1, <2>2, <2>3 DEF NoAlertVanishes
  <2>5. Arrived = {}
    BY <2>1, DeliveryAssumption DEF Arrived
  <2>6. QED
    BY <2>4, <2>5 DEF NothingVanishes, NoEventVanishes
<1>2. DeliveryInv /\ NothingVanishes /\ [Next]_vars => NothingVanishes'
  BY EventsKept, AlertsKept DEF NothingVanishes, DeliveryInv
<1>3. QED
  BY <1>1, <1>2, DeliveryInvariant, PTL DEF Spec

-----------------------------------------------------------------------------
(* Lines enter in order until an attempt fails                             *)

(* One handler at a time, and everything that has yet to enter is behind     *)
(* what has entered.                                                         *)
LEMMA FirstTimeNext == DeliveryInv /\ FirstTime /\ [Next]_vars => FirstTime'
<1> SUFFICES ASSUME DeliveryInv, FirstTime, [Next]_vars, ~retried'
             PROVE  OneHandler' /\ \A e \in Ahead' : \A g \in e .. NumLines : entered'[g] = 0
  BY DEF FirstTime
<1> USE DeliveryAssumption
<1>0. /\ Ordered /\ Waiting /\ AgentOK /\ HandlersOK /\ EngineOK /\ HistoryOK
  BY TypeParts DEF DeliveryInv
<1>a. ~retried
  <2>1. retried => retried'
    BY DEF Next, Submit, AgentLoop, TakeEvent, TickFlush, Send, PostSucceeds, AttemptFails,
           AgentStops, Handler, PushEvent, Answer, SyslogRead, SyslogPush, PipelineLoop,
           Evaluate, AddAlert, PipeTick, InsertReturns, EngineCrash, vars
  <2>2. QED
    BY <2>1
<1>b. OneHandler /\ \A e \in Ahead : \A g \in e .. NumLines : entered[g] = 0
  BY <1>a DEF FirstTime
<1>c. /\ read \in Nat /\ in \in Seq(Lines) /\ batch \in Seq(Lines)
      /\ Range(in) \subseteq Lines /\ Range(batch) \subseteq Lines
  BY <1>0, RangeOfSeq DEF AgentOK, Ordered
<1>d. HandlerEvents \subseteq Lines
  BY <1>0, RangeOfSeq DEF Ordered, HandlerEvents
<1>e. /\ Range(in) \subseteq Ahead /\ HandlerEvents \subseteq Ahead
      /\ read + 1 .. NumLines \subseteq Ahead
      /\ phase \in {"select", "send"} => Range(batch) \subseteq Ahead
  BY DEF Ahead
<1>f. ASSUME OneHandler', Ahead' \subseteq Ahead, entered' = entered
      PROVE  OneHandler' /\ \A e \in Ahead' : \A g \in e .. NumLines : entered'[g] = 0
  BY <1>b, <1>f
<1>1. CASE Submit
  <2>1. /\ read' = read + 1 /\ (in' = in \/ in' = Append(in, read + 1)) /\ read < NumLines
        /\ UNCHANGED <<batch, phase, conn, answered, handlers, entered>>
    BY <1>1 DEF Submit, ingest
  <2>2. read + 1 \in Lines /\ read + 1 \in read + 1 .. NumLines
        /\ (read + 1) + 1 .. NumLines \subseteq read + 1 .. NumLines
    BY <1>c, <2>1 DEF Lines
  <2>3. Range(in') \subseteq Range(in) \union {read + 1}
    <3>1. Range(Append(in, read + 1)) = Range(in) \union {read + 1}
      BY <1>c, <2>2, PutLast
    <3>2. QED
      BY <2>1, <3>1
  <2>4. HandlerEvents' = HandlerEvents
    BY <2>1 DEF HandlerEvents
  <2>5. Ahead' \subseteq Ahead
    BY <1>e, <2>1, <2>2, <2>3, <2>4 DEF Ahead
  <2>6. OneHandler'
    BY <1>b, <2>1 DEF OneHandler
  <2>7. QED
    BY <1>f, <2>1, <2>5, <2>6
<1>2. CASE TakeEvent \/ TickFlush
  <2>1. /\ phase = "select" /\ phase' \in {"select", "send"}
        /\ (in # <<>> /\ batch' = Append(batch, Head(in)) /\ in' = Tail(in))
           \/ UNCHANGED <<in, batch>>
        /\ UNCHANGED <<read, conn, answered, handlers, entered>>
    BY <1>2 DEF TakeEvent, TickFlush, ingest
  <2>2. /\ Range(in') \subseteq Range(in)
        /\ Range(batch') \subseteq Range(batch) \union Range(in)
    <3>1. CASE in # <<>> /\ batch' = Append(batch, Head(in)) /\ in' = Tail(in)
      <4>1. /\ Head(in) \in Lines /\ Range(in) = {Head(in)} \union Range(Tail(in))
        BY <1>c, <3>1, TakeFirst
      <4>2. Range(Append(batch, Head(in))) = Range(batch) \union {Head(in)}
        BY <1>c, <4>1, PutLast
      <4>3. QED
        BY <3>1, <4>1, <4>2
    <3>2. QED
      BY <2>1, <3>1
  <2>3. HandlerEvents' = HandlerEvents
    BY <2>1 DEF HandlerEvents
  <2>4. Ahead' \subseteq Ahead
    BY <1>e, <2>1, <2>2, <2>3 DEF Ahead
  <2>5. OneHandler'
    BY <1>b, <2>1 DEF OneHandler
  <2>6. QED
    BY <1>f, <2>1, <2>4, <2>5
<1>3. CASE Send
  <2>1. /\ phase = "send" /\ phase' = "wait"
        /\ UNCHANGED <<read, in, batch, answered, entered>>
        /\ \/ \E r \in 1 .. MaxHandlers \ DOMAIN handlers :
                 /\ conn' = r
                 /\ handlers' = [q \in DOMAIN handlers \union {r} |->
                                    IF q = r THEN batch ELSE handlers[q]]
           \/ UNCHANGED <<conn, handlers>>
    BY <1>3 DEF Send
  <2>2. DOMAIN handlers = {} /\ ~answered'
    BY <1>0, <1>b, <2>1 DEF OneHandler, Waiting
  <2>3. /\ DOMAIN handlers' \subseteq {conn'}
        /\ \A q \in DOMAIN handlers' : handlers'[q] = batch
    BY <2>1, <2>2
  <2>4. HandlerEvents' \subseteq Range(batch)
    BY <2>3 DEF HandlerEvents
  <2>5. Ahead' \subseteq Ahead
    BY <1>e, <2>1, <2>4 DEF Ahead
  <2>6. OneHandler'
    BY <2>1, <2>2, <2>3 DEF OneHandler
  <2>7. QED
    BY <1>f, <2>1, <2>5, <2>6
<1>4. CASE PostSucceeds
  <2>1. /\ answered /\ batch' = <<>> /\ answered' = FALSE
        /\ UNCHANGED <<read, in, handlers, entered>>
    BY <1>4 DEF PostSucceeds, ingest
  <2>2. DOMAIN handlers' = {}
    BY <1>b, <2>1 DEF OneHandler
  <2>3. HandlerEvents' = HandlerEvents
    BY <2>1 DEF HandlerEvents
  <2>4. Ahead' \subseteq Ahead
    BY <1>e, <2>1, <2>3, NothingInEmpty DEF Ahead
  <2>5. OneHandler'
    BY <2>1, <2>2 DEF OneHandler
  <2>6. QED
    BY <1>f, <2>1, <2>4, <2>5
<1>5. CASE AttemptFails
  BY <1>5 DEF AttemptFails
<1>6. CASE AgentStops
  <2>1. /\ phase' = "stopped" /\ in' = <<>> /\ batch' = <<>> /\ answered' = FALSE
        /\ UNCHANGED <<read, handlers, entered>>
    BY <1>6 DEF AgentStops, ingest
  <2>2. HandlerEvents' = HandlerEvents
    BY <2>1 DEF HandlerEvents
  <2>3. Ahead' \subseteq Ahead
    BY <1>e, <2>1, <2>2, NothingInEmpty DEF Ahead
  <2>4. OneHandler'
    BY <1>b, <2>1 DEF OneHandler
  <2>5. QED
    BY <1>f, <2>1, <2>3, <2>4
<1>7. CASE \E r \in DOMAIN handlers : PushEvent(r)
  <2>1. PICK r \in DOMAIN handlers : PushEvent(r)
    BY <1>7
  <2> DEFINE h == Head(handlers[r])
  <2>2. /\ handlers[r] # <<>> /\ handlers' = [handlers EXCEPT ![r] = Tail(@)]
        /\ Enter(h) /\ UNCHANGED <<read, in, batch, phase, conn, answered>>
    BY <2>1 DEF PushEvent, agent
  <2>3. handlers[r] \in Seq(Lines) /\ handlers[r] \in Seq(Int) /\ Increasing(handlers[r])
    BY <1>0 DEF Ordered, Lines
  <2>4. /\ h \in Lines /\ h \in Events /\ h \in HandlerEvents /\ h \in Int
        /\ \A e \in Range(Tail(handlers[r])) : h < e
        /\ Range(handlers[r]) = {h} \union Range(Tail(handlers[r]))
    BY <2>2, <2>3, TakeFirst, IncreasingTail DEF HandlerEvents, Events, Lines
  <2>5. DOMAIN handlers' = DOMAIN handlers /\ OneHandler'
    BY <1>b, <2>2 DEF OneHandler
  <2>6. HandlerEvents' \subseteq Range(Tail(handlers[r]))
    <3>1. \A q \in DOMAIN handlers' : q = r /\ handlers'[q] = Tail(handlers[r])
      BY <1>b, <2>2, <2>5 DEF OneHandler
    <3>2. QED
      BY <3>1 DEF HandlerEvents
  <2>7. phase \notin {"select", "send"}
    BY <1>b DEF OneHandler
  <2>8. Ahead' \subseteq Ahead
    BY <1>e, <2>2, <2>4, <2>6, <2>7 DEF Ahead, HandlerEvents
  <2>9. \A e \in Ahead' : e \in Int /\ h < e
    <3>1. \A e \in Range(in) : h < e
      BY <1>0, <2>4 DEF Ordered
    <3>2. h <= read
      BY <1>0, <2>4 DEF Ordered
    <3>3. \A e \in read + 1 .. NumLines : h < e
      BY <1>c, <2>4, <3>2
    <3>4. Ahead' \subseteq Range(in) \union Range(Tail(handlers[r])) \union (read + 1 .. NumLines)
      BY <2>2, <2>6, <2>7 DEF Ahead
    <3>5. Range(Tail(handlers[r])) \subseteq Int /\ Lines \subseteq Int
      BY <2>2, <2>3, TakeFirst, RangeOfSeq DEF Lines
    <3>6. Range(in) \subseteq Int
      BY <1>c, <3>5
    <3>7. read + 1 .. NumLines \subseteq Int
      BY <1>c
    <3>8. QED
      BY <2>4, <3>1, <3>3, <3>4, <3>5, <3>6, <3>7
  <2>10. \A x \in Events : x # h => entered'[x] = entered[x]
    BY <1>0, <2>2, <2>4, EnterCounts DEF HistoryOK
  <2>11. ASSUME NEW e \in Ahead', NEW g \in e .. NumLines PROVE entered'[g] = 0
    <3>1. e \in Int /\ h < e /\ entered[g] = 0
      BY <1>b, <2>8, <2>9
    <3>2. g \in Events /\ g # h
      BY <2>4, <3>1 DEF Events, Lines
    <3>3. QED
      BY <2>10, <3>1, <3>2
  <2>12. QED
    BY <2>5, <2>11
<1>8. CASE \E r \in DOMAIN handlers : Answer(r)
  <2>1. PICK r \in DOMAIN handlers : Answer(r)
    BY <1>8
  <2>2. /\ handlers' = [q \in DOMAIN handlers \ {r} |-> handlers[q]]
        /\ UNCHANGED <<read, in, batch, phase, conn, entered>>
    BY <2>1 DEF Answer
  <2>3. DOMAIN handlers' = {}
    BY <1>b, <2>2 DEF OneHandler
  <2>4. HandlerEvents' = {}
    BY <2>3 DEF HandlerEvents
  <2>5. Ahead' \subseteq Ahead
    BY <1>e, <2>2, <2>4 DEF Ahead
  <2>6. OneHandler'
    BY <2>3 DEF OneHandler
  <2>7. QED
    BY <1>f, <2>2, <2>5, <2>6
<1>9. CASE SyslogPush
  <2>1. /\ syslog # <<>> /\ Enter(Head(syslog))
        /\ UNCHANGED <<read, in, batch, phase, conn, answered, handlers>>
    BY <1>9 DEF SyslogPush, agent
  <2>2. Head(syslog) \in SyslogEvents /\ Head(syslog) \in Events
    BY <1>0, <2>1, TakeFirst DEF Ordered, Events
  <2>3. \A x \in Lines : entered'[x] = entered[x]
    <3>1. \A x \in Lines : x \in Events /\ x # Head(syslog)
      BY <2>2 DEF Events, Lines, SyslogEvents
    <3>2. QED
      BY <1>0, <2>1, <2>2, <3>1, EnterCounts DEF HistoryOK
  <2>4. Ahead' = Ahead
    BY <2>1 DEF Ahead, HandlerEvents
  <2>5. Ahead \subseteq Lines
    <3>1. read + 1 .. NumLines \subseteq Lines
      BY <1>c DEF Lines
    <3>2. QED
      BY <1>c, <1>d, <3>1 DEF Ahead
  <2>6. ASSUME NEW e \in Ahead', NEW g \in e .. NumLines PROVE entered'[g] = 0
    <3>1. g \in Lines
      BY <2>4, <2>5 DEF Lines
    <3>2. QED
      BY <1>b, <2>3, <2>4, <3>1
  <2>7. OneHandler'
    BY <1>b, <2>1 DEF OneHandler
  <2>8. QED
    BY <2>6, <2>7
<1>10. CASE EngineCrash
  <2>1. /\ handlers' = <<>> /\ answered' = FALSE
        /\ UNCHANGED <<read, in, batch, phase, entered>>
    BY <1>10 DEF EngineCrash
  <2>2. DOMAIN handlers' = {} /\ HandlerEvents' = {}
    BY <2>1, NothingInEmpty DEF HandlerEvents
  <2>3. Ahead' \subseteq Ahead
    BY <1>e, <2>1, <2>2 DEF Ahead
  <2>4. OneHandler'
    BY <2>2 DEF OneHandler
  <2>5. QED
    BY <1>f, <2>1, <2>3, <2>4
<1>11. CASE SyslogRead \/ PipelineLoop \/ UNCHANGED vars
  <2>1. UNCHANGED <<read, in, batch, phase, conn, answered, handlers, entered>>
    BY <1>11 DEF SyslogRead, PipelineLoop, Evaluate, AddAlert, PipeTick, InsertReturns,
                 vars, agent, ingest
  <2>2. Ahead' = Ahead
    BY <2>1 DEF Ahead, HandlerEvents
  <2>3. OneHandler'
    BY <1>b, <2>1 DEF OneHandler
  <2>4. QED
    BY <1>f, <2>1, <2>2, <2>3
<1>12. QED
  BY <1>1, <1>2, <1>3, <1>4, <1>5, <1>6, <1>7, <1>8, <1>9, <1>10, <1>11
     DEF Next, AgentLoop, Handler

(* Who enters until an attempt fails is the first of those still to come.    *)
LEMMA EntersInOrder ==
    ASSUME DeliveryInv, FirstTime, [Next]_vars, ~retried,
           NEW e \in Lines, entered'[e] > entered[e]
    PROVE  \A g \in e .. NumLines : entered[g] = 0
<1>0. HandlersOK /\ EngineOK /\ HistoryOK /\ Ordered
  BY TypeParts DEF DeliveryInv
<1>a. e \in Events /\ entered[e] \in Nat
  BY <1>0 DEF Events, HistoryOK
<1>1. ASSUME NEW r \in DOMAIN handlers, PushEvent(r)
      PROVE  \A g \in e .. NumLines : entered[g] = 0
  <2>1. handlers[r] # <<>> /\ Enter(Head(handlers[r]))
    BY <1>1 DEF PushEvent
  <2>2. Head(handlers[r]) \in Events /\ Head(handlers[r]) \in HandlerEvents
    BY <1>0, <2>1, TakeFirst DEF HandlersOK, HandlerEvents
  <2>3. \A x \in Events : x # Head(handlers[r]) => entered'[x] = entered[x]
    BY <1>0, <2>1, <2>2, EnterCounts DEF HistoryOK
  <2>4. e \in HandlerEvents
    BY <1>a, <2>2, <2>3
  <2>5. QED
    BY <2>4 DEF FirstTime, Ahead
<1>2. ~SyslogPush
  <2> SUFFICES ASSUME SyslogPush PROVE FALSE
    OBVIOUS
  <2>1. syslog # <<>> /\ Enter(Head(syslog))
    BY DEF SyslogPush
  <2>2. Head(syslog) \in SyslogEvents
    BY <1>0, <2>1, TakeFirst DEF Ordered
  <2>3. Head(syslog) \in Events /\ Head(syslog) # e
    BY <2>2, DeliveryAssumption DEF Events, Lines, SyslogEvents
  <2>4. entered'[e] = entered[e]
    BY <1>0, <1>a, <2>1, <2>3, EnterCounts DEF HistoryOK
  <2>5. QED
    BY <1>a, <2>4
<1>3. entered' # entered
  BY <1>a
<1>4. \E r \in DOMAIN handlers : PushEvent(r)
  BY <1>2, <1>3
     DEF Next, Submit, AgentLoop, TakeEvent, TickFlush, Send, PostSucceeds, AttemptFails,
         AgentStops, Handler, Answer, SyslogRead, PipelineLoop, Evaluate, AddAlert,
         PipeTick, InsertReturns, EngineCrash, vars
<1>5. QED
  BY <1>1, <1>4

(* FirstTime holds from the start.                                           *)
LEMMA FirstTimeAlways == Spec => []FirstTime
<1>1. Init => FirstTime
  <2> SUFFICES ASSUME Init PROVE FirstTime
    OBVIOUS
  <2>1. /\ handlers = <<>> /\ phase = "select" /\ answered = FALSE /\ read = 0
        /\ in = <<>> /\ batch = <<>> /\ entered = [e \in Events |-> 0]
    BY DEF Init
  <2>2. DOMAIN handlers = {} /\ HandlerEvents = {}
    BY <2>1, NothingInEmpty DEF HandlerEvents
  <2>3. OneHandler
    BY <2>1, <2>2 DEF OneHandler
  <2>4. \A e \in Ahead : \A g \in e .. NumLines : g \in Events
    BY <2>1, <2>2, NothingInEmpty, DeliveryAssumption DEF Ahead, Events, Lines
  <2>5. QED
    BY <2>1, <2>3, <2>4 DEF FirstTime
<1>2. DeliveryInv /\ FirstTime /\ [Next]_vars => FirstTime'
  BY FirstTimeNext
<1>3. QED
  BY <1>1, <1>2, DeliveryInvariant, PTL DEF Spec

(* Only a handler that outlives its client can make a line enter out of turn *)
(* or twice: until an attempt has failed, a line enters before everything    *)
(* that was read at or after it, crashes of the engine included.             *)
THEOREM LinesEnterInOrder == Spec => InOrderUntilRetry
<1>1. DeliveryInv /\ FirstTime /\ [Next]_vars
          => [\A e \in Lines :
                ~retried /\ entered'[e] > entered[e]
                    => \A g \in e .. NumLines : entered[g] = 0]_vars
  <2> SUFFICES ASSUME DeliveryInv, FirstTime, [Next]_vars, NEW e \in Lines,
                      ~retried, entered'[e] > entered[e]
               PROVE  \A g \in e .. NumLines : entered[g] = 0
    OBVIOUS
  <2>1. QED
    BY EntersInOrder
<1>2. QED
  BY <1>1, DeliveryInvariant, FirstTimeAlways, PTL DEF Spec, InOrderUntilRetry

-----------------------------------------------------------------------------
(* Delivery implements DeliveryPromise                                     *)

(* A handler only holds what was sent, and what is with one has a send left. *)
LEMMA LimitNotReached ==
    ASSUME DeliveryInv, NEW r \in DOMAIN handlers, NEW e \in Range(handlers[r])
    PROVE  e \in Lines /\ e \in Arrived /\ entered[e] < SendLimit[e]
<1> USE DeliveryAssumption
<1>0. /\ TypeOK /\ Paced /\ Ordered /\ SendsCounted
      /\ HandlersOK /\ HistoryOK /\ AgentOK
  BY TypeParts DEF DeliveryInv
<1>1. e \in Lines /\ e \in Events /\ e \in HandlerEvents
  BY <1>0, RangeOfSeq DEF Ordered, Events, HandlerEvents
<1>2. e \in Arrived
  BY <1>0, <1>1 DEF Ordered, Arrived, Lines
<1>3. r \in Flight(e) /\ Flight(e) \subseteq 1 .. MaxHandlers
  BY <1>0 DEF Flight, HandlersOK
<1>4. IsFiniteSet(1 .. MaxHandlers)
  BY FS_Interval
<1>5. IsFiniteSet(Flight(e))
  BY <1>3, <1>4, FS_Subset
<1>6. Cardinality(Flight(e)) \in Nat /\ Cardinality(Flight(e)) # 0
  BY <1>3, <1>5, FS_CardinalityType, FS_EmptySet
<1>7. SentSoFar(e) \in Nat /\ SentSoFar(e) <= MaxAttempts
  BY <1>0 DEF SentSoFar, AgentOK, Paced
<1>8. entered[e] \in Nat /\ entered[e] + Cardinality(Flight(e)) <= SentSoFar(e)
  BY <1>0, <1>1 DEF SendsCounted, HistoryOK
<1>9. entered[e] < MaxAttempts
  BY <1>6, <1>7, <1>8
<1>10. QED
  BY <1>1, <1>2, <1>9 DEF SendLimit

(* Each step of the agent and the engine is a step of DeliveryPromise or     *)
(* none of its business.                                                     *)
LEMMA StepsKeepPromise ==
    DeliveryInv /\ [Next]_vars => [Promise!Next]_<<Arrived, entered>>
<1> SUFFICES ASSUME DeliveryInv, [Next]_vars PROVE [Promise!Next]_<<Arrived, entered>>
  OBVIOUS
<1> USE DeliveryAssumption
<1>0. /\ Ordered /\ SendsCounted /\ HandlersOK /\ HistoryOK /\ AgentOK /\ EngineOK
  BY TypeParts DEF DeliveryInv
<1>a. read \in 0 .. NumLines /\ heard \in 0 .. NumSyslog
  BY <1>0 DEF AgentOK, EngineOK
<1>1. CASE Submit
  <2>1. read' = read + 1 /\ read < NumLines /\ UNCHANGED <<heard, entered>>
    BY <1>1 DEF Submit, ingest
  <2>2. /\ read + 1 \in Events /\ read + 1 \notin Arrived
        /\ Arrived' = Arrived \union {read + 1}
    BY <1>a, <2>1 DEF Events, Lines, Arrived
  <2>3. QED
    BY <2>1, <2>2 DEF Promise!Next, Promise!Arrive
<1>2. CASE SyslogRead
  <2>1. heard' = heard + 1 /\ heard < NumSyslog /\ UNCHANGED <<read, entered>>
    BY <1>2 DEF SyslogRead
  <2> DEFINE m == NumLines + (heard + 1)
  <2>2. /\ m \in Events /\ m \notin Arrived
        /\ Arrived' = Arrived \union {m}
    BY <1>a, <2>1 DEF Events, SyslogEvents, Arrived
  <2>3. QED
    BY <2>1, <2>2 DEF Promise!Next, Promise!Arrive
<1>3. CASE \E r \in DOMAIN handlers : PushEvent(r)
  <2>1. PICK r \in DOMAIN handlers : PushEvent(r)
    BY <1>3
  <2> DEFINE h == Head(handlers[r])
  <2>2. handlers[r] # <<>> /\ Enter(h) /\ UNCHANGED <<read, heard>>
    BY <2>1 DEF PushEvent
  <2>3. h \in Range(handlers[r]) /\ h \in Events
    BY <1>0, <2>2, TakeFirst DEF HandlersOK
  <2>4. h \in Arrived /\ entered[h] < SendLimit[h]
    BY <2>3, LimitNotReached
  <2>5. Arrived' = Arrived /\ entered' = [entered EXCEPT ![h] = @ + 1]
    BY <2>2 DEF Arrived, Enter
  <2>6. QED
    BY <2>3, <2>4, <2>5 DEF Promise!Next, Promise!Deliver
<1>4. CASE SyslogPush
  <2> DEFINE h == Head(syslog)
  <2>1. syslog # <<>> /\ Enter(h) /\ UNCHANGED <<read, heard>>
    BY <1>4 DEF SyslogPush
  <2>2. h \in SyslogEvents /\ h \in Events /\ h \in Range(syslog)
    BY <1>0, <2>1, TakeFirst DEF Ordered, Events
  <2>3. h <= NumLines + heard /\ entered[h] = 0
    BY <1>0, <2>2 DEF SendsCounted
  <2>4. h \in Arrived
    BY <1>a, <2>2, <2>3 DEF Arrived, SyslogEvents
  <2>5. SendLimit[h] = 1
    BY <2>2 DEF SendLimit, Lines, SyslogEvents
  <2>6. Arrived' = Arrived /\ entered' = [entered EXCEPT ![h] = @ + 1]
    BY <2>1 DEF Arrived, Enter
  <2>7. entered[h] < SendLimit[h]
    BY <2>3, <2>5
  <2>8. QED
    BY <2>2, <2>4, <2>6, <2>7 DEF Promise!Next, Promise!Deliver
<1>5. CASE \/ AgentLoop \/ AgentStops \/ PipelineLoop \/ EngineCrash \/ UNCHANGED vars
           \/ \E r \in DOMAIN handlers : Answer(r)
  <2>1. UNCHANGED <<read, heard, entered>>
    BY <1>5 DEF AgentLoop, TakeEvent, TickFlush, Send, PostSucceeds, AttemptFails,
                AgentStops, PipelineLoop, Evaluate, AddAlert, PipeTick, InsertReturns,
                EngineCrash, Answer, vars, ingest
  <2>2. QED
    BY <2>1 DEF Arrived
<1>6. QED
  BY <1>1, <1>2, <1>3, <1>4, <1>5 DEF Next, Handler

(* The agent and the engine together implement DeliveryPromise: whatever     *)
(* fails, an event enters only after it came into being, a line at most once *)
(* per attempt of its post, a syslog message once.                           *)
THEOREM ImplementsPromise == Spec => KeepsPromise
<1>1. Init => Promise!Init
  <2> SUFFICES ASSUME Init PROVE Promise!Init
    OBVIOUS
  <2>1. read = 0 /\ heard = 0 /\ entered = [e \in Events |-> 0]
    BY DEF Init
  <2>2. Arrived = {}
    BY <2>1, DeliveryAssumption DEF Arrived
  <2>3. QED
    BY <2>1, <2>2 DEF Promise!Init
<1>2. DeliveryInv /\ [Next]_vars => [Promise!Next]_<<Arrived, entered>>
  BY StepsKeepPromise
<1>3. QED
  BY <1>1, <1>2, DeliveryInvariant, PTL DEF Spec, KeepsPromise, Promise!Spec

-----------------------------------------------------------------------------
(* TailFile: the inductive invariant                                       *)

Unread == offset + Len(reader) + 1 .. IF f = NoFile THEN 0 ELSE Size(f)

(* Pieces are numbered as they are written: a file's increase, and no two    *)
(* files hold the same.                                                      *)
Written ==
    /\ \A file \in Files : content[file] \in Seq(1 .. written) /\ Increasing(content[file])
    /\ \A file \in Files : Size(file) <= written
    /\ \A g, h \in Files : g # h => Range(content[g]) \intersect Range(content[h]) = {}
    /\ sent \union Range(reader) \subseteq 1 .. written
    /\ offset + Len(reader) <= written

(* While nothing happened to the file that was opened last, it is the one    *)
(* the path names and the place in it is good; files are opened in order.    *)
Placed ==
    /\ tail # "reading" => reader = <<>>
    /\ tail # "closed" => f # NoFile
    /\ f <= newest /\ path \in {NoFile, newest}
    /\ ~lostPlace => /\ f # NoFile /\ path = f
                     /\ offset + Len(reader) <= Size(f)
                     /\ tail = "closed" => offset # 0

(* Nothing is owed of a file that is left for good, but what came too late.  *)
Settled ==
    /\ tail = "closed" /\ lostPlace => owed \subseteq sent
    /\ tail = "checking" => owed \subseteq sent \union late
    /\ owed \subseteq sent \union ToCome

(* What is to come was not submitted before, nor anything of a later file.   *)
NotYetSent ==
    /\ Increasing(reader) /\ Range(reader) \intersect sent = {}
    /\ \A file \in Files : file > f =>
           Range(content[file]) \intersect (sent \union Range(reader)) = {}
    /\ tail # "closed" \/ offset # 0 =>
           \A k \in Unread : content[f][k] \notin sent \union Range(reader)
    /\ ~repeated

TailInv == TailTypeOK /\ Written /\ Placed /\ Settled /\ NotYetSent

-----------------------------------------------------------------------------
(* TailFile: types                                                         *)

DiskOK ==
    /\ path \in Files \union {NoFile} /\ newest \in Files
    /\ content \in [Files -> Seq(Pieces)] /\ written \in 0 .. MaxPieces
    /\ cuts \in 0 .. MaxCuts

ReadingOK ==
    /\ tail \in {"closed", "reading", "checking"} /\ f \in Files \union {NoFile}
    /\ offset \in 0 .. MaxPieces /\ reader \in Seq(Pieces)
    /\ sent \subseteq Pieces /\ owed \subseteq Pieces /\ late \subseteq Pieces
    /\ tailFaults \in 0 .. MaxTailFaults

MarksOK == lostPlace \in BOOLEAN /\ repeated \in BOOLEAN

(* The type invariant in the parts a step may concern.                       *)
LEMMA TailTypeParts == TailTypeOK <=> DiskOK /\ ReadingOK /\ MarksOK
BY DEF TailTypeOK, DiskOK, ReadingOK, MarksOK

(* In the state after a step.                                                *)
LEMMA TailTypePartsNext == DiskOK' /\ ReadingOK' /\ MarksOK' => TailTypeOK'
BY DEF TailTypeOK, DiskOK, ReadingOK, MarksOK

(* What the proofs use of the types, in numbers.                             *)
LEMMA TailFacts ==
    ASSUME TailTypeOK
    PROVE  /\ Files \subseteq Nat \ {0} /\ NoFile = 0 /\ NoFile \notin Files
           /\ Pieces \subseteq Nat /\ written \in Nat /\ newest \in Files
           /\ path \in Files \union {NoFile} /\ f \in Files \union {NoFile}
           /\ path \in Nat /\ f \in Nat /\ newest \in Nat
           /\ offset \in Nat /\ Len(reader) \in Nat
           /\ reader \in Seq(Pieces) /\ reader \in Seq(Int)
           /\ content \in [Files -> Seq(Pieces)]
           /\ \A file \in Files : content[file] \in Seq(Pieces)
           /\ \A file \in Files : content[file] \in Seq(Int)
           /\ \A file \in Files : Size(file) \in Nat
           /\ \A file \in Files : DOMAIN content[file] = 1 .. Size(file)
<1> USE TailAssumption
<1>0. DiskOK /\ ReadingOK
  BY TailTypeParts
<1>1. /\ Files \subseteq Nat \ {0} /\ NoFile = 0 /\ NoFile \notin Files
      /\ Pieces \subseteq Nat /\ Pieces \subseteq Int
  BY DEF Files, NoFile, Pieces
<1>2. /\ written \in Nat /\ newest \in Files /\ path \in Files \union {NoFile}
      /\ f \in Files \union {NoFile} /\ offset \in Nat /\ reader \in Seq(Pieces)
      /\ content \in [Files -> Seq(Pieces)]
  BY <1>0 DEF DiskOK, ReadingOK
<1>3. path \in Nat /\ f \in Nat /\ newest \in Nat
  BY <1>1, <1>2
<1>4. reader \in Seq(Int) /\ Len(reader) \in Nat
  BY <1>1, <1>2, LenProperties, SeqMonotonic
<1>5. ASSUME NEW file \in Files
      PROVE  /\ content[file] \in Seq(Pieces) /\ content[file] \in Seq(Int)
             /\ Size(file) \in Nat /\ DOMAIN content[file] = 1 .. Size(file)
  <2>1. content[file] \in Seq(Pieces)
    BY <1>2
  <2>2. content[file] \in Seq(Int)
    BY <1>1, <2>1, SeqMonotonic
  <2>3. QED
    BY <2>1, <2>2, LenProperties DEF Size
<1>6. QED
  BY <1>1, <1>2, <1>3, <1>4, <1>5

(* The reader takes a part of what the file holds.                           *)
LEMMA PartRead ==
    ASSUME NEW S, NEW s \in Seq(S), NEW m \in Nat \ {0}, NEW n \in m .. Len(s)
    PROVE  /\ SubSeq(s, m, n) \in Seq(S) /\ SubSeq(s, m, n) # <<>>
           /\ Len(SubSeq(s, m, n)) = (n - m) + 1
           /\ DOMAIN SubSeq(s, m, n) = 1 .. (n - m) + 1
           /\ \A i \in 1 .. (n - m) + 1 : SubSeq(s, m, n)[i] = s[(m + i) - 1]
           /\ \A k \in m .. n : s[k] \in Range(SubSeq(s, m, n))
           /\ \A x \in Range(SubSeq(s, m, n)) : \E k \in m .. n : x = s[k]
<1>1. Len(s) \in Nat /\ DOMAIN s = 1 .. Len(s)
  BY LenProperties
<1>2. m \in Int /\ n \in Int /\ (n - m) + 1 \in Nat \ {0} /\ m <= n
  BY <1>1
<1>3. \A i \in m .. n : s[i] \in S
  <2>1. \A i \in m .. n : i \in 1 .. Len(s)
    BY <1>1, <1>2
  <2>2. QED
    BY <2>1, ElementOfSeq
<1>4. /\ SubSeq(s, m, n) \in Seq(S)
      /\ Len(SubSeq(s, m, n)) = (n - m) + 1
      /\ \A i \in 1 .. (n - m) + 1 : SubSeq(s, m, n)[i] = s[(m + i) - 1]
  BY <1>2, <1>3, SubSeqProperties
<1>5. DOMAIN SubSeq(s, m, n) = 1 .. (n - m) + 1 /\ SubSeq(s, m, n) # <<>>
  BY <1>2, <1>4, LenProperties
<1>6. \A k \in m .. n : (k - m) + 1 \in 1 .. (n - m) + 1 /\ (m + ((k - m) + 1)) - 1 = k
  BY <1>2
<1>7. \A i \in 1 .. (n - m) + 1 : (m + i) - 1 \in m .. n
  BY <1>2
<1>8. \A k \in m .. n : s[k] \in Range(SubSeq(s, m, n))
  <2>1. \A k \in m .. n : SubSeq(s, m, n)[(k - m) + 1] = s[k]
    BY <1>4, <1>6
  <2>2. QED
    BY <1>5, <1>6, <2>1 DEF Range
<1>9. \A x \in Range(SubSeq(s, m, n)) : \E k \in m .. n : x = s[k]
  BY <1>4, <1>5, <1>7 DEF Range
<1>10. QED
  BY <1>4, <1>5, <1>8, <1>9

(* Every step keeps the types: the offset is within what was written.        *)
LEMMA TailTypeNext == TailTypeOK /\ Written /\ Placed /\ [TailNext]_tailVars => TailTypeOK'
<1> SUFFICES ASSUME TailTypeOK, Written, Placed, [TailNext]_tailVars PROVE TailTypeOK'
  OBVIOUS
<1> USE TailAssumption
<1>0. DiskOK /\ ReadingOK /\ MarksOK
  BY TailTypeParts
<1>a. /\ path \in Files \union {NoFile} /\ f \in Files \union {NoFile} /\ NoFile \notin Files
      /\ reader \in Seq(Pieces) /\ content \in [Files -> Seq(Pieces)]
      /\ \A file \in Files : content[file] \in Seq(Pieces) /\ Size(file) \in Nat
  BY TailFacts
<1>b. written \in 0 .. MaxPieces /\ offset \in 0 .. MaxPieces
  BY <1>0 DEF DiskOK, ReadingOK
<1>1. CASE \E file \in {path, f} \ {NoFile} : Write(file)
  <2>1. PICK file \in {path, f} \ {NoFile} : Write(file)
    BY <1>1
  <2>2. /\ written < MaxPieces /\ written' = written + 1
        /\ content' = [content EXCEPT ![file] = Append(@, written')]
        /\ owed' \subseteq owed \union {written'} /\ late' \subseteq late \union {written'}
        /\ UNCHANGED <<path, newest, tail, f, offset, reader, sent, cuts, tailFaults,
                       lostPlace, repeated>>
    BY <2>1 DEF Write
  <2>3. file \in Files
    BY <1>a
  <2>4. written' \in 0 .. MaxPieces /\ written' \in Pieces
    BY <1>b, <2>2 DEF Pieces
  <2>5. Append(content[file], written') \in Seq(Pieces)
    BY <1>a, <2>3, <2>4, PutLast
  <2>6. DiskOK'
    BY <1>0, <1>a, <2>2, <2>3, <2>4, <2>5 DEF DiskOK
  <2>7. ReadingOK'
    BY <1>0, <2>2, <2>4 DEF ReadingOK
  <2>8. MarksOK'
    BY <1>0, <2>2 DEF MarksOK
  <2>9. QED
    BY <2>6, <2>7, <2>8, TailTypePartsNext
<1>2. CASE Truncate
  <2>1. /\ path # NoFile /\ cuts < MaxCuts /\ cuts' = cuts + 1
        /\ content' = [content EXCEPT ![path] = <<>>]
        /\ owed' \subseteq owed
        /\ UNCHANGED <<path, newest, written, tail, f, offset, reader, sent, tailFaults,
                       late, repeated>>
    BY <1>2 DEF Truncate
  <2>2. content' \in [Files -> Seq(Pieces)]
    BY <1>a, <2>1
  <2>3. DiskOK'
    BY <1>0, <2>1, <2>2 DEF DiskOK
  <2>4. ReadingOK'
    BY <1>0, <2>1 DEF ReadingOK
  <2>5. lostPlace' \in {TRUE, lostPlace}
    BY <1>2 DEF Truncate
  <2>6. MarksOK'
    BY <1>0, <2>1, <2>5 DEF MarksOK
  <2>7. QED
    BY <2>3, <2>4, <2>6, TailTypePartsNext
<1>3. CASE MoveAway \/ CreateAnew
  <2>1. /\ path' \in {NoFile, newest'} /\ (newest' = newest \/ (newest' = newest + 1 /\ newest < MaxFiles))
        /\ owed' \subseteq owed
        /\ UNCHANGED <<content, written, tail, f, offset, reader, sent, cuts, tailFaults,
                       late>>
    <3>1. CASE MoveAway
      <4>1. path' = NoFile /\ UNCHANGED <<newest, content, written, tail, f, offset, reader,
                                          sent, cuts, tailFaults, late>>
        BY <3>1 DEF MoveAway
      <4>2. owed' \subseteq owed
        BY <3>1 DEF MoveAway
      <4>3. QED
        BY <4>1, <4>2
    <3>2. CASE CreateAnew
      BY <3>2 DEF CreateAnew
    <3>3. QED
      BY <1>3, <3>1, <3>2
  <2>2. newest' \in Files
    BY <1>0, <2>1 DEF DiskOK, Files
  <2>3. DiskOK'
    BY <1>0, <2>1, <2>2 DEF DiskOK
  <2>4. ReadingOK'
    BY <1>0, <2>1 DEF ReadingOK
  <2>5. lostPlace' \in {TRUE, lostPlace} /\ UNCHANGED repeated
    BY <1>3 DEF MoveAway, CreateAnew
  <2>6. MarksOK'
    BY <1>0, <2>5 DEF MarksOK
  <2>7. QED
    BY <2>3, <2>4, <2>6, TailTypePartsNext
<1>4. CASE Open
  <2>1. /\ path # NoFile /\ tail' = "reading" /\ f' = path
        /\ offset' = offset \/ offset' = Size(path)
        /\ lostPlace' = FALSE
        /\ UNCHANGED <<disk, reader, sent, tailFaults, owed, late, repeated>>
    BY <1>4 DEF Open, StartAt
  <2>2. Size(path) \in Nat /\ Size(path) <= written
    BY <1>a, <2>1 DEF Written
  <2>3. offset' \in 0 .. MaxPieces
    BY <1>b, <2>1, <2>2
  <2>4. ReadingOK'
    BY <1>0, <1>a, <2>1, <2>3 DEF ReadingOK
  <2>5. DiskOK'
    BY <1>0, <2>1 DEF DiskOK, disk
  <2>6. MarksOK'
    BY <1>0, <2>1 DEF MarksOK
  <2>7. QED
    BY <2>4, <2>5, <2>6, TailTypePartsNext
<1>5. CASE Fill
  <2>1. tail = "reading"
        /\ UNCHANGED <<disk, tail, f, offset, sent, tailFaults, lostPlace, owed, late, repeated>>
    BY <1>5 DEF Fill
  <2>2. f \in Files /\ content[f] \in Seq(Pieces) /\ offset \in Nat
    BY <1>a, <1>b, <2>1 DEF Placed
  <2>3. PICK last \in offset + 1 .. Size(f) : reader' = SubSeq(content[f], offset + 1, last)
    BY <1>5 DEF Fill
  <2>4. reader' \in Seq(Pieces)
    <3>1. offset + 1 \in Nat \ {0} /\ last \in offset + 1 .. Len(content[f])
      BY <2>2, <2>3 DEF Size
    <3>2. QED
      BY <2>2, <2>3, <3>1, PartRead
  <2>5. ReadingOK' /\ DiskOK'
    BY <1>0, <2>1, <2>4 DEF ReadingOK, DiskOK, disk
  <2>6. MarksOK'
    BY <1>0, <2>1 DEF MarksOK
  <2>7. QED
    BY <2>5, <2>6, TailTypePartsNext
<1>6. CASE ReadString
  <2>1. /\ reader # <<>> /\ reader' = Tail(reader) /\ offset' = offset + 1
        /\ sent' = sent \union {Head(reader)}
        /\ UNCHANGED <<disk, tail, f, tailFaults, lostPlace, owed, late>>
    BY <1>6 DEF ReadString
  <2>2. Head(reader) \in Pieces /\ Tail(reader) \in Seq(Pieces) /\ Len(reader) \in Nat \ {0}
    BY <1>a, <2>1, TakeFirst
  <2>3. offset' \in 0 .. MaxPieces
    BY <1>b, <2>1, <2>2 DEF Written
  <2>4. ReadingOK' /\ DiskOK'
    BY <1>0, <2>1, <2>2, <2>3 DEF ReadingOK, DiskOK, disk
  <2>5. repeated' = (repeated \/ Head(reader) \in sent) /\ UNCHANGED lostPlace
    BY <1>6 DEF ReadString
  <2>6. MarksOK'
    BY <1>0, <2>5 DEF MarksOK
  <2>7. QED
    BY <2>4, <2>6, TailTypePartsNext
<1>7. CASE AtEOF
  <2>1. /\ tail' = "checking" /\ late' = {}
        /\ UNCHANGED <<disk, f, offset, reader, sent, tailFaults, lostPlace, owed, repeated>>
    BY <1>7 DEF AtEOF
  <2>2. ReadingOK' /\ DiskOK'
    BY <1>0, <2>1 DEF ReadingOK, DiskOK, disk
  <2>3. MarksOK'
    BY <1>0, <2>1 DEF MarksOK
  <2>4. QED
    BY <2>2, <2>3, TailTypePartsNext
<1>8. CASE Check
  <2>1. /\ tail' \in {"closed", "reading"} /\ (offset' = 0 \/ offset' = offset)
        /\ owed' \subseteq owed
        /\ UNCHANGED <<disk, f, reader, sent, tailFaults, lostPlace, late, repeated>>
    BY <1>8 DEF Check
  <2>2. offset' \in 0 .. MaxPieces
    BY <1>b, <2>1
  <2>3. ReadingOK' /\ DiskOK'
    BY <1>0, <2>1, <2>2 DEF ReadingOK, DiskOK, disk
  <2>4. MarksOK'
    BY <1>0, <2>1 DEF MarksOK
  <2>5. QED
    BY <2>3, <2>4, TailTypePartsNext
<1>9. CASE ReadError
  <2>1. /\ tailFaults < MaxTailFaults /\ tailFaults' = tailFaults + 1
        /\ tail' = "closed" /\ owed' \subseteq owed
        /\ UNCHANGED <<disk, f, offset, reader, sent, late, repeated>>
    BY <1>9 DEF ReadError
  <2>2. ReadingOK' /\ DiskOK'
    BY <1>0, <2>1 DEF ReadingOK, DiskOK, disk
  <2>3. lostPlace' = (lostPlace \/ offset = 0)
    BY <1>9 DEF ReadError
  <2>4. MarksOK'
    BY <1>0, <2>1, <2>3 DEF MarksOK
  <2>5. QED
    BY <2>2, <2>4, TailTypePartsNext
<1>10. CASE AgentRestarts
  <2>1. /\ tailFaults < MaxTailFaults /\ tailFaults' = tailFaults + 1
        /\ tail' = "closed" /\ offset' = 0 /\ reader' = <<>>
        /\ lostPlace' = TRUE /\ owed' \subseteq owed
        /\ UNCHANGED <<disk, f, sent, late, repeated>>
    BY <1>10 DEF AgentRestarts
  <2>2. ReadingOK' /\ DiskOK'
    BY <1>0, <1>b, <2>1 DEF ReadingOK, DiskOK, disk
  <2>3. MarksOK'
    BY <1>0, <2>1 DEF MarksOK
  <2>4. QED
    BY <2>2, <2>3, TailTypePartsNext
<1>11. CASE UNCHANGED tailVars
  <2>1. ReadingOK' /\ DiskOK'
    BY <1>0, <1>11 DEF tailVars, ReadingOK, DiskOK
  <2>2. MarksOK'
    BY <1>0, <1>11 DEF tailVars, MarksOK
  <2>3. QED
    BY <2>1, <2>2, TailTypePartsNext
<1>12. QED
  BY <1>1, <1>2, <1>3, <1>4, <1>5, <1>6, <1>7, <1>8, <1>9, <1>10, <1>11 DEF TailNext

(* What a Fill puts into the reader: the pieces from the offset on.          *)
LEMMA Filled ==
    ASSUME TailTypeOK, Placed, Fill
    PROVE  \E last \in offset + 1 .. Size(f) :
               /\ reader' \in Seq(Pieces) /\ Len(reader') = last - offset
               /\ DOMAIN reader' = 1 .. last - offset
               /\ \A i \in 1 .. last - offset : reader'[i] = content[f][offset + i]
               /\ \A k \in offset + 1 .. last : content[f][k] \in Range(reader')
               /\ \A x \in Range(reader') : \E k \in offset + 1 .. last : x = content[f][k]
<1>1. f \in Files
  BY TailFacts DEF Fill, Placed
<1>2. PICK last \in offset + 1 .. Size(f) : reader' = SubSeq(content[f], offset + 1, last)
  BY DEF Fill
<1> DEFINE s == content[f]
           m == offset + 1
<1>3. s \in Seq(Pieces) /\ m \in Nat \ {0} /\ last \in m .. Len(s) /\ offset \in Nat
  BY <1>1, <1>2, TailFacts DEF Size
<1>4. reader' = SubSeq(s, m, last)
  BY <1>2
<1> HIDE DEF s, m
<1>5. /\ reader' \in Seq(Pieces) /\ Len(reader') = (last - m) + 1
      /\ DOMAIN reader' = 1 .. (last - m) + 1
      /\ \A i \in 1 .. (last - m) + 1 : reader'[i] = s[(m + i) - 1]
  BY <1>3, <1>4, PartRead
<1>6. \A k \in m .. last : s[k] \in Range(reader')
  BY <1>3, <1>4, PartRead
<1>7. \A x \in Range(reader') : \E k \in m .. last : x = s[k]
  BY <1>3, <1>4, PartRead
<1>8. last \in Int /\ (last - m) + 1 = last - offset
  BY <1>2, <1>3 DEF m
<1>9. \A i \in 1 .. last - offset : (m + i) - 1 = offset + i
  BY <1>3, <1>8 DEF m
<1>10. \A i \in 1 .. last - offset : reader'[i] = s[offset + i]
  BY <1>5, <1>8, <1>9
<1>11. QED
  BY <1>2, <1>5, <1>6, <1>7, <1>8, <1>10 DEF s, m

(* Pieces get their numbers in the order they are written.                   *)
LEMMA WrittenNext == TailTypeOK /\ Written /\ Placed /\ [TailNext]_tailVars => Written'
<1> SUFFICES ASSUME TailTypeOK, Written, Placed, [TailNext]_tailVars PROVE Written'
  OBVIOUS
<1>a. /\ path \in Files \union {NoFile} /\ f \in Files \union {NoFile} /\ NoFile \notin Files
      /\ reader \in Seq(Pieces) /\ content \in [Files -> Seq(Pieces)]
      /\ offset \in Nat /\ Len(reader) \in Nat /\ written \in Nat
  BY TailFacts
<1>b. \A file \in Files : /\ content[file] \in Seq(1 .. written) /\ Increasing(content[file])
                          /\ Range(content[file]) \subseteq 1 .. written
                          /\ Size(file) \in Nat /\ Size(file) <= written
  BY TailFacts, RangeOfSeq DEF Written
<1>c. \A g, h \in Files : g # h => Range(content[g]) \intersect Range(content[h]) = {}
  BY DEF Written
<1>d. sent \union Range(reader) \subseteq 1 .. written /\ offset + Len(reader) <= written
  BY DEF Written
<1>e. ASSUME UNCHANGED <<content, written>>,
             sent' \union Range(reader') \subseteq 1 .. written,
             offset' + Len(reader') <= written
      PROVE  Written'
  BY <1>b, <1>c, <1>e DEF Written, Size
<1>1. CASE \E file \in {path, f} \ {NoFile} : Write(file)
  <2>1. PICK file \in {path, f} \ {NoFile} : Write(file)
    BY <1>1
  <2> DEFINE w == written + 1
  <2>2. /\ written' = w /\ content' = [content EXCEPT ![file] = Append(@, w)]
        /\ UNCHANGED <<offset, reader, sent>>
    BY <2>1 DEF Write
  <2>3. file \in Files /\ w \in 1 .. w /\ 1 .. written \subseteq 1 .. w /\ w \notin 1 .. written
    BY <1>a
  <2>4. /\ content'[file] = Append(content[file], w)
        /\ \A g \in Files : g # file => content'[g] = content[g]
    BY <1>a, <2>2, <2>3
  <2>5. content[file] \in Seq(1 .. w) /\ content[file] \in Seq(Int)
    <3>1. content[file] \in Seq(1 .. w)
      BY <1>b, <2>3, SeqMonotonic
    <3>2. QED
      BY <2>3, <3>1, TailFacts
  <2>6. \A d \in Range(content[file]) : d < w
    <3>1. \A d \in 1 .. written : d < w
      BY <1>a
    <3>2. QED
      BY <1>b, <2>3, <3>1
  <2>7. /\ Append(content[file], w) \in Seq(1 .. w)
        /\ Len(Append(content[file], w)) = Size(file) + 1
        /\ Range(Append(content[file], w)) = Range(content[file]) \union {w}
    BY <2>3, <2>5, PutLast DEF Size
  <2>8. Increasing(Append(content[file], w))
    <3>1. w \in Int
      BY <1>a
    <3>2. QED
      BY <1>b, <2>3, <2>5, <2>6, <3>1, IncreasingAppend
  <2>9. ASSUME NEW g \in Files
        PROVE  /\ content'[g] \in Seq(1 .. w) /\ Increasing(content'[g])
               /\ Len(content'[g]) <= w
    <3>1. CASE g = file
      <4>1. Size(file) + 1 <= w
        BY <1>a, <1>b, <2>3
      <4>2. QED
        BY <2>4, <2>7, <2>8, <3>1, <4>1
    <3>2. CASE g # file
      <4>1. content[g] \in Seq(1 .. w)
        BY <1>b, <2>3, SeqMonotonic
      <4>2. Size(g) <= w
        BY <1>a, <1>b
      <4>3. QED
        BY <1>b, <2>4, <3>2, <4>1, <4>2 DEF Size
    <3>3. QED
      BY <3>1, <3>2
  <2>10. ASSUME NEW g \in Files, NEW h \in Files, g # h
         PROVE  Range(content'[g]) \intersect Range(content'[h]) = {}
    <3>1. w \notin Range(content[g]) /\ w \notin Range(content[h])
      BY <1>b, <2>3
    <3>2. Range(content[g]) \intersect Range(content[h]) = {}
      BY <1>c, <2>10
    <3>3. QED
      BY <2>4, <2>7, <2>10, <3>1, <3>2
  <2>11. sent' \union Range(reader') \subseteq 1 .. w /\ offset' + Len(reader') <= w
    BY <1>a, <1>d, <2>2, <2>3
  <2> HIDE DEF w
  <2>12. QED
    BY <2>2, <2>9, <2>10, <2>11 DEF Written, Size
<1>2. CASE Truncate
  <2>1. /\ path # NoFile /\ content' = [content EXCEPT ![path] = <<>>]
        /\ UNCHANGED <<written, offset, reader, sent>>
    BY <1>2 DEF Truncate
  <2>2. /\ path \in Files /\ content'[path] = <<>>
        /\ \A g \in Files : g # path => content'[g] = content[g]
    BY <1>a, <2>1
  <2>3. <<>> \in Seq(1 .. written) /\ Increasing(<<>>) /\ Len(<<>>) = 0 /\ Range(<<>>) = {}
    BY NothingInEmpty DEF Increasing
  <2>4. 0 <= written
    BY <1>a
  <2>5. \A g \in Files : /\ content'[g] \in Seq(1 .. written) /\ Increasing(content'[g])
                         /\ Len(content'[g]) <= written
    BY <1>b, <2>2, <2>3, <2>4 DEF Size
  <2>6. \A g, h \in Files : g # h => Range(content'[g]) \intersect Range(content'[h]) = {}
    BY <1>c, <2>2, <2>3
  <2>7. QED
    BY <1>d, <2>1, <2>5, <2>6 DEF Written, Size
<1>3. CASE Open
  <2>1. /\ tail = "closed" /\ path # NoFile /\ (offset' = offset \/ offset' = Size(path))
        /\ UNCHANGED <<content, written, reader, sent>>
    BY <1>3 DEF Open, StartAt, disk
  <2>2. reader = <<>> /\ Len(<<>>) = 0
    BY <2>1 DEF Placed
  <2>3. offset' + Len(reader') <= written
    BY <1>a, <1>b, <1>d, <2>1, <2>2
  <2>4. QED
    BY <1>d, <1>e, <2>1, <2>3
<1>4. CASE Fill
  <2>1. tail = "reading" /\ UNCHANGED <<content, written, offset, sent>>
    BY <1>4 DEF Fill, disk
  <2>2. f \in Files
    BY <1>a, <2>1 DEF Placed
  <2>3. PICK last \in offset + 1 .. Size(f) :
                /\ Len(reader') = last - offset
                /\ \A x \in Range(reader') : \E k \in offset + 1 .. last : x = content[f][k]
    BY <1>4, Filled
  <2>4. content[f] \in Seq(Pieces) /\ DOMAIN content[f] = 1 .. Size(f)
    BY <2>2, TailFacts
  <2>6. offset + 1 .. last \subseteq DOMAIN content[f]
    BY <1>a, <1>b, <2>2, <2>3, <2>4
  <2>7. Range(reader') \subseteq 1 .. written
    BY <1>b, <2>2, <2>3, <2>6 DEF Range
  <2>8. offset' + Len(reader') <= written
    BY <1>a, <1>b, <2>1, <2>2, <2>3, <2>3
  <2>9. QED
    BY <1>d, <1>e, <2>1, <2>7, <2>8
<1>5. CASE ReadString
  <2>1. /\ reader # <<>> /\ reader' = Tail(reader) /\ offset' = offset + 1
        /\ sent' = sent \union {Head(reader)} /\ UNCHANGED <<content, written>>
    BY <1>5 DEF ReadString, disk
  <2>2. /\ Range(reader) = {Head(reader)} \union Range(Tail(reader))
        /\ Len(Tail(reader)) = Len(reader) - 1
    BY <1>a, <2>1, TakeFirst
  <2>3. offset' + Len(reader') <= written
    BY <1>a, <1>d, <2>1, <2>2
  <2>4. QED
    BY <1>d, <1>e, <2>1, <2>2, <2>3
<1>6. CASE Check \/ AgentRestarts
  <2>1. /\ offset' = 0 \/ offset' = offset
        /\ reader' = <<>> \/ reader' = reader
        /\ UNCHANGED <<content, written, sent>>
    BY <1>6 DEF Check, AgentRestarts, disk
  <2>2. offset' + Len(reader') <= written
    <3>1. Len(<<>>) = 0
      OBVIOUS
    <3>2. QED
      BY <1>a, <1>d, <2>1, <3>1
  <2>3. QED
    BY <1>d, <1>e, <2>1, <2>2, NothingInEmpty
<1>7. CASE MoveAway \/ CreateAnew \/ AtEOF \/ ReadError \/ UNCHANGED tailVars
  <2>1. UNCHANGED <<content, written, offset, reader, sent>>
    BY <1>7 DEF MoveAway, CreateAnew, AtEOF, ReadError, tailVars, disk
  <2>2. QED
    BY <1>d, <1>e, <2>1
<1>8. QED
  BY <1>1, <1>2, <1>3, <1>4, <1>5, <1>6, <1>7 DEF TailNext

(* What disturbs the place is noticed: a rename, a cut, a failed read.       *)
LEMMA PlacedNext == TailTypeOK /\ Placed /\ [TailNext]_tailVars => Placed'
<1> SUFFICES ASSUME TailTypeOK, Placed, [TailNext]_tailVars PROVE Placed'
  OBVIOUS
<1>a. /\ path \in Files \union {NoFile} /\ f \in Files \union {NoFile} /\ NoFile \notin Files
      /\ reader \in Seq(Pieces) /\ content \in [Files -> Seq(Pieces)]
      /\ \A file \in Files : content[file] \in Seq(Pieces) /\ Size(file) \in Nat
      /\ offset \in Nat /\ Len(reader) \in Nat /\ written \in Nat
      /\ newest \in Nat /\ f \in Nat /\ NoFile = 0
  BY TailFacts
<1>b. Len(<<>>) = 0
  OBVIOUS
<1>1. CASE \E file \in {path, f} \ {NoFile} : Write(file)
  <2>1. PICK file \in {path, f} \ {NoFile} : Write(file)
    BY <1>1
  <2>2. /\ written < MaxPieces /\ written' = written + 1
        /\ content' = [content EXCEPT ![file] = Append(@, written')]
        /\ UNCHANGED <<path, newest, tail, f, offset, reader, lostPlace>>
    BY <2>1 DEF Write
  <2>3. file \in Files /\ written' \in Pieces
    BY <1>a, <2>2, TailTypeParts, TailAssumption DEF Pieces, DiskOK
  <2>4. f \in Files => Size(f)' >= Size(f) /\ Size(f)' \in Nat
    <3>1. CASE f = file
      <4>1. content'[f] = Append(content[f], written')
        BY <1>a, <2>2, <2>3, <3>1
      <4>2. Len(Append(content[f], written')) = Len(content[f]) + 1
        BY <1>a, <2>3, <3>1, PutLast
      <4>3. Size(f)' = Len(content'[f]) /\ Size(f) = Len(content[f])
        BY <2>2 DEF Size
      <4>4. QED
        BY <1>a, <2>3, <3>1, <4>1, <4>2, <4>3
    <3>2. CASE f # file
      BY <1>a, <2>2, <3>2 DEF Size
    <3>3. QED
      BY <3>1, <3>2
  <2>5. ASSUME ~lostPlace PROVE offset + Len(reader) <= Size(f)'
    <3>1. f \in Files /\ offset + Len(reader) <= Size(f)
      BY <1>a, <2>5 DEF Placed
    <3>2. QED
      BY <1>a, <2>4, <3>1
  <2>6. QED
    BY <2>2, <2>5 DEF Placed, Size
<1>2. CASE Truncate
  <2>1. /\ path # NoFile /\ content' = [content EXCEPT ![path] = <<>>]
        /\ path = f => lostPlace' = TRUE
        /\ path # f => lostPlace' = lostPlace
        /\ UNCHANGED <<path, newest, tail, f, offset, reader>>
    BY <1>2 DEF Truncate
  <2>2. lostPlace'
    BY <2>1 DEF Placed
  <2>3. QED
    BY <2>1, <2>2 DEF Placed
<1>3. CASE MoveAway
  <2>1. path' = NoFile /\ lostPlace' = TRUE /\ UNCHANGED <<newest, tail, f, offset, reader>>
    BY <1>3 DEF MoveAway
  <2>2. QED
    BY <2>1 DEF Placed
<1>4. CASE CreateAnew
  <2>1. /\ path = NoFile /\ newest' = newest + 1 /\ path' = newest'
        /\ UNCHANGED <<tail, f, offset, reader, lostPlace>>
    BY <1>4 DEF CreateAnew
  <2>2. lostPlace
    BY <2>1 DEF Placed
  <2>3. f <= newest'
    BY <1>a, <2>1 DEF Placed
  <2>4. QED
    BY <2>1, <2>2, <2>3 DEF Placed
<1>5. CASE Open
  <2>1. /\ tail = "closed" /\ path # NoFile /\ tail' = "reading" /\ f' = path
        /\ offset' = StartAt(Size(path)) /\ UNCHANGED <<path, newest, content, reader>>
    BY <1>5 DEF Open, disk
  <2>2. reader = <<>> /\ path = newest /\ path \in Files
    BY <1>a, <2>1 DEF Placed
  <2>3. offset' + Len(reader') <= Size(f)'
    <3>1. offset' \in Nat /\ offset' <= Size(path)
      BY <1>a, <2>1, <2>2 DEF StartAt
    <3>2. Size(f)' = Size(path)
      BY <2>1 DEF Size
    <3>3. QED
      BY <1>b, <2>1, <2>2, <3>1, <3>2
  <2>4. newest <= newest
    BY <1>a
  <2>5. QED
    BY <2>1, <2>2, <2>3, <2>4 DEF Placed
<1>6. CASE Fill
  <2>1. tail = "reading" /\ UNCHANGED <<path, newest, content, tail, f, offset, lostPlace>>
    BY <1>6 DEF Fill, disk
  <2>2. f \in Files
    BY <1>a, <2>1 DEF Placed
  <2>3. PICK last \in offset + 1 .. Size(f) : Len(reader') = last - offset
    BY <1>6, Filled
  <2>4. offset + Len(reader') <= Size(f)
    BY <1>a, <2>2, <2>3
  <2>5. QED
    BY <2>1, <2>4 DEF Placed, Size
<1>7. CASE ReadString
  <2>1. /\ tail = "reading" /\ reader # <<>> /\ reader' = Tail(reader) /\ offset' = offset + 1
        /\ UNCHANGED <<path, newest, content, tail, f, lostPlace>>
    BY <1>7 DEF ReadString, disk
  <2>2. Len(Tail(reader)) = Len(reader) - 1
    BY <1>a, <2>1, TakeFirst
  <2>3. offset' + Len(reader') = offset + Len(reader)
    BY <1>a, <2>1, <2>2
  <2>4. QED
    BY <2>1, <2>3 DEF Placed, Size
<1>8. CASE AtEOF
  <2>1. /\ tail = "reading" /\ reader = <<>> /\ tail' = "checking"
        /\ UNCHANGED <<path, newest, content, f, offset, reader, lostPlace>>
    BY <1>8 DEF AtEOF, disk
  <2>2. QED
    BY <2>1 DEF Placed, Size
<1>9. CASE Check
  <2>1. /\ tail = "checking" /\ UNCHANGED <<path, newest, content, f, reader, lostPlace>>
        /\ \/ path # NoFile /\ Size(path) < offset /\ tail' = "closed"
           \/ tail' = "reading" /\ UNCHANGED offset
    BY <1>9 DEF Check, Truncated, disk
  <2>2. CASE path # NoFile /\ Size(path) < offset /\ tail' = "closed"
    <3>1. lostPlace
      <4>1. Size(path) \in Nat /\ reader = <<>>
        BY <1>a, <2>1, <2>2 DEF Placed
      <4>2. ~(offset + 0 <= Size(path))
        BY <1>a, <2>2, <4>1
      <4>3. QED
        BY <1>b, <4>1, <4>2 DEF Placed
    <3>2. QED
      BY <2>1, <2>2, <3>1 DEF Placed
  <2>3. CASE tail' = "reading" /\ UNCHANGED offset
    BY <2>1, <2>3 DEF Placed, Size
  <2>4. QED
    BY <2>1, <2>2, <2>3
<1>10. CASE ReadError
  <2>1. /\ tail = "reading" /\ reader = <<>> /\ tail' = "closed"
        /\ lostPlace' = (lostPlace \/ offset = 0)
        /\ UNCHANGED <<path, newest, content, f, offset, reader>>
    BY <1>10 DEF ReadError, disk
  <2>2. QED
    BY <2>1 DEF Placed, Size
<1>11. CASE AgentRestarts
  <2>1. /\ tail' = "closed" /\ reader' = <<>> /\ lostPlace' = TRUE
        /\ UNCHANGED <<path, newest, f>>
    BY <1>11 DEF AgentRestarts, disk
  <2>2. QED
    BY <2>1 DEF Placed
<1>12. CASE UNCHANGED tailVars
  BY <1>12 DEF tailVars, Placed, Size
<1>13. QED
  BY <1>1, <1>2, <1>3, <1>4, <1>5, <1>6, <1>7, <1>8, <1>9, <1>10, <1>11, <1>12 DEF TailNext

(* A truncation noticed by its size is one of the file the path names now,   *)
(* and the place in the file that is open was lost before.                   *)
LEMMA CheckedAfterLoss ==
    ASSUME TailTypeOK, Placed, tail = "checking", path # NoFile, Size(path) < offset
    PROVE  lostPlace
<1>1. path \in Files /\ Size(path) \in Nat /\ offset \in Nat
  BY TailFacts
<1>2. reader = <<>> /\ Len(<<>>) = 0
  BY DEF Placed
<1>3. ~(offset + Len(reader) <= Size(path))
  BY <1>1, <1>2
<1>4. QED
  BY <1>3 DEF Placed

(* What is owed stays among what was submitted and what is to come.          *)
LEMMA SettledNext ==
    TailTypeOK /\ Placed /\ Settled /\ [TailNext]_tailVars => Settled'
<1> SUFFICES ASSUME TailTypeOK, Placed, Settled, [TailNext]_tailVars PROVE Settled'
  OBVIOUS
<1>a. /\ path \in Files \union {NoFile} /\ f \in Files \union {NoFile} /\ NoFile \notin Files
      /\ reader \in Seq(Pieces) /\ content \in [Files -> Seq(Pieces)]
      /\ \A file \in Files : content[file] \in Seq(Pieces) /\ Size(file) \in Nat
      /\ offset \in Nat /\ Len(reader) \in Nat /\ written \in Nat /\ NoFile = 0
  BY TailFacts
<1>b. Len(<<>>) = 0 /\ Range(<<>>) = {}
  BY NothingInEmpty
<1>c. ToCome = Range(reader) \union {content[f][k] : k \in Unread}
  BY DEF ToCome, Unread
<1>d. ToCome' = Range(reader') \union {content'[f'][k] : k \in Unread'}
  BY DEF ToCome, Unread
<1>e. /\ tail = "closed" /\ lostPlace => owed \subseteq sent
      /\ tail = "checking" => owed \subseteq sent \union late
      /\ owed \subseteq sent \union ToCome
      /\ tail # "reading" => reader = <<>>
  BY DEF Settled, Placed
<1>f. UNCHANGED <<content, f, offset, reader>> => ToCome' = ToCome
  BY DEF ToCome, Size
<1>1. CASE \E file \in {path, f} \ {NoFile} : Write(file)
  <2>1. PICK file \in {path, f} \ {NoFile} : Write(file)
    BY <1>1
  <2> DEFINE w == written + 1
  <2>2. /\ written < MaxPieces /\ written' = w
        /\ content' = [content EXCEPT ![file] = Append(@, w)]
        /\ owed' = IF WillBeRead(file) THEN owed \union {w} ELSE owed
        /\ late' = IF file = f /\ tail = "checking" THEN late \union {w} ELSE late
        /\ UNCHANGED <<tail, f, offset, reader, sent, lostPlace>>
    BY <2>1 DEF Write
  <2>3. file \in Files /\ w \in Pieces
    BY <1>a, <2>2, TailAssumption DEF Pieces
  <2>4. ASSUME f \in Files
        PROVE  /\ Size(f) <= Size(f)' /\ Size(f)' \in Nat
               /\ \A k \in 1 .. Size(f) : content'[f][k] = content[f][k]
               /\ f = file => Size(f)' = Size(f) + 1 /\ content'[f][Size(f) + 1] = w
    <3>1. CASE f = file
      <4>1. content'[f] = Append(content[f], w)
        BY <1>a, <2>2, <2>3, <3>1
      <4>2. /\ Len(Append(content[f], w)) = Len(content[f]) + 1
            /\ \A k \in 1 .. Len(content[f]) : Append(content[f], w)[k] = content[f][k]
            /\ Append(content[f], w)[Len(content[f]) + 1] = w
        BY <1>a, <2>3, <3>1, PutLast
      <4>3. /\ Size(f)' = Size(f) + 1 /\ content'[f][Size(f) + 1] = w
            /\ \A k \in 1 .. Size(f) : content'[f][k] = content[f][k]
        BY <2>2, <4>1, <4>2 DEF Size
      <4>4. QED
        BY <1>a, <2>4, <4>3
    <3>2. CASE f # file
      <4>1. content'[f] = content[f] /\ Size(f)' = Size(f)
        BY <1>a, <2>2, <2>4, <3>2 DEF Size
      <4>2. QED
        BY <1>a, <2>4, <3>2, <4>1
    <3>3. QED
      BY <3>1, <3>2
  <2>5. ASSUME NEW x \in ToCome PROVE x \in ToCome'
    <3>1. CASE x \in Range(reader)
      BY <1>d, <2>2, <3>1
    <3>2. CASE x \notin Range(reader)
      <4>1. PICK k \in Unread : x = content[f][k]
        BY <1>c, <3>2
      <4>2. f \in Files /\ k \in 1 .. Size(f)
        BY <1>a, <4>1 DEF Unread
      <4>3. k \in Unread'
        BY <1>a, <2>2, <2>4, <4>1, <4>2 DEF Unread
      <4>4. content'[f'][k] = x
        BY <2>2, <2>4, <4>1, <4>2
      <4>5. QED
        BY <1>d, <4>3, <4>4
    <3>3. QED
      BY <3>1, <3>2
  <2>6. ASSUME WillBeRead(file) PROVE w \in ToCome' /\ file = f /\ ~(tail = "closed" /\ lostPlace)
    <3>1. file = f /\ Size(f) >= offset + Len(reader) /\ (tail # "closed" \/ ~lostPlace)
      BY <2>6 DEF WillBeRead
    <3>2. Size(f) + 1 \in Unread'
      BY <1>a, <2>2, <2>3, <2>4, <3>1 DEF Unread
    <3>3. content'[f'][Size(f) + 1] = w
      BY <2>2, <2>3, <2>4, <3>1
    <3>4. QED
      BY <1>d, <3>1, <3>2, <3>3
  <2> HIDE DEF w
  <2>7. owed' \subseteq sent' \union ToCome'
    BY <1>e, <2>2, <2>5, <2>6
  <2>8. tail' = "closed" /\ lostPlace' => owed' \subseteq sent'
    BY <1>e, <2>2, <2>6
  <2>9. tail' = "checking" => owed' \subseteq sent' \union late'
    BY <1>e, <2>2, <2>6
  <2>10. QED
    BY <2>7, <2>8, <2>9 DEF Settled
<1>2. CASE Truncate
  <2>1. /\ path # NoFile /\ content' = [content EXCEPT ![path] = <<>>]
        /\ path = f => owed' = owed \intersect (sent \union Range(reader))
        /\ path # f => UNCHANGED <<lostPlace, owed>>
        /\ UNCHANGED <<tail, f, offset, reader, sent, late>>
    BY <1>2 DEF Truncate
  <2>2. CASE path = f
    <3>1. owed' \subseteq sent' \union ToCome'
      BY <1>d, <2>1, <2>2
    <3>2. tail' = "closed" => owed' \subseteq sent'
      BY <1>b, <1>e, <2>1, <2>2
    <3>3. QED
      BY <1>e, <2>1, <2>2, <3>1, <3>2 DEF Settled
  <2>3. CASE path # f
    <3>1. f \in Files => content'[f] = content[f]
      BY <1>a, <2>1, <2>3
    <3>2. Unread' = Unread
      BY <1>a, <2>1, <3>1 DEF Unread, Size
    <3>3. f = NoFile => Unread = {}
      BY <1>a DEF Unread
    <3>4. \A k \in Unread : content'[f][k] = content[f][k]
      BY <1>a, <3>1, <3>3
    <3>5. ToCome' = ToCome
      BY <1>c, <1>d, <2>1, <3>2, <3>4
    <3>6. QED
      BY <1>e, <2>1, <2>3, <3>5 DEF Settled
  <2>4. QED
    BY <2>2, <2>3
<1>3. CASE MoveAway
  <2>1. /\ owed' = IF tail = "closed" THEN owed \intersect sent ELSE owed
        /\ UNCHANGED <<content, tail, f, offset, reader, sent, late>>
    BY <1>3 DEF MoveAway
  <2>2. QED
    BY <1>e, <1>f, <2>1 DEF Settled
<1>4. CASE Open
  <2>1. /\ tail = "closed" /\ tail' = "reading" /\ f' = path
        /\ offset' = StartAt(Size(path)) /\ UNCHANGED <<content, reader, sent, owed>>
    BY <1>4 DEF Open, disk
  <2>2. CASE lostPlace
    BY <1>e, <2>1, <2>2 DEF Settled
  <2>3. CASE ~lostPlace
    <3>1. f \in Files /\ path = f /\ offset # 0 /\ offset + Len(reader) <= Size(f) /\ reader = <<>>
      BY <1>a, <1>e, <2>1, <2>3 DEF Placed
    <3>2. offset <= Size(f)
      BY <1>a, <1>b, <3>1
    <3>3. offset' = offset /\ f' = f
      BY <1>a, <2>1, <3>1, <3>2 DEF StartAt
    <3>4. ToCome' = ToCome
      BY <1>f, <2>1, <3>3
    <3>5. QED
      BY <1>e, <2>1, <3>4 DEF Settled
  <2>4. QED
    BY <2>2, <2>3
<1>5. CASE Fill
  <2>1. tail = "reading" /\ reader = <<>>
        /\ UNCHANGED <<content, tail, f, offset, sent, owed>>
    BY <1>5 DEF Fill, disk
  <2>2. f \in Files
    BY <1>a, <2>1 DEF Placed
  <2>3. PICK last \in offset + 1 .. Size(f) :
                /\ Len(reader') = last - offset
                /\ \A k \in offset + 1 .. last : content[f][k] \in Range(reader')
    BY <1>5, Filled
  <2>4. ASSUME NEW x \in ToCome PROVE x \in ToCome'
    <3>1. PICK k \in Unread : x = content[f][k]
      BY <1>b, <1>c, <2>1
    <3>2. k \in offset + 1 .. Size(f)
      BY <1>a, <1>b, <2>1, <2>2, <3>1 DEF Unread
    <3>3. CASE k <= last
      <4>1. k \in offset + 1 .. last
        BY <2>3, <3>2, <3>3
      <4>2. QED
        BY <1>d, <2>3, <3>1, <4>1
    <3>4. CASE ~(k <= last)
      <4>1. k \in Unread'
        BY <1>a, <2>1, <2>2, <2>3, <3>2, <3>4 DEF Unread, Size
      <4>2. QED
        BY <1>d, <2>1, <3>1, <4>1
    <3>5. QED
      BY <3>3, <3>4
  <2>5. QED
    BY <1>e, <2>1, <2>4 DEF Settled
<1>6. CASE ReadString
  <2>1. /\ tail = "reading" /\ reader # <<>> /\ reader' = Tail(reader) /\ offset' = offset + 1
        /\ sent' = sent \union {Head(reader)} /\ UNCHANGED <<content, tail, f, owed>>
    BY <1>6 DEF ReadString, disk
  <2>2. /\ Range(reader) = {Head(reader)} \union Range(Tail(reader))
        /\ Len(Tail(reader)) = Len(reader) - 1
    BY <1>a, <2>1, TakeFirst
  <2>3. offset' + Len(reader') = offset + Len(reader)
    BY <1>a, <2>1, <2>2
  <2>4. Unread' = Unread
    BY <2>1, <2>3 DEF Unread, Size
  <2>5. sent \union ToCome \subseteq sent' \union ToCome'
    BY <1>c, <1>d, <2>1, <2>2, <2>4
  <2>6. QED
    BY <1>e, <2>1, <2>5 DEF Settled
<1>7. CASE AtEOF
  <2>1. /\ tail = "reading" /\ reader = <<>> /\ Size(f) <= offset
        /\ tail' = "checking" /\ UNCHANGED <<content, f, offset, reader, sent, owed>>
    BY <1>7 DEF AtEOF, disk
  <2>2. f \in Files
    BY <1>a, <2>1 DEF Placed
  <2>3. Unread = {}
    BY <1>a, <1>b, <2>1, <2>2 DEF Unread
  <2>4. ToCome = {}
    BY <1>b, <1>c, <2>1, <2>3
  <2>5. QED
    BY <1>e, <1>f, <2>1, <2>4 DEF Settled
<1>8. CASE Check
  <2>1. /\ tail = "checking" /\ UNCHANGED <<content, f, reader, sent, lostPlace>>
        /\ \/ /\ path # NoFile /\ Size(path) < offset /\ tail' = "closed"
              /\ owed' = IF lostPlace THEN owed \ late ELSE owed
           \/ tail' = "reading" /\ UNCHANGED <<offset, owed>>
    BY <1>8 DEF Check, Truncated, disk
  <2>2. CASE /\ path # NoFile /\ Size(path) < offset /\ tail' = "closed"
             /\ owed' = IF lostPlace THEN owed \ late ELSE owed
    <3>1. lostPlace
      BY <2>1, <2>2, CheckedAfterLoss
    <3>2. owed' \subseteq sent'
      BY <1>e, <2>1, <2>2, <3>1
    <3>3. QED
      BY <2>2, <3>2 DEF Settled
  <2>3. CASE tail' = "reading" /\ UNCHANGED <<offset, owed>>
    BY <1>e, <1>f, <2>1, <2>3 DEF Settled
  <2>4. QED
    BY <2>1, <2>2, <2>3
<1>9. CASE ReadError
  <2>1. /\ tail' = "closed" /\ owed' = IF lostPlace' THEN owed \intersect sent ELSE owed
        /\ UNCHANGED <<content, f, offset, reader, sent>>
    BY <1>9 DEF ReadError, disk
  <2>2. QED
    BY <1>e, <1>f, <2>1 DEF Settled
<1>10. CASE AgentRestarts
  <2>1. tail' = "closed" /\ owed' = owed \intersect sent /\ UNCHANGED sent
    BY <1>10 DEF AgentRestarts
  <2>2. QED
    BY <2>1 DEF Settled
<1>11. CASE CreateAnew \/ UNCHANGED tailVars
  <2>1. UNCHANGED <<content, tail, f, offset, reader, sent, lostPlace, owed, late>>
    BY <1>11 DEF CreateAnew, tailVars
  <2>2. QED
    BY <1>e, <1>f, <2>1 DEF Settled
<1>12. QED
  BY <1>1, <1>2, <1>3, <1>4, <1>5, <1>6, <1>7, <1>8, <1>9, <1>10, <1>11 DEF TailNext

(* Nothing is submitted a second time.                                       *)
LEMMA NotYetSentNext ==
    TailTypeOK /\ Written /\ Placed /\ NotYetSent /\ [TailNext]_tailVars => NotYetSent'
<1> SUFFICES ASSUME TailTypeOK, Written, Placed, NotYetSent, [TailNext]_tailVars
             PROVE  NotYetSent'
  OBVIOUS
<1>a. /\ path \in Files \union {NoFile} /\ f \in Files \union {NoFile} /\ NoFile \notin Files
      /\ reader \in Seq(Pieces) /\ reader \in Seq(Int) /\ content \in [Files -> Seq(Pieces)]
      /\ \A file \in Files : content[file] \in Seq(Pieces) /\ Size(file) \in Nat
      /\ \A file \in Files : DOMAIN content[file] = 1 .. Size(file)
      /\ offset \in Nat /\ Len(reader) \in Nat /\ written \in Nat /\ NoFile = 0
      /\ f \in Nat /\ path \in Nat /\ Files \subseteq Nat \ {0} /\ Pieces \subseteq Int
  BY TailFacts DEF Pieces
<1>b. Len(<<>>) = 0 /\ Range(<<>>) = {} /\ DOMAIN <<>> = {}
  BY NothingInEmpty
<1>c. /\ Increasing(reader) /\ Range(reader) \intersect sent = {}
      /\ \A file \in Files : file > f =>
             Range(content[file]) \intersect (sent \union Range(reader)) = {}
      /\ tail # "closed" \/ offset # 0 =>
             \A k \in Unread : content[f][k] \notin sent \union Range(reader)
      /\ ~repeated
  BY DEF NotYetSent
<1>d. /\ \A file \in Files : Increasing(content[file]) /\ Range(content[file]) \subseteq 1 .. written
      /\ \A g, h \in Files : g # h => Range(content[g]) \intersect Range(content[h]) = {}
      /\ sent \union Range(reader) \subseteq 1 .. written
  BY <1>a, RangeOfSeq DEF Written
<1>e. tail # "reading" => reader = <<>>
  BY DEF Placed
<1>f. ASSUME UNCHANGED <<content, f, offset, reader, sent, repeated>>,
             tail' # "closed" => (tail # "closed" \/ offset # 0)
      PROVE  NotYetSent'
  <2>1. Unread' = Unread
    BY <1>f DEF Unread, Size
  <2>2. tail' # "closed" \/ offset' # 0 =>
             \A k \in Unread' : content'[f'][k] \notin sent' \union Range(reader')
    BY <1>c, <1>f, <2>1
  <2>3. QED
    BY <1>c, <1>f, <2>2 DEF NotYetSent
<1>1. CASE \E file \in {path, f} \ {NoFile} : Write(file)
  <2>1. PICK file \in {path, f} \ {NoFile} : Write(file)
    BY <1>1
  <2> DEFINE w == written + 1
  <2>2. /\ content' = [content EXCEPT ![file] = Append(@, w)]
        /\ written < MaxPieces /\ written' = w
        /\ UNCHANGED <<tail, f, offset, reader, sent, repeated>>
    BY <2>1 DEF Write
  <2>3. file \in Files /\ w \in Pieces /\ w \notin 1 .. written
    BY <1>a, <2>2, TailAssumption DEF Pieces
  <2>4. w \notin sent \union Range(reader)
    BY <1>d, <2>3
  <2>5. ASSUME NEW g \in Files
        PROVE  /\ Len(content'[g]) \in {Size(g), Size(g) + 1}
               /\ Len(content'[g]) = Size(g) + 1 => content'[g][Size(g) + 1] = w
               /\ DOMAIN content'[g] = 1 .. Len(content'[g])
               /\ \A k \in 1 .. Size(g) : content'[g][k] = content[g][k]
    <3>1. CASE g = file
      <4>1. content'[g] = Append(content[g], w)
        BY <1>a, <2>2, <2>3, <3>1
      <4>2. /\ Len(Append(content[g], w)) = Len(content[g]) + 1
            /\ DOMAIN Append(content[g], w) = 1 .. Len(content[g]) + 1
            /\ \A k \in 1 .. Len(content[g]) : Append(content[g], w)[k] = content[g][k]
            /\ Append(content[g], w)[Len(content[g]) + 1] = w
        BY <1>a, <2>3, <3>1, PutLast
      <4>3. QED
        BY <4>1, <4>2 DEF Size
    <3>2. CASE g # file
      <4>1. content'[g] = content[g] /\ Len(content'[g]) = Size(g)
        BY <1>a, <2>2, <2>5, <3>2 DEF Size
      <4>2. Size(g) \in Nat /\ DOMAIN content[g] = 1 .. Size(g)
        BY <1>a, <2>5
      <4>3. QED
        BY <4>1, <4>2
    <3>3. QED
      BY <3>1, <3>2
  <2>6. ASSUME NEW g \in Files, NEW k \in 1 .. Len(content'[g]),
               content'[g][k] \in sent \union Range(reader)
        PROVE  k \in 1 .. Size(g) /\ content'[g][k] = content[g][k]
    <3>1. Size(g) \in Nat
      BY <1>a, <2>6
    <3>2. CASE Len(content'[g]) = Size(g)
      BY <2>5, <2>6, <3>2
    <3>3. CASE Len(content'[g]) = Size(g) + 1
      <4>1. k # Size(g) + 1
        BY <2>4, <2>5, <2>6, <3>3
      <4>2. k \in 1 .. Size(g)
        BY <2>6, <3>1, <3>3, <4>1
      <4>3. QED
        BY <2>5, <2>6, <4>2
    <3>4. QED
      BY <2>5, <2>6, <3>2, <3>3
  <2> HIDE DEF w
  <2>7. ASSUME NEW g \in Files, g > f, NEW x \in Range(content'[g]),
               x \in sent \union Range(reader)
        PROVE  FALSE
    <3>1. PICK k \in 1 .. Len(content'[g]) : x = content'[g][k]
      BY <2>5, <2>7 DEF Range
    <3>2. k \in 1 .. Size(g) /\ x = content[g][k]
      BY <2>6, <2>7, <3>1
    <3>3. x \in Range(content[g])
      BY <1>a, <3>2 DEF Range
    <3>4. QED
      BY <1>c, <2>7, <3>3
  <2>8. ASSUME tail # "closed" \/ offset # 0, NEW k \in Unread',
               content'[f][k] \in sent \union Range(reader)
        PROVE  FALSE
    <3>1. f \in Files
      BY <1>a, <2>2, <2>8 DEF Unread
    <3>2. k \in offset + Len(reader) + 1 .. Len(content'[f]) /\ k \in 1 .. Len(content'[f])
      BY <1>a, <2>2, <2>5, <2>8, <3>1 DEF Unread, Size
    <3>3. k \in 1 .. Size(f) /\ content'[f][k] = content[f][k]
      BY <2>6, <2>8, <3>1, <3>2
    <3>4. k \in Unread
      BY <1>a, <3>1, <3>2, <3>3 DEF Unread
    <3>5. QED
      BY <1>c, <2>8, <3>3, <3>4
  <2>9. tail' # "closed" \/ offset' # 0 =>
            \A k \in Unread' : content'[f'][k] \notin sent' \union Range(reader')
    BY <2>2, <2>8
  <2>10. QED
    BY <1>c, <2>2, <2>7, <2>9 DEF NotYetSent
<1>2. CASE Truncate
  <2>1. /\ path # NoFile /\ content' = [content EXCEPT ![path] = <<>>]
        /\ UNCHANGED <<tail, f, offset, reader, sent, repeated>>
    BY <1>2 DEF Truncate
  <2>2. \A g \in Files : content'[g] = content[g] \/ content'[g] = <<>>
    BY <1>a, <2>1
  <2>3. \A g \in Files : Range(content'[g]) \subseteq Range(content[g])
    BY <1>b, <2>2
  <2>4. ASSUME NEW k \in Unread' PROVE k \in Unread /\ content'[f][k] = content[f][k]
    <3>1. f \in Files
      BY <1>a, <2>1, <2>4 DEF Unread
    <3>2. CASE content'[f] = content[f]
      BY <2>1, <2>4, <3>2 DEF Unread, Size
    <3>3. CASE content'[f] = <<>>
      <4>1. Size(f)' = 0
        BY <1>b, <2>1, <3>3 DEF Size
      <4>2. QED
        BY <1>a, <2>1, <2>4, <4>1 DEF Unread
    <3>4. QED
      BY <2>2, <3>1, <3>2, <3>3
  <2>5. QED
    BY <1>c, <2>1, <2>3, <2>4 DEF NotYetSent
<1>3. CASE Open
  <2>1. /\ tail = "closed" /\ path # NoFile /\ tail' = "reading" /\ f' = path
        /\ offset' = StartAt(Size(path))
        /\ UNCHANGED <<path, newest, content, reader, sent, repeated>>
    BY <1>3 DEF Open, disk
  <2>2. reader = <<>> /\ path \in Files /\ path >= f
    BY <1>a, <1>e, <2>1 DEF Placed
  <2>3. \A file \in Files : file > path => file > f
    BY <1>a, <2>2
  <2>4. Unread' = offset' + 1 .. Size(path)
    BY <1>a, <1>b, <2>1, <2>2 DEF Unread, Size, StartAt
  <2>5. ASSUME NEW k \in Unread' PROVE content[path][k] \notin sent
    <3>1. offset' = offset /\ offset # 0
      BY <1>a, <2>1, <2>2, <2>4, <2>5 DEF StartAt
    <3>2. CASE path = f
      <4>0. Unread = offset + 1 .. Size(path)
        BY <1>a, <1>b, <2>2, <3>2 DEF Unread
      <4>1. k \in Unread
        BY <2>4, <2>5, <3>1, <4>0
      <4>2. QED
        BY <1>c, <3>1, <3>2, <4>1
    <3>3. CASE path # f
      <4>1. path > f /\ k \in 1 .. Size(path)
        BY <1>a, <2>2, <2>4, <2>5, <3>1, <3>3
      <4>2. content[path][k] \in Range(content[path])
        BY <1>a, <2>2, <4>1 DEF Range
      <4>3. QED
        BY <1>c, <2>2, <4>1, <4>2
    <3>4. QED
      BY <3>2, <3>3
  <2>6. QED
    BY <1>b, <1>c, <2>1, <2>2, <2>3, <2>5 DEF NotYetSent
<1>4. CASE Fill
  <2>1. tail = "reading" /\ reader = <<>> /\ UNCHANGED <<content, tail, f, offset, sent, repeated>>
    BY <1>4 DEF Fill, disk
  <2>2. f \in Files
    BY <1>a, <2>1 DEF Placed
  <2>3. PICK last \in offset + 1 .. Size(f) :
                /\ Len(reader') = last - offset /\ DOMAIN reader' = 1 .. last - offset
                /\ \A i \in 1 .. last - offset : reader'[i] = content[f][offset + i]
                /\ \A x \in Range(reader') : \E k \in offset + 1 .. last : x = content[f][k]
    BY <1>4, Filled
  <2>4. Unread = offset + 1 .. Size(f) /\ Unread' = last + 1 .. Size(f)
    BY <1>a, <1>b, <2>1, <2>2, <2>3 DEF Unread, Size
  <2>5. last \in Nat /\ last <= Size(f) /\ offset < last /\ Size(f) \in Nat
    BY <1>a, <2>2, <2>3
  <2>6. ASSUME NEW i \in DOMAIN reader', NEW j \in DOMAIN reader', i < j
        PROVE  reader'[i] < reader'[j]
    <3>1. /\ offset + i \in DOMAIN content[f] /\ offset + j \in DOMAIN content[f]
          /\ offset + i < offset + j
      BY <1>a, <2>2, <2>3, <2>5, <2>6
    <3>2. content[f][offset + i] < content[f][offset + j]
      BY <1>d, <2>2, <3>1 DEF Increasing
    <3>3. QED
      BY <2>3, <2>6, <3>2
  <2>7. ASSUME NEW x \in Range(reader')
        PROVE  /\ x \in Range(content[f]) /\ x \notin sent
               /\ \A k \in Unread' : content[f][k] # x
    <3>1. PICK k \in offset + 1 .. last : x = content[f][k]
      BY <2>3, <2>7
    <3>2. k \in Unread /\ k \in DOMAIN content[f]
      BY <1>a, <2>2, <2>4, <2>5, <3>1
    <3>3. ASSUME NEW m \in Unread' PROVE content[f][m] # x
      <4>1. m \in DOMAIN content[f] /\ k < m
        BY <1>a, <2>2, <2>4, <2>5, <3>1, <3>3
      <4>2. x < content[f][m]
        BY <1>d, <2>2, <3>1, <3>2, <4>1 DEF Increasing
      <4>3. x \in Int
        BY <1>a, <1>d, <2>2, <3>1, <3>2 DEF Range
      <4>4. QED
        BY <4>2, <4>3
    <3>4. x \in Range(content[f])
      BY <3>1, <3>2 DEF Range
    <3>5. x \notin sent
      BY <1>c, <2>1, <3>1, <3>2
    <3>6. QED
      BY <3>3, <3>4, <3>5
  <2>8. Increasing(reader)'
    BY <2>6 DEF Increasing
  <2>9. Range(reader') \intersect sent' = {}
    BY <2>1, <2>7
  <2>10. ASSUME NEW file \in Files, file > f
         PROVE  Range(content[file]) \intersect (sent \union Range(reader')) = {}
    <3>1. file # f
      BY <1>a, <2>10
    <3>2. Range(content[file]) \intersect Range(content[f]) = {}
      BY <1>d, <2>2, <2>10, <3>1
    <3>3. QED
      BY <1>c, <2>7, <2>10, <3>2
  <2>11. \A k \in Unread' : content[f][k] \notin sent \union Range(reader')
    <3>1. \A k \in Unread' : k \in Unread
      BY <2>4, <2>5, <1>a
    <3>2. \A k \in Unread' : content[f][k] \notin sent
      BY <1>c, <2>1, <3>1
    <3>3. QED
      BY <2>7, <3>2
  <2>12. QED
    BY <1>c, <2>1, <2>8, <2>9, <2>10, <2>11 DEF NotYetSent
<1>5. CASE ReadString
  <2>1. /\ tail = "reading" /\ reader # <<>> /\ reader' = Tail(reader) /\ offset' = offset + 1
        /\ sent' = sent \union {Head(reader)} /\ UNCHANGED <<content, tail, f>>
    BY <1>5 DEF ReadString, disk
  <2>2. /\ Range(reader) = {Head(reader)} \union Range(Tail(reader))
        /\ Len(Tail(reader)) = Len(reader) - 1 /\ Head(reader) \in Pieces
    BY <1>a, <2>1, TakeFirst
  <2>3. offset' + Len(reader') = offset + Len(reader)
    BY <1>a, <2>1, <2>2
  <2>4. Unread' = Unread
    BY <2>1, <2>3 DEF Unread, Size
  <2>5. Increasing(Tail(reader)) /\ \A e \in Range(Tail(reader)) : Head(reader) < e
    BY <1>a, <1>c, <2>1, IncreasingTail
  <2>6. Head(reader) \notin Range(Tail(reader)) /\ Head(reader) \notin sent
    <3>1. Head(reader) \in Int
      BY <1>a, <2>2
    <3>2. QED
      BY <1>c, <2>2, <2>5, <3>1
  <2>7. repeated' = (repeated \/ Head(reader) \in sent)
    BY <1>5 DEF ReadString
  <2>8. ~repeated'
    BY <1>c, <2>6, <2>7
  <2>9. sent' \union Range(reader') = sent \union Range(reader)
    BY <2>1, <2>2
  <2>10. Range(reader') \intersect sent' = {}
    BY <1>c, <2>1, <2>2, <2>6
  <2>11. QED
    BY <1>c, <2>1, <2>4, <2>5, <2>8, <2>9, <2>10 DEF NotYetSent
<1>6. CASE Check
  <2>1. /\ tail = "checking" /\ UNCHANGED <<content, f, reader, sent, repeated>>
        /\ \/ tail' = "closed" /\ offset' = 0
           \/ offset' = offset
    BY <1>6 DEF Check, disk
  <2>2. CASE tail' = "closed" /\ offset' = 0
    BY <1>c, <2>1, <2>2 DEF NotYetSent
  <2>3. CASE offset' = offset
    BY <1>f, <2>1, <2>3
  <2>4. QED
    BY <2>1, <2>2, <2>3
<1>7. CASE AgentRestarts
  <2>1. /\ tail' = "closed" /\ offset' = 0 /\ reader' = <<>>
        /\ UNCHANGED <<content, f, sent, repeated>>
    BY <1>7 DEF AgentRestarts, disk
  <2>2. Increasing(<<>>)
    BY <1>b DEF Increasing
  <2>3. QED
    BY <1>b, <1>c, <2>1, <2>2 DEF NotYetSent
<1>8. CASE MoveAway \/ CreateAnew
  <2>1. UNCHANGED <<content, tail, f, offset, reader, sent, repeated>>
    BY <1>8 DEF MoveAway, CreateAnew
  <2>2. QED
    BY <1>f, <2>1
<1>9. CASE AtEOF \/ ReadError
  <2>1. UNCHANGED <<content, f, offset, reader, sent, repeated>> /\ tail = "reading"
    BY <1>9 DEF AtEOF, ReadError, disk
  <2>2. QED
    BY <1>f, <2>1
<1>10. CASE UNCHANGED tailVars
  <2>1. UNCHANGED <<content, tail, f, offset, reader, sent, repeated>>
    BY <1>10 DEF tailVars
  <2>2. QED
    BY <1>f, <2>1
<1>11. QED
  BY <1>1, <1>2, <1>3, <1>4, <1>5, <1>6, <1>7, <1>8, <1>9, <1>10 DEF TailNext

(* It holds at the start.                                                    *)
LEMMA TailInvInit == TailInit => TailInv
<1> SUFFICES ASSUME TailInit PROVE TailInv
  OBVIOUS
<1> USE TailAssumption
<1>1. /\ path = 1 /\ newest = 1 /\ content = [file \in Files |-> <<>>] /\ written = 0
      /\ tail = "closed" /\ f = NoFile /\ offset = 0 /\ reader = <<>>
      /\ sent = {} /\ cuts = 0 /\ tailFaults = 0
      /\ lostPlace = TRUE /\ owed = {} /\ late = {} /\ repeated = FALSE
  BY DEF TailInit
<1>2. Len(<<>>) = 0 /\ Range(<<>>) = {} /\ DOMAIN <<>> = {} /\ Increasing(<<>>)
  BY NothingInEmpty DEF Increasing
<1>3. /\ 1 \in Files /\ 0 \in 0 .. MaxPieces /\ 0 \in 0 .. MaxCuts /\ 0 \in 0 .. MaxTailFaults
      /\ NoFile <= 1
  BY DEF Files, NoFile
<1>4. TailTypeOK
  <2>1. content \in [Files -> Seq(Pieces)] /\ reader \in Seq(Pieces)
    BY <1>1
  <2>2. DiskOK
    BY <1>1, <1>3, <2>1 DEF DiskOK
  <2>3. ReadingOK
    BY <1>1, <1>3, <2>1 DEF ReadingOK
  <2>4. MarksOK
    BY <1>1 DEF MarksOK
  <2>5. QED
    BY <2>2, <2>3, <2>4, TailTypeParts
<1>5. \A file \in Files : content[file] = <<>> /\ Size(file) = 0
  BY <1>1, <1>2 DEF Size
<1>6. Written
  <2>1. \A file \in Files : content[file] \in Seq(1 .. written) /\ Increasing(content[file])
    <3>1. <<>> \in Seq(1 .. written)
      OBVIOUS
    <3>2. QED
      BY <1>2, <1>5, <3>1
  <2>2. offset + Len(reader) <= written /\ \A file \in Files : Size(file) <= written
    BY <1>1, <1>2, <1>5
  <2>3. sent \union Range(reader) = {}
    BY <1>1, <1>2
  <2>4. \A g \in Files : Range(content[g]) = {}
    BY <1>2, <1>5
  <2>5. QED
    BY <2>1, <2>2, <2>3, <2>4 DEF Written
<1>7. Placed
  BY <1>1, <1>3 DEF Placed
<1>8. Settled
  BY <1>1 DEF Settled
<1>9. NotYetSent
  BY <1>1, <1>2 DEF NotYetSent
<1>10. QED
  BY <1>4, <1>6, <1>7, <1>8, <1>9 DEF TailInv

(* The invariant of the tailing collector holds throughout.                  *)
THEOREM TailInvariant == TailSpec => []TailInv
<1>1. TailInv /\ [TailNext]_tailVars => TailInv'
  BY TailTypeNext, WrittenNext, PlacedNext, SettledNext, NotYetSentNext DEF TailInv
<1>2. QED
  BY <1>1, TailInvInit, PTL DEF TailSpec

(* For any number of files, pieces, truncations and faults: what is written  *)
(* to the file that is followed is submitted or still to come, and nothing   *)
(* is submitted twice.                                                       *)
THEOREM FollowsThroughout == TailSpec => []FollowsTheFile
<1>1. TailInv => FollowsTheFile
  BY DEF TailInv, Settled, NotYetSent, FollowsTheFile
<1>2. QED
  BY <1>1, TailInvariant, PTL

-----------------------------------------------------------------------------
(* FileIntegrity: the inductive invariant                                  *)

\* The alerts the engine was sent, inserted or not.
Sent == alerts \union UNION adrift

(* A round has one alert for a file, the one its report holds; later ones    *)
(* have higher numbers, and a first round has none.                          *)
Numbered ==
    /\ \A x \in Sent : x.round <= round
    /\ posting => \A x \in Sent : x.round = round => x \in events
    /\ \A x, y \in Sent : x.path = y.path /\ x.round = y.round => x = y
    /\ first => prev = Nothing /\ ~posting
    /\ ~first => baseline.round <= round
    /\ posting => baseline.round < round

(* What was sent of a file since the first round, before the post that goes  *)
(* on.                                                                       *)
News(p) ==
    {x \in Sent : x.path = p /\ x.round > baseline.round /\ (posting => x.round < round)}

(* Of what was sent of a file the newest is stored, and says what was found. *)
LastStored(p) ==
    \/ News(p) = {} /\ prev[p] = baseline.found[p]
    \/ \E a \in News(p) \intersect alerts :
           a.sha = prev[p] /\ \A x \in News(p) : x.round <= a.round

AllTold == ~first => \A p \in Paths \ missed : LastStored(p)

FimInv == FimTypeOK /\ Numbered /\ AllTold

-----------------------------------------------------------------------------
(* FileIntegrity: reports                                                  *)

(* A report tells of every file that differs what it is now, once; a first   *)
(* round has nothing to report.                                              *)
LEMMA Reported ==
    ASSUME NEW old \in Walks, NEW new \in Walks, NEW isFirst \in BOOLEAN,
           NEW n \in 1 .. MaxRounds
    PROVE  /\ Report(old, new, isFirst, n) \subseteq FimEvents
           /\ \A e \in Report(old, new, isFirst, n) :
                  /\ e.path \in Paths /\ e.round = n
                  /\ e.sha = new[e.path] /\ new[e.path] # old[e.path]
           /\ \A x, y \in Report(old, new, isFirst, n) : x.path = y.path => x = y
           /\ ~isFirst => \A p \in Paths :
                  new[p] # old[p] => \E e \in Report(old, new, isFirst, n) : e.path = p
           /\ isFirst /\ old = Nothing => Report(old, new, isFirst, n) = {}
<1> DEFINE told(p) == IF old[p] = Absent THEN fim(p, "created", new[p], n)
                      ELSE IF new[p] = Absent THEN fim(p, "deleted", Absent, n)
                      ELSE fim(p, "modified", new[p], n)
           them == {q \in Differences(old, new) : ~(isFirst /\ old[q] = Absent)}
<1>1. Report(old, new, isFirst, n) = {told(p) : p \in them}
  BY DEF Report
<1>2. \A p \in them : p \in Paths /\ new[p] # old[p]
  BY DEF Differences
<1>3. ASSUME NEW p \in Paths, new[p] # old[p]
      PROVE  /\ told(p) \in FimEvents /\ told(p).path = p /\ told(p).round = n
             /\ told(p).sha = new[p]
  <2>1. new[p] \in Hashes \union {Absent}
    BY DEF Walks
  <2>2. CASE old[p] = Absent
    <3>1. told(p) = fim(p, "created", new[p], n)
      BY <2>2
    <3>2. QED
      BY <2>1, <3>1 DEF fim, FimEvents
  <2>3. CASE old[p] # Absent /\ new[p] = Absent
    <3>1. told(p) = fim(p, "deleted", Absent, n)
      BY <2>3
    <3>2. QED
      BY <2>1, <2>3, <3>1 DEF fim, FimEvents
  <2>4. CASE old[p] # Absent /\ new[p] # Absent
    <3>1. told(p) = fim(p, "modified", new[p], n)
      BY <2>4
    <3>2. QED
      BY <2>1, <3>1 DEF fim, FimEvents
  <2>5. QED
    BY <2>2, <2>3, <2>4
<1>4. ~isFirst => \A p \in Paths : new[p] # old[p] => p \in them
  BY DEF Differences
<1>5. isFirst /\ old = Nothing => them = {}
  BY DEF Nothing, Differences
<1> HIDE DEF told, them
<1>6. \A e \in Report(old, new, isFirst, n) : \E p \in Paths :
          e = told(p) /\ new[p] # old[p] /\ e.path = p
  BY <1>1, <1>2, <1>3
<1>7. \A p \in them : told(p) \in Report(old, new, isFirst, n)
  BY <1>1
<1>8. Report(old, new, isFirst, n) \subseteq FimEvents
  BY <1>3, <1>6
<1>9. \A e \in Report(old, new, isFirst, n) :
          e.path \in Paths /\ e.round = n /\ e.sha = new[e.path] /\ new[e.path] # old[e.path]
  BY <1>3, <1>6
<1>10. \A x, y \in Report(old, new, isFirst, n) : x.path = y.path => x = y
  BY <1>6
<1>11. ~isFirst => \A p \in Paths :
           new[p] # old[p] => \E e \in Report(old, new, isFirst, n) : e.path = p
  BY <1>3, <1>4, <1>7
<1>12. isFirst /\ old = Nothing => Report(old, new, isFirst, n) = {}
  BY <1>1, <1>5
<1>13. QED
  BY <1>8, <1>9, <1>10, <1>11, <1>12

(* What the types say of the rounds and the alerts, in numbers.              *)
LEMMA FimFacts ==
    ASSUME FimTypeOK
    PROVE  /\ prev \in Walks /\ cur \in Walks /\ first \in BOOLEAN /\ posting \in BOOLEAN
           /\ round \in 0 .. MaxRounds /\ round \in Nat /\ baseline.round \in 0 .. MaxRounds
           /\ baseline.round \in Nat /\ baseline.found \in Walks
           /\ \A x \in Sent : x \in FimEvents /\ x.round \in Nat
<1> USE FileIntegrityAssumption
<1>1. /\ prev \in Walks /\ cur \in Walks /\ first \in BOOLEAN /\ posting \in BOOLEAN
      /\ round \in 0 .. MaxRounds /\ baseline \in [found: Walks, round: 0 .. MaxRounds]
      /\ alerts \subseteq FimEvents /\ adrift \subseteq SUBSET FimEvents
  BY DEF FimTypeOK
<1>2. Sent \subseteq FimEvents
  BY <1>1 DEF Sent
<1>3. \A x \in FimEvents : x.round \in Nat
  BY DEF FimEvents
<1>4. baseline.round \in 0 .. MaxRounds /\ baseline.found \in Walks
  BY <1>1
<1>5. round \in Nat /\ baseline.round \in Nat
  BY <1>1, <1>4
<1>6. QED
  BY <1>1, <1>2, <1>3, <1>4, <1>5

(* While a post goes on it holds what differs, for the number of the round.  *)
LEMMA Posted ==
    ASSUME FimTypeOK, Numbered, posting
    PROVE  /\ ~first /\ baseline.round < round /\ round \in 1 .. MaxRounds
           /\ events \subseteq FimEvents
           /\ \A e \in events : /\ e.path \in Paths /\ e.round = round
                                /\ e.sha = cur[e.path] /\ cur[e.path] # prev[e.path]
           /\ \A x, y \in events : x.path = y.path => x = y
           /\ \A p \in Paths : cur[p] # prev[p] => \E e \in events : e.path = p
<1>1. ~first /\ baseline.round < round
  BY DEF Numbered
<1>2. round \in 1 .. MaxRounds
  BY <1>1, FimFacts
<1>3. prev \in Walks /\ cur \in Walks /\ first \in BOOLEAN
  BY FimFacts
<1>4. QED
  BY <1>1, <1>2, <1>3, Reported DEF events

(* What a post sends: nothing, or its report, to the table or adrift.        *)
Adds == /\ Sent \subseteq Sent' /\ alerts \subseteq alerts'
        /\ \A x \in Sent' : x \in Sent \/ x \in events

(* What the answers to a post and its end change.                            *)
LEMMA Answered ==
    ASSUME posting, Accepted \/ AttemptFailed
    PROVE  /\ Adds
           /\ \/ /\ UNCHANGED <<prev, first, cur, posting, round, restarts, missed, baseline>>
                 /\ tries' = tries + 1 /\ tries + 1 < FimAttempts
              \/ Returns(alerts')
           /\ alerts' \subseteq alerts \union events
           /\ adrift' \subseteq adrift \union {events}
<1>1. CASE Accepted
  <2>1. alerts' = alerts \union events /\ adrift' = adrift /\ Returns(alerts')
    BY <1>1 DEF Accepted
  <2>2. Sent' = Sent \union events
    BY <2>1 DEF Sent
  <2>3. QED
    BY <2>1, <2>2 DEF Adds
<1>2. CASE AttemptFailed
  <2>1. PICK now \in {{}, events}, later \in {{}, {events}} : Attempt(now, later)
    BY <1>2 DEF AttemptFailed
  <2>2. alerts' = alerts \union now /\ adrift' = adrift \union later
    BY <2>1 DEF Attempt
  <2>3. /\ Sent \subseteq Sent' /\ \A x \in Sent' : x \in Sent \/ x \in events
    BY <2>2 DEF Sent
  <2>4. Adds
    BY <2>2, <2>3 DEF Adds
  <2>5. \/ /\ UNCHANGED <<prev, first, cur, posting, round, restarts, missed, baseline>>
           /\ tries' = tries + 1 /\ tries + 1 < FimAttempts
        \/ Returns(alerts')
    BY <2>1 DEF Attempt
  <2>6. QED
    BY <2>2, <2>4, <2>5
<1>3. QED
  BY <1>1, <1>2

(* A late insert moves a report from those adrift to the table.              *)
LEMMA Landed ==
    ASSUME NEW block \in adrift, LandsLate(block)
    PROVE  /\ Sent' = Sent /\ alerts \subseteq alerts'
           /\ alerts' = alerts \union block /\ adrift' \subseteq adrift
           /\ UNCHANGED <<prev, first, cur, posting, tries, round, restarts, missed, baseline>>
<1>1. /\ alerts' = alerts \union block /\ adrift' = adrift \ {block}
      /\ UNCHANGED <<prev, first, cur, posting, tries, round, restarts, missed, baseline>>
  BY DEF LandsLate
<1>2. Sent' = Sent
  BY <1>1 DEF Sent
<1>3. QED
  BY <1>1, <1>2

(* What the walk of a round leads to.                                        *)
LEMMA Walked ==
    ASSUME FimTypeOK, Numbered, NEW found \in Walks, Round(found)
    PROVE  /\ ~posting /\ round' = round + 1 /\ round' \in 1 .. MaxRounds
           /\ UNCHANGED <<alerts, adrift, restarts, missed>> /\ Sent' = Sent
           /\ baseline' = IF first THEN [found |-> found, round |-> round'] ELSE baseline
           /\ \/ /\ prev' = found /\ first' = FALSE /\ UNCHANGED <<cur, posting, tries>>
                 /\ ~first => prev' = prev
              \/ /\ ~first /\ cur' = found /\ posting' = TRUE /\ tries' = 0
                 /\ UNCHANGED <<prev, first>>
<1>1. /\ ~posting /\ round < MaxRounds /\ round' = round + 1
      /\ baseline' = IF first THEN [found |-> found, round |-> round'] ELSE baseline
      /\ UNCHANGED <<alerts, adrift, restarts, missed>>
  BY DEF Round
<1>2. Sent' = Sent
  BY <1>1 DEF Sent
<1>3. round' \in 1 .. MaxRounds
  BY <1>1, FimFacts, FileIntegrityAssumption
<1>4. prev \in Walks /\ first \in BOOLEAN
  BY FimFacts
<1>5. CASE Report(prev, found, first, round') = {}
  <2>1. prev' = found /\ first' = FALSE /\ UNCHANGED <<cur, posting, tries>>
    BY <1>5 DEF Round, MovesOn
  <2>2. ASSUME ~first PROVE prev' = prev
    <3>1. \A p \in Paths : found[p] = prev[p]
      BY <1>3, <1>4, <1>5, <2>2, Reported
    <3>2. QED
      BY <1>4, <2>1, <3>1 DEF Walks
  <2>3. QED
    BY <1>1, <1>2, <1>3, <2>1, <2>2
<1>6. CASE Report(prev, found, first, round') # {}
  <2>1. cur' = found /\ posting' = TRUE /\ tries' = 0 /\ UNCHANGED <<prev, first>>
    BY <1>6 DEF Round
  <2>2. first => prev = Nothing
    BY DEF Numbered
  <2>3. ~first
    BY <1>3, <1>4, <1>6, <2>2, Reported
  <2>4. QED
    BY <1>1, <1>2, <1>3, <2>1, <2>3
<1>7. QED
  BY <1>5, <1>6

-----------------------------------------------------------------------------
(* FileIntegrity: what every step keeps                                    *)

(* Every step keeps the types: a report has the number of its round.         *)
LEMMA FimTypeNext == FimTypeOK /\ Numbered /\ [FimNext]_fimVars => FimTypeOK'
<1> SUFFICES ASSUME FimTypeOK, Numbered, [FimNext]_fimVars PROVE FimTypeOK'
  OBVIOUS
<1> USE FileIntegrityAssumption
<1>a. /\ prev \in Walks /\ cur \in Walks /\ first \in BOOLEAN /\ posting \in BOOLEAN
      /\ tries \in 0 .. FimAttempts - 1 /\ round \in 0 .. MaxRounds
      /\ alerts \subseteq FimEvents /\ adrift \subseteq SUBSET FimEvents
      /\ restarts \in 0 .. MaxFimRestarts /\ missed \subseteq Paths
      /\ baseline \in [found: Walks, round: 0 .. MaxRounds]
  BY DEF FimTypeOK
<1>b. Nothing \in Walks
  BY DEF Nothing, Walks
<1>1. ASSUME NEW found \in Walks, Round(found) PROVE FimTypeOK'
  <2>1. /\ round' \in 1 .. MaxRounds /\ UNCHANGED <<alerts, adrift, restarts, missed>>
        /\ baseline' = IF first THEN [found |-> found, round |-> round'] ELSE baseline
        /\ prev' \in {prev, found} /\ cur' \in {cur, found}
        /\ first' \in BOOLEAN /\ posting' \in BOOLEAN /\ tries' \in {tries, 0}
    BY <1>a, <1>1, Walked
  <2>2. baseline' \in [found: Walks, round: 0 .. MaxRounds]
    BY <1>a, <2>1
  <2>3. QED
    BY <1>a, <1>1, <2>1, <2>2 DEF FimTypeOK
<1>2. CASE Accepted \/ AttemptFailed
  <2>1. posting
    BY <1>2 DEF Accepted, AttemptFailed, Attempt
  <2>2. /\ \/ /\ UNCHANGED <<prev, first, cur, posting, round, restarts, missed, baseline>>
              /\ tries' = tries + 1 /\ tries + 1 < FimAttempts
           \/ Returns(alerts')
        /\ alerts' \subseteq alerts \union events
        /\ adrift' \subseteq adrift \union {events}
    BY <1>2, <2>1, Answered
  <2>3. events \subseteq FimEvents /\ \A e \in events : e.path \in Paths
    BY <2>1, Posted
  <2>4. alerts' \subseteq FimEvents /\ adrift' \subseteq SUBSET FimEvents
    BY <1>a, <2>2, <2>3
  <2>5. CASE /\ UNCHANGED <<prev, first, cur, posting, round, restarts, missed, baseline>>
             /\ tries' = tries + 1 /\ tries + 1 < FimAttempts
    BY <1>a, <2>4, <2>5 DEF FimTypeOK
  <2>6. CASE Returns(alerts')
    <3>1. /\ posting' = FALSE /\ tries' = 0 /\ cur' = Nothing /\ prev' = cur /\ first' = FALSE
          /\ UNCHANGED <<round, restarts, baseline>>
      BY <2>6 DEF Returns, MovesOn
    <3>2. missed' \subseteq Paths
      BY <1>a, <2>3, <2>6 DEF Returns
    <3>3. 0 \in 0 .. FimAttempts - 1
      OBVIOUS
    <3>4. QED
      BY <1>a, <1>b, <2>4, <3>1, <3>2, <3>3 DEF FimTypeOK
  <2>7. QED
    BY <2>2, <2>5, <2>6
<1>3. ASSUME NEW block \in adrift, LandsLate(block) PROVE FimTypeOK'
  <2>1. /\ alerts' = alerts \union block /\ adrift' \subseteq adrift
        /\ UNCHANGED <<prev, first, cur, posting, tries, round, restarts, missed, baseline>>
    BY <1>3, Landed
  <2>2. alerts' \subseteq FimEvents /\ adrift' \subseteq SUBSET FimEvents
    BY <1>a, <1>3, <2>1
  <2>3. QED
    BY <1>a, <2>1, <2>2 DEF FimTypeOK
<1>4. CASE FimRestarts
  <2>1. /\ restarts < MaxFimRestarts /\ restarts' = restarts + 1
        /\ prev' = Nothing /\ first' = TRUE /\ cur' = Nothing
        /\ posting' = FALSE /\ tries' = 0 /\ missed' = {}
        /\ UNCHANGED <<round, alerts, adrift, baseline>>
    BY <1>4 DEF FimRestarts
  <2>2. restarts' \in 0 .. MaxFimRestarts /\ 0 \in 0 .. FimAttempts - 1
    BY <1>a, <2>1
  <2>3. QED
    BY <1>a, <1>b, <2>1, <2>2 DEF FimTypeOK
<1>5. CASE UNCHANGED fimVars
  BY <1>a, <1>5 DEF fimVars, FimTypeOK
<1>6. QED
  BY <1>1, <1>2, <1>3, <1>4, <1>5 DEF FimNext

(* Rounds keep their numbers apart, through repeated posts, late inserts and *)
(* restarts.                                                                 *)
LEMMA NumberedNext == FimTypeOK /\ Numbered /\ [FimNext]_fimVars => Numbered'
<1> SUFFICES ASSUME FimTypeOK, Numbered, [FimNext]_fimVars PROVE Numbered'
  OBVIOUS
<1>a. /\ round \in Nat /\ baseline.round \in Nat /\ \A x \in Sent : x.round \in Nat
      /\ first \in BOOLEAN /\ posting \in BOOLEAN
  BY FimFacts
<1>b. /\ \A x \in Sent : x.round <= round
      /\ posting => \A x \in Sent : x.round = round => x \in events
      /\ \A x, y \in Sent : x.path = y.path /\ x.round = y.round => x = y
      /\ first => prev = Nothing /\ ~posting
      /\ ~first => baseline.round <= round
      /\ posting => baseline.round < round
  BY DEF Numbered
<1>1. ASSUME NEW found \in Walks, Round(found) PROVE Numbered'
  <2>1. /\ ~posting /\ round' = round + 1 /\ Sent' = Sent
        /\ baseline' = IF first THEN [found |-> found, round |-> round'] ELSE baseline
        /\ \/ first' = FALSE /\ UNCHANGED posting
           \/ ~first /\ first' = first /\ posting' = TRUE
    BY <1>1, Walked
  <2>2. \A x \in Sent' : x.round < round'
    BY <1>a, <1>b, <2>1
  <2>3. \A x \in Sent' : x.round <= round' /\ x.round # round'
    BY <1>a, <2>1, <2>2
  <2>4. first => baseline'.round = round'
    BY <2>1
  <2>5. ~first => baseline'.round < round'
    BY <1>a, <1>b, <2>1
  <2>6. baseline'.round <= round'
    BY <1>a, <2>1, <2>4, <2>5
  <2>7. posting' => baseline'.round < round'
    BY <2>1, <2>5
  <2>8. ~first'
    BY <2>1
  <2>9. \A x, y \in Sent' : x.path = y.path /\ x.round = y.round => x = y
    BY <1>b, <2>1
  <2>10. QED
    BY <2>3, <2>6, <2>7, <2>8, <2>9 DEF Numbered
<1>2. CASE Accepted \/ AttemptFailed
  <2>1. posting
    BY <1>2 DEF Accepted, AttemptFailed, Attempt
  <2>2. Adds
    BY <1>2, <2>1, Answered
  <2>3. /\ ~first /\ baseline.round < round
        /\ \A e \in events : e.round = round
        /\ \A x, y \in events : x.path = y.path => x = y
    BY <2>1, Posted
  <2>4. \A x \in Sent' : x \in Sent \/ x \in events
    BY <2>2 DEF Adds
  <2>5. \A x \in Sent' : x.round = round => x \in events
    BY <1>b, <2>1, <2>4
  <2>6. \A x \in Sent' : x.round <= round
    BY <1>a, <1>b, <2>3, <2>4
  <2>7. ASSUME NEW x \in Sent', NEW y \in Sent', x.path = y.path, x.round = y.round
        PROVE  x = y
    <3>1. CASE x.round = round
      BY <2>3, <2>5, <2>7, <3>1
    <3>2. CASE x.round # round
      BY <1>b, <2>3, <2>4, <2>7, <3>2
    <3>3. QED
      BY <3>1, <3>2
  <2>8. CASE UNCHANGED <<prev, first, cur, posting, round, restarts, missed, baseline>>
    <3>1. events' = events
      BY <2>8 DEF events
    <3>2. QED
      BY <1>b, <2>5, <2>6, <2>7, <2>8, <3>1 DEF Numbered
  <2>9. CASE Returns(alerts')
    <3>1. posting' = FALSE /\ first' = FALSE /\ UNCHANGED <<round, baseline>>
      BY <2>9 DEF Returns, MovesOn
    <3>2. QED
      BY <1>b, <2>3, <2>6, <2>7, <3>1 DEF Numbered
  <2>10. QED
    BY <1>2, <2>1, <2>8, <2>9, Answered
<1>3. ASSUME NEW block \in adrift, LandsLate(block) PROVE Numbered'
  <2>1. /\ Sent' = Sent
        /\ UNCHANGED <<prev, first, cur, posting, tries, round, restarts, missed, baseline>>
    BY <1>3, Landed
  <2>2. events' = events
    BY <2>1 DEF events
  <2>3. QED
    BY <1>b, <2>1, <2>2 DEF Numbered
<1>4. CASE FimRestarts
  <2>1. /\ prev' = Nothing /\ first' = TRUE /\ posting' = FALSE
        /\ UNCHANGED <<round, alerts, adrift, baseline>>
    BY <1>4 DEF FimRestarts
  <2>2. Sent' = Sent
    BY <2>1 DEF Sent
  <2>3. QED
    BY <1>b, <2>1, <2>2 DEF Numbered
<1>5. CASE UNCHANGED fimVars
  BY <1>5 DEF fimVars, Numbered, Sent, events
<1>6. QED
  BY <1>1, <1>2, <1>3, <1>4, <1>5 DEF FimNext

(* What the alerts tell of the files follows the rounds.                     *)
LEMMA AllToldNext == FimInv /\ [FimNext]_fimVars => AllTold'
<1> SUFFICES ASSUME FimTypeOK, Numbered, AllTold, [FimNext]_fimVars PROVE AllTold'
  BY DEF FimInv
<1>a. /\ round \in Nat /\ baseline.round \in Nat /\ \A x \in Sent : x.round \in Nat
      /\ first \in BOOLEAN /\ posting \in BOOLEAN /\ alerts \subseteq Sent
  BY FimFacts DEF Sent
<1>b. /\ \A x \in Sent : x.round <= round
      /\ posting => \A x \in Sent : x.round = round => x \in events
  BY DEF Numbered
<1>c. ~first => \A p \in Paths \ missed : LastStored(p)
  BY DEF AllTold
<1>d. ASSUME NEW p \in Paths, LastStored(p), prev'[p] = prev[p], UNCHANGED baseline,
             News(p)' = News(p), alerts \subseteq alerts'
      PROVE  LastStored(p)'
  BY <1>d DEF LastStored
<1>1. ASSUME NEW found \in Walks, Round(found) PROVE AllTold'
  <2>1. /\ ~posting /\ round' = round + 1 /\ Sent' = Sent /\ UNCHANGED <<alerts, missed>>
        /\ baseline' = IF first THEN [found |-> found, round |-> round'] ELSE baseline
        /\ \/ prev' = found /\ (~first => prev' = prev)
           \/ ~first /\ UNCHANGED prev
    BY <1>1, Walked
  <2>2. \A x \in Sent : x.round < round'
    BY <1>a, <1>b, <2>1
  <2>3. CASE first
    <3>1. prev' = found /\ baseline'.found = found /\ baseline'.round = round'
      BY <2>1, <2>3
    <3>2. \A x \in Sent : ~(x.round > round')
      BY <1>a, <2>1, <2>2
    <3>3. \A p \in Paths : News(p)' = {}
      BY <2>1, <3>1, <3>2 DEF News
    <3>4. QED
      BY <3>1, <3>3 DEF AllTold, LastStored
  <2>4. CASE ~first
    <3>1. prev' = prev /\ baseline' = baseline
      BY <2>1, <2>4
    <3>2. \A p \in Paths : News(p)' = News(p)
      BY <2>1, <2>2, <3>1 DEF News
    <3>3. QED
      BY <1>c, <1>d, <2>1, <2>4, <3>1, <3>2 DEF AllTold
  <2>5. QED
    BY <2>3, <2>4
<1>2. CASE Accepted \/ AttemptFailed
  <2>1. posting
    BY <1>2 DEF Accepted, AttemptFailed, Attempt
  <2>2. /\ Sent \subseteq Sent' /\ alerts \subseteq alerts'
        /\ \A x \in Sent' : x \in Sent \/ x \in events
    BY <1>2, <2>1, Answered DEF Adds
  <2>3. /\ ~first /\ baseline.round < round
        /\ \A e \in events : /\ e.path \in Paths /\ e.round = round
                             /\ e.sha = cur[e.path] /\ cur[e.path] # prev[e.path]
        /\ \A p \in Paths : cur[p] # prev[p] => \E e \in events : e.path = p
    BY <2>1, Posted
  <2>4. \A x \in Sent' : x.round \in Nat /\ x.round <= round
    BY <1>a, <1>b, <2>2, <2>3
  <2>5. CASE UNCHANGED <<prev, first, cur, posting, round, restarts, missed, baseline>>
    <3>1. \A x \in Sent' : x.round < round => x \in Sent
      BY <1>a, <2>2, <2>3
    <3>2. \A p \in Paths : News(p)' = News(p)
      BY <2>1, <2>2, <2>5, <3>1 DEF News
    <3>3. QED
      BY <1>c, <1>d, <2>2, <2>3, <2>5, <3>2 DEF AllTold
  <2>6. CASE Returns(alerts')
    <3>1. /\ posting' = FALSE /\ prev' = cur /\ UNCHANGED <<round, baseline>>
          /\ missed' = (missed \ {e.path : e \in events}) \union {e.path : e \in events \ alerts'}
      BY <2>6 DEF Returns, MovesOn
    <3>2. \A p \in Paths : News(p)' = {x \in Sent' : x.path = p /\ x.round > baseline.round}
      BY <3>1 DEF News
    <3>3. ASSUME NEW p \in Paths, p \notin missed', cur[p] # prev[p] PROVE LastStored(p)'
      <4>1. PICK e \in events : e.path = p
        BY <2>3, <3>3
      <4>2. e \in alerts'
        BY <3>1, <3>3, <4>1
      <4>3. e \in Sent' /\ e.round > baseline.round /\ e.sha = prev'[p]
        BY <1>a, <2>3, <3>1, <4>1, <4>2 DEF Sent
      <4>4. e \in News(p)' \intersect alerts'
        BY <3>2, <4>1, <4>2, <4>3
      <4>5. \A x \in News(p)' : x.round <= e.round
        BY <2>3, <2>4, <3>2, <4>1
      <4>6. QED
        BY <4>3, <4>4, <4>5 DEF LastStored
    <3>4. ASSUME NEW p \in Paths, p \notin missed', cur[p] = prev[p] PROVE LastStored(p)'
      <4>1. \A e \in events : e.path # p
        BY <2>3, <3>4
      <4>2. p \notin missed
        BY <3>1, <3>4, <4>1
      <4>3. \A x \in Sent' : x.path = p => x \in Sent /\ x.round < round
        <5>1. \A x \in Sent' : x.path = p => x \in Sent
          BY <2>2, <4>1
        <5>2. \A x \in Sent' : x.path = p => x.round # round
          BY <1>b, <2>1, <4>1, <5>1
        <5>3. QED
          BY <1>a, <2>4, <5>1, <5>2
      <4>4. News(p)' = News(p)
        BY <2>1, <2>2, <3>2, <4>3 DEF News
      <4>5. LastStored(p)
        BY <1>c, <2>3, <4>2
      <4>6. QED
        BY <1>d, <2>2, <3>1, <3>4, <4>4, <4>5
    <3>5. QED
      BY <3>3, <3>4 DEF AllTold
  <2>7. QED
    BY <1>2, <2>1, <2>5, <2>6, Answered
<1>3. ASSUME NEW block \in adrift, LandsLate(block) PROVE AllTold'
  <2>1. /\ Sent' = Sent /\ alerts \subseteq alerts'
        /\ UNCHANGED <<prev, first, cur, posting, tries, round, restarts, missed, baseline>>
    BY <1>3, Landed
  <2>2. \A p \in Paths : News(p)' = News(p)
    BY <2>1 DEF News
  <2>3. QED
    BY <1>c, <1>d, <2>1, <2>2 DEF AllTold
<1>4. CASE FimRestarts
  BY <1>4 DEF FimRestarts, AllTold
<1>5. CASE UNCHANGED fimVars
  <2>1. Sent' = Sent
    BY <1>5 DEF fimVars, Sent
  <2>2. \A p \in Paths : News(p)' = News(p)
    BY <1>5, <2>1 DEF fimVars, News
  <2>3. QED
    BY <1>c, <1>d, <1>5, <2>2 DEF AllTold, fimVars
<1>6. QED
  BY <1>1, <1>2, <1>3, <1>4, <1>5 DEF FimNext

(* The invariant of the rounds holds throughout.                             *)
THEOREM FimInvariant == FimSpec => []FimInv
<1>1. FimInit => FimInv
  <2> SUFFICES ASSUME FimInit PROVE FimInv
    OBVIOUS
  <2> USE FileIntegrityAssumption
  <2>1. /\ prev = Nothing /\ first = TRUE /\ cur = Nothing
        /\ posting = FALSE /\ tries = 0 /\ round = 0
        /\ alerts = {} /\ adrift = {} /\ restarts = 0
        /\ missed = {} /\ baseline = [found |-> Nothing, round |-> 0]
    BY DEF FimInit
  <2>2. Nothing \in Walks /\ 0 \in 0 .. MaxRounds /\ 0 \in 0 .. FimAttempts - 1
        /\ 0 \in 0 .. MaxFimRestarts
    BY DEF Nothing, Walks
  <2>3. baseline \in [found: Walks, round: 0 .. MaxRounds]
    BY <2>1, <2>2
  <2>4. FimTypeOK
    BY <2>1, <2>2, <2>3 DEF FimTypeOK
  <2>5. Sent = {}
    BY <2>1 DEF Sent
  <2>6. QED
    BY <2>1, <2>4, <2>5 DEF FimInv, Numbered, AllTold
<1>2. FimInv /\ [FimNext]_fimVars => FimInv'
  BY FimTypeNext, NumberedNext, AllToldNext DEF FimInv
<1>3. QED
  BY <1>1, <1>2, PTL DEF FimSpec

(* For any number of paths, rounds, attempts and restarts: between rounds    *)
(* the alerts tell of every file what the agent found last, unless its       *)
(* change was given up.                                                      *)
THEOREM AlertsAddUpThroughout == FimSpec => []AlertsAddUp
<1>1. FimInv => AlertsAddUp
  <2> SUFFICES ASSUME FimInv, ~posting, ~first, NEW p \in Paths \ missed
               PROVE  Told(p) = prev[p]
    BY DEF AlertsAddUp
  <2> DEFINE news == {a \in alerts : a.path = p /\ a.round > baseline.round}
             topmost(a) == \A b \in news : b.round <= a.round
  <2>1. FimTypeOK /\ Numbered /\ LastStored(p)
    BY DEF FimInv, AllTold
  <2>2. news = News(p) \intersect alerts /\ news \subseteq Sent
    BY DEF News, Sent
  <2>3. CASE news = {}
    <3>1. prev[p] = baseline.found[p]
      BY <2>1, <2>2, <2>3 DEF LastStored
    <3>2. QED
      BY <2>3, <3>1 DEF Told
  <2>4. CASE news # {}
    <3>1. PICK a \in news : a.sha = prev[p] /\ topmost(a)
      <4>1. News(p) # {}
        BY <2>2, <2>4
      <4>2. QED
        BY <2>1, <2>2, <4>1 DEF LastStored
    <3>2. ASSUME NEW c \in news, topmost(c) PROVE c = a
      <4>1. c.round <= a.round /\ a.round <= c.round
        BY <3>1, <3>2
      <4>2. c.round \in Nat /\ a.round \in Nat
        BY <2>1, <2>2, FimFacts
      <4>3. c.round = a.round /\ c.path = a.path
        BY <4>1, <4>2
      <4>4. QED
        BY <2>1, <2>2, <4>3 DEF Numbered
    <3>3. (CHOOSE c \in news : topmost(c)) = a
      BY <3>1, <3>2
    <3>4. QED
      BY <2>4, <3>1, <3>3 DEF Told
  <2>5. QED
    BY <2>3, <2>4
<1>2. QED
  BY <1>1, FimInvariant, PTL

-----------------------------------------------------------------------------
(* The composition                                                         *)

(* A behaviour of the composition is one of each part, which is at work or   *)
(* stays as it was.                                                          *)
LEMMA PartsOfEndpoint == EndpointSpec => Spec /\ TailSpec /\ FimSpec
<1>1. EndpointInit => Init /\ TailInit /\ FimInit
  BY DEF EndpointInit
<1>2. [EndpointNext]_endpointVars => [Next]_vars /\ [TailNext]_tailVars /\ [FimNext]_fimVars
  <2>1. CASE Only("forward") /\ Next
    BY <2>1 DEF Only
  <2>2. CASE Only("tail") /\ TailNext
    BY <2>2 DEF Only
  <2>3. CASE Only("integrity") /\ FimNext
    BY <2>3 DEF Only
  <2>4. CASE UNCHANGED endpointVars
    BY <2>4 DEF endpointVars
  <2>5. QED
    BY <2>1, <2>2, <2>3, <2>4 DEF EndpointNext
<1>3. QED
  BY <1>1, <1>2, PTL DEF EndpointSpec, Spec, TailSpec, FimSpec

(* On a host with all three at work, for every value of the constants: no    *)
(* event is mislaid between the collectors and the pipeline, what was        *)
(* answered has entered it, and lines enter in order until a send is retried.*)
THEOREM EndpointDelivers ==
    EndpointSpec => []NothingVanishes /\ []AckedEntered /\ InOrderUntilRetry
BY PartsOfEndpoint, NothingIsMislaid, AnsweredMeansEntered, LinesEnterInOrder, PTL

(* And the delivery keeps what DeliveryPromise says.                         *)
THEOREM EndpointKeepsPromise == EndpointSpec => KeepsPromise
BY PartsOfEndpoint, ImplementsPromise, PTL

(* And the file is followed, and the alerts on files add up.                 *)
THEOREM EndpointReports == EndpointSpec => []FollowsTheFile /\ []AlertsAddUp
BY PartsOfEndpoint, FollowsThroughout, AlertsAddUpThroughout, PTL
===============================================================================
