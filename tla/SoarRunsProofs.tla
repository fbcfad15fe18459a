---------------------------- MODULE SoarRunsProofs ----------------------------
(***************************************************************************)
(* What the SOAR tasks promise for any number of webhooks, workflows,      *)
(* workers, requests and failures: no run is forgotten, alerts trigger the *)
(* workflows they should, run_count is right where no two workers walked   *)
(* at once, and a finished run stays as it is.                             *)
(***************************************************************************)
EXTENDS SoarRuns, EnumerationProofs

-----------------------------------------------------------------------------
(* The inductive invariant                                                 *)

RunMsg(r) == Msg("run", r)

InQueue(m) == m \in Range(queues["default"])

(* Sender s is to send m, or is working on it.                               *)
Has(s, m) ==
    \/ job[s].phase = "sending" /\ m \in Range(job[s].unsent)
    \/ job[s].phase \in {"start", "walk"} /\ job[s].msg = m

(* The message of a run that is not over is somewhere, or a failure took it. *)
Placed(r) ==
    \/ runs[r].status \in Terminal
    \/ InQueue(RunMsg(r)) \/ (\E s \in Senders : Has(s, RunMsg(r))) \/ RunMsg(r) \in cut

(* A message delivered once is in one place, and nowhere when its run is over. *)
Once(r) ==
    RunMsg(r) \notin redelivered =>
        /\ Single(RunMsg(r), queues["default"])
        /\ \A s \in Senders : job[s].phase = "sending" => Single(RunMsg(r), job[s].unsent)
        /\ \A s, t \in Senders : Has(s, RunMsg(r)) /\ Has(t, RunMsg(r)) => s = t
        /\ \A s \in Senders : ~(Has(s, RunMsg(r)) /\ InQueue(RunMsg(r)))
        /\ runs[r].status \in Terminal =>
               ~InQueue(RunMsg(r)) /\ \A s \in Senders : ~Has(s, RunMsg(r))

Delivered == \A r \in DOMAIN runs : Placed(r) /\ Once(r)

Walks(w, f) == job[w].phase = "walk" /\ runs[job[w].msg.arg].wf = f

(* What a walk has seen of run_count, and will write, is behind or exact.    *)
Counted ==
    \A f \in Workflows :
        /\ runCount[f] <= executed[f]
        /\ \A w \in Workers : Walks(w, f) => job[w].seen <= executed[f]
        /\ f \notin overlapped =>
               /\ runCount[f] = executed[f]
               /\ \A v, w \in Workers : Walks(v, f) /\ Walks(w, f) => v = w
               /\ \A w \in Workers : Walks(w, f) => job[w].seen = runCount[f]

MatchesFor(w, a) == job[w].phase = "match" /\ job[w].alert = a

(* An alert has a run of each workflow that matches it, or its match is      *)
(* still to come, from one worker, or was cut off.                           *)
Matched(a) ==
    /\ \A r, q \in DOMAIN runs :
           runs[r].by = a /\ runs[q].by = a /\ runs[r].wf = runs[q].wf => r = q
    /\ \/ \A f \in Workflows : f \in Matching(alerts[a].from) <=>
              \E r \in DOMAIN runs : runs[r].by = a /\ runs[r].wf = f
       \/ /\ \A r \in DOMAIN runs : runs[r].by # a
          /\ Msg("match", a) \in cut \/ \E w \in Workers : MatchesFor(w, a)
    /\ \A w \in Workers : MatchesFor(w, a) =>
           /\ alerts[a].from = job[w].msg.arg
           /\ \A r \in DOMAIN runs : runs[r].by # a
           /\ \A v \in Workers : MatchesFor(v, a) => v = w

AllMatched == \A a \in DOMAIN alerts : alerts[a].from # NoWebhook => Matched(a)

SoarInv == TypeOK /\ Delivered /\ Counted /\ AllMatched


-----------------------------------------------------------------------------
(* Messages, jobs and rows                                                 *)

(* A message for a run is known by the run, and by its route.                *)
LEMMA MessageFacts ==
    /\ \A m : MsgOK(m) => /\ m \in Message /\ (m.task = "run" => m = RunMsg(m.arg))
                          /\ Route(m) \in Routes
                          /\ Route(m) = "default" <=> m.task = "run"
    /\ \A r : /\ RunMsg(r).task = "run" /\ RunMsg(r).arg = r /\ Route(RunMsg(r)) = "default"
              /\ [RunMsg(r) EXCEPT !.tries = 0] = RunMsg(r)
<1>1. ASSUME NEW m, MsgOK(m), m.task = "run" PROVE m = RunMsg(m.arg)
  <2>1. m \in Message /\ m.tries = 0
    BY <1>1 DEF MsgOK
  <2>2. m = [task |-> m.task, arg |-> m.arg, tries |-> m.tries]
    BY <2>1 DEF Message
  <2>3. QED
    BY <1>1, <2>1, <2>2 DEF RunMsg, Msg
<1>2. \A m : Route(m) \in Routes /\ (Route(m) = "default" <=> m.task = "run")
  BY DEF Route, Routes
<1>3. \A r : RunMsg(r).task = "run" /\ RunMsg(r).arg = r
  BY DEF RunMsg, Msg
<1>4. \A r : [RunMsg(r) EXCEPT !.tries = 0] = RunMsg(r)
  BY DEF RunMsg, Msg
<1>5. QED
  BY <1>1, <1>2, <1>3, <1>4 DEF MsgOK

(* What a job of a phase holds.                                              *)
LEMMA JobFacts ==
    ASSUME NEW j \in Job
    PROVE  /\ j.phase = "idle" <=> j = Idle
           /\ j.phase # "idle" => j.msg \in Message
           /\ j.phase = "match" => j.alert \in Nat
                                   /\ j = [phase |-> "match", msg |-> j.msg, alert |-> j.alert]
           /\ j.phase = "sending" => j.unsent \in Seq(Message)
                                     /\ j = Sending(j.msg, j.unsent)
           /\ j.phase = "walk" => j.seen \in Nat
                                  /\ j = [phase |-> "walk", msg |-> j.msg, seen |-> j.seen]
           /\ j.phase \in {"idle", "ingest", "enrich", "sweep", "start", "match", "sending",
                         "walk", "ack"}
  BY DEF Job, Idle, Sending

(* What the types say of every sender's job.                                 *)
LEMMA SenderFacts ==
    ASSUME TypeOK, NEW s \in Senders
    PROVE  /\ job \in [Senders -> Job] /\ job[s] \in Job /\ JobOK(s, job[s])
           /\ job[s].phase # "idle" => MsgOK(job[s].msg)
           /\ job[s].phase \in {"start", "walk"} =>
                  /\ job[s].msg.task = "run" /\ job[s].msg = RunMsg(job[s].msg.arg)
                  /\ job[s].msg.arg \in DOMAIN runs /\ s \in Workers
           /\ job[s].phase = "match" => s \in Workers
<1>1. job \in [Senders -> Job] /\ job[s] \in Job /\ JobOK(s, job[s])
  BY DEF TypeOK
<1>2. job[s].phase # "idle" => MsgOK(job[s].msg)
  BY <1>1 DEF JobOK
<1>3. s \in Workers \/ (s = Api /\ job[s].phase \in {"idle", "sending"})
  BY <1>1 DEF JobOK, Senders
<1>4. job[s].phase \in {"start", "walk"} => job[s].msg.task = "run"
  <2>1. CASE job[s].phase = "start"
    <3>1. job[s].phase = FirstPhase(job[s].msg.task) /\ job[s].msg.task \in Tasks
      BY <1>1, <2>1, JobFacts DEF JobOK, Message
    <3>2. QED
      BY <2>1, <3>1 DEF FirstPhase, Tasks
  <2>2. CASE job[s].phase = "walk"
    BY <1>1, <2>2 DEF JobOK
  <2>3. QED
    BY <2>1, <2>2
<1>5. job[s].phase \in {"start", "walk"} =>
          job[s].msg = RunMsg(job[s].msg.arg) /\ job[s].msg.arg \in DOMAIN runs
  BY <1>2, <1>4, MessageFacts DEF MsgOK
<1>6. QED
  BY <1>1, <1>2, <1>3, <1>4, <1>5

(* What the types say of the rows.                                           *)
LEMMA RowFacts ==
    ASSUME TypeOK
    PROVE  /\ alerts \in Seq(AlertRow) /\ DOMAIN alerts = 1 .. Len(alerts) /\ Len(alerts) \in Nat
           /\ runs \in Seq(RunRow) /\ DOMAIN runs = 1 .. Len(runs) /\ Len(runs) \in Nat
           /\ \A a \in DOMAIN alerts : alerts[a] \in AlertRow
           /\ \A r \in DOMAIN runs : runs[r] \in RunRow /\ runs[r].wf \in Workflows
           /\ \A r \in DOMAIN runs : runs[r].by = NoAlert \/ runs[r].by \in DOMAIN alerts
           /\ NoAlert \notin DOMAIN alerts /\ Len(alerts) + 1 \notin DOMAIN alerts
<1>1. alerts \in Seq(AlertRow) /\ runs \in Seq(RunRow)
      /\ \A r \in DOMAIN runs : runs[r].by = NoAlert \/ runs[r].by \in DOMAIN alerts
  BY DEF TypeOK
<1>2. /\ DOMAIN alerts = 1 .. Len(alerts) /\ Len(alerts) \in Nat
      /\ DOMAIN runs = 1 .. Len(runs) /\ Len(runs) \in Nat
  BY <1>1, LenProperties
<1>3. /\ \A a \in DOMAIN alerts : alerts[a] \in AlertRow
      /\ \A r \in DOMAIN runs : runs[r] \in RunRow
  BY <1>1, <1>2, ElementOfSeq
<1>4. \A r \in DOMAIN runs : runs[r].wf \in Workflows
  BY <1>3 DEF RunRow
<1>5. NoAlert \notin DOMAIN alerts /\ Len(alerts) + 1 \notin DOMAIN alerts
  BY <1>2 DEF NoAlert
<1>6. QED
  BY <1>1, <1>2, <1>3, <1>4, <1>5

-----------------------------------------------------------------------------
(* What steps do to queues, jobs and rows                                  *)

\* Sender s goes on to job j, and the others stay.
Turns(s, j) == j \in Job /\ job' = [job EXCEPT ![s] = j]

(* The jobs after that.                                                      *)
LEMMA JobsAfter ==
    ASSUME TypeOK, NEW s \in Senders, NEW j, Turns(s, j)
    PROVE  /\ job' \in [Senders -> Job] /\ job'[s] = j
           /\ \A t \in Senders : t # s => job'[t] = job[t]
  BY DEF Turns, TypeOK

\* Rows are never removed, and keep where they came from.
Grows ==
    /\ DOMAIN alerts \subseteq DOMAIN alerts' /\ DOMAIN runs \subseteq DOMAIN runs'
    /\ \A a \in DOMAIN alerts : alerts'[a].from = alerts[a].from
    /\ \A r \in DOMAIN runs : runs'[r].wf = runs[r].wf /\ runs'[r].by = runs[r].by

(* So messages and jobs keep naming rows.                                    *)
LEMMA StillOK ==
    ASSUME Grows
    PROVE  /\ \A m : MsgOK(m) => MsgOK(m)'
           /\ \A s, j : JobOK(s, j) => JobOK(s, j)'
<1>1. ASSUME NEW m, MsgOK(m) PROVE MsgOK(m)'
  BY <1>1 DEF Grows, MsgOK
<1>2. ASSUME NEW s, NEW j, JobOK(s, j) PROVE JobOK(s, j)'
  BY <1>1, <1>2 DEF Grows, JobOK
<1>3. QED
  BY <1>1, <1>2

JobsOK == job \in [Senders -> Job] /\ \A s \in Senders : JobOK(s, job[s])

QueuesOK ==
    /\ queues \in [Routes -> Seq(Message)]
    /\ \A r \in Routes : \A m \in Range(queues[r]) : MsgOK(m) /\ Route(m) = r

(* A turn to a job that is as it should be keeps all jobs so.                *)
LEMMA JobsOKAfter ==
    ASSUME TypeOK, Grows, NEW s \in Senders, NEW j, Turns(s, j), JobOK(s, j)'
    PROVE  JobsOK'
<1>1. /\ job' \in [Senders -> Job] /\ job'[s] = j
      /\ \A t \in Senders : t # s => job'[t] = job[t]
  BY JobsAfter
<1>2. ASSUME NEW t \in Senders PROVE JobOK(t, job[t])'
  <2>1. PICK i : i = job'[t]
    OBVIOUS
  <2>2. CASE t = s
    BY <1>1, <2>1, <2>2
  <2>3. CASE t # s
    <3>1. JobOK(t, i)
      BY <1>1, <2>1, <2>3, SenderFacts
    <3>2. JobOK(t, i)'
      BY <3>1, StillOK
    <3>3. QED
      BY <2>1, <3>2
  <2>4. QED
    BY <2>2, <2>3
<1>3. QED
  BY <1>1, <1>2 DEF JobsOK

(* And so does no turn at all.                                               *)
LEMMA JobsOKStill == ASSUME TypeOK, Grows, UNCHANGED job PROVE JobsOK'
<1>1. ASSUME NEW t \in Senders PROVE JobOK(t, job[t])'
  <2>1. PICK i : i = job[t]
    OBVIOUS
  <2>2. JobOK(t, i)'
    BY <2>1, SenderFacts, StillOK
  <2>3. QED
    BY <2>1, <2>2
<1>2. QED
  BY <1>1 DEF JobsOK, TypeOK

(* The queues after a message was put.                                       *)
LEMMA QueuesAfterPut ==
    ASSUME TypeOK, NEW m, MsgOK(m), Put(m)
    PROVE  /\ queues' \in [Routes -> Seq(Message)]
           /\ \A r \in Routes : Range(queues'[r]) = IF r = Route(m) THEN Range(queues[r]) \union {m}
                                                    ELSE Range(queues[r])
           /\ m.task # "run" => queues'["default"] = queues["default"]
           /\ m.task = "run" => queues'["default"] = Append(queues["default"], m)
<1>1. queues \in [Routes -> Seq(Message)] /\ m \in Message
  BY MessageFacts DEF TypeOK
<1>2. queues' = [queues EXCEPT ![Route(m)] = Append(queues[Route(m)], m)]
  BY DEF Put
<1>3. Route(m) \in Routes /\ "default" \in Routes /\ (Route(m) = "default" <=> m.task = "run")
  BY MessageFacts DEF Routes
<1>4. queues'[Route(m)] = Append(queues[Route(m)], m)
      /\ \A r \in Routes : r # Route(m) => queues'[r] = queues[r]
  BY <1>1, <1>2, <1>3
<1>5. queues[Route(m)] \in Seq(Message)
  BY <1>1, <1>3
<1>6. /\ Append(queues[Route(m)], m) \in Seq(Message)
      /\ Range(Append(queues[Route(m)], m)) = Range(queues[Route(m)]) \union {m}
  BY <1>1, <1>5, PutLast
<1>7. queues' \in [Routes -> Seq(Message)]
  BY <1>1, <1>2, <1>3, <1>6
<1>8. QED
  BY <1>3, <1>4, <1>6, <1>7

(* Those queues are in order as long as rows only grow.                      *)
LEMMA QueuesOKPut ==
    ASSUME TypeOK, Grows, NEW m, MsgOK(m), Put(m)
    PROVE  QueuesOK'
<1>1. /\ queues' \in [Routes -> Seq(Message)]
      /\ \A r \in Routes : Range(queues'[r]) = IF r = Route(m) THEN Range(queues[r]) \union {m}
                                               ELSE Range(queues[r])
  BY QueuesAfterPut
<1>2. ASSUME NEW r \in Routes, NEW n \in Range(queues'[r]) PROVE MsgOK(n)' /\ Route(n) = r
  <2>1. MsgOK(n) /\ Route(n) = r
    BY <1>1, <1>2 DEF TypeOK
  <2>2. QED
    BY <2>1, StillOK
<1>3. QED
  BY <1>1, <1>2 DEF QueuesOK

(* Also when nothing is put or taken.                                        *)
LEMMA QueuesOKStill == ASSUME TypeOK, Grows, UNCHANGED queues PROVE QueuesOK'
<1>1. ASSUME NEW r \in Routes, NEW n \in Range(queues'[r]) PROVE MsgOK(n)' /\ Route(n) = r
  <2>1. MsgOK(n) /\ Route(n) = r
    BY <1>1 DEF TypeOK
  <2>2. QED
    BY <2>1, StillOK
<1>2. QED
  BY <1>1 DEF QueuesOK, TypeOK

(* A row more in a table.                                                    *)
LEMMA AlertAdded ==
    ASSUME TypeOK, NEW row \in AlertRow, alerts' = Append(alerts, row)
    PROVE  /\ alerts' \in Seq(AlertRow) /\ Len(alerts') = Len(alerts) + 1
           /\ DOMAIN alerts' = DOMAIN alerts \union {Len(alerts) + 1}
           /\ \A a \in DOMAIN alerts : alerts'[a] = alerts[a]
           /\ alerts'[Len(alerts) + 1] = row
<1>1. alerts \in Seq(AlertRow)
  BY RowFacts
<1>2. /\ alerts' \in Seq(AlertRow) /\ Len(alerts) \in Nat /\ Len(alerts') = Len(alerts) + 1
      /\ DOMAIN alerts = 1 .. Len(alerts) /\ DOMAIN alerts' = 1 .. Len(alerts) + 1
      /\ \A a \in 1 .. Len(alerts) : alerts'[a] = alerts[a]
      /\ alerts'[Len(alerts) + 1] = row
  BY <1>1, PutLast
<1>3. DOMAIN alerts' = DOMAIN alerts \union {Len(alerts) + 1}
  BY <1>2
<1>4. QED
  BY <1>2, <1>3

(* Rows more in the table of runs.                                           *)
LEMMA RunsAdded ==
    ASSUME TypeOK, NEW new \in Seq(RunRow), runs' = runs \o new
    PROVE  /\ runs' \in Seq(RunRow) /\ Len(runs') = Len(runs) + Len(new)
           /\ DOMAIN runs' = 1 .. Len(runs) + Len(new) /\ Len(new) \in Nat
           /\ \A r \in DOMAIN runs : r \in DOMAIN runs' /\ runs'[r] = runs[r]
           /\ \A i \in DOMAIN new : Len(runs) + i \in DOMAIN runs' /\ runs'[Len(runs) + i] = new[i]
                                    /\ Len(runs) + i \notin DOMAIN runs
           /\ \A r \in DOMAIN runs' : r \in DOMAIN runs \/
                  \E i \in DOMAIN new : r = Len(runs) + i
<1>1. runs \in Seq(RunRow) /\ DOMAIN runs = 1 .. Len(runs) /\ Len(runs) \in Nat
  BY RowFacts
<1>2. Len(new) \in Nat /\ DOMAIN new = 1 .. Len(new)
  BY LenProperties
<1>3. /\ runs' \in Seq(RunRow) /\ Len(runs') = Len(runs) + Len(new)
      /\ \A i \in 1 .. Len(runs) + Len(new) :
             runs'[i] = IF i <= Len(runs) THEN runs[i] ELSE new[i - Len(runs)]
  <2>1. /\ runs \o new \in Seq(RunRow) /\ Len(runs \o new) = Len(runs) + Len(new)
        /\ \A i \in 1 .. Len(runs) + Len(new) :
               (runs \o new)[i] = IF i <= Len(runs) THEN runs[i] ELSE new[i - Len(runs)]
    BY ONLY <1>1, new \in Seq(RunRow), ConcatProperties
  <2>2. QED
    BY <2>1
<1>4. DOMAIN runs' = 1 .. Len(runs) + Len(new)
  BY <1>3, LenProperties
<1>5. \A r \in DOMAIN runs : r \in DOMAIN runs' /\ runs'[r] = runs[r]
  BY <1>1, <1>2, <1>3, <1>4
<1>6. ASSUME NEW i \in DOMAIN new
      PROVE  Len(runs) + i \in DOMAIN runs' /\ runs'[Len(runs) + i] = new[i]
             /\ Len(runs) + i \notin DOMAIN runs
  <2>1. /\ Len(runs) + i \in 1 .. Len(runs) + Len(new) /\ ~(Len(runs) + i <= Len(runs))
        /\ (Len(runs) + i) - Len(runs) = i
    BY <1>1, <1>2
  <2>2. QED
    BY <1>1, <1>3, <1>4, <2>1
<1>7. ASSUME NEW r \in DOMAIN runs', r \notin DOMAIN runs
      PROVE  \E i \in DOMAIN new : r = Len(runs) + i
  <2>1. r - Len(runs) \in 1 .. Len(new) /\ r = Len(runs) + (r - Len(runs))
    BY <1>1, <1>2, <1>4, <1>7
  <2>2. QED
    BY <1>2, <2>1
<1>8. QED
  BY <1>2, <1>3, <1>4, <1>5, <1>6, <1>7

\* Run r gets a status.
Marks(r, status) == status \in Statuses /\ runs' = [runs EXCEPT ![r].status = status]

(* Only that changes then.                                                   *)
LEMMA RunMarked ==
    ASSUME TypeOK, NEW r \in DOMAIN runs, NEW status, Marks(r, status)
    PROVE  /\ runs' \in Seq(RunRow) /\ DOMAIN runs' = DOMAIN runs
           /\ \A q \in DOMAIN runs : runs'[q].wf = runs[q].wf /\ runs'[q].by = runs[q].by
           /\ \A q \in DOMAIN runs : q # r => runs'[q].status = runs[q].status
           /\ runs'[r].status = status
<1>1. runs \in Seq(RunRow) /\ DOMAIN runs = 1 .. Len(runs) /\ runs[r] \in RunRow
  BY RowFacts
<1>2. status \in Statuses /\ runs' = [runs EXCEPT ![r] = [runs[r] EXCEPT !.status = status]]
  BY DEF Marks
<1> DEFINE row == [runs[r] EXCEPT !.status = status]
<1>3. /\ row \in RunRow /\ row.wf = runs[r].wf /\ row.by = runs[r].by /\ row.status = status
  BY <1>1, <1>2 DEF RunRow
<1> HIDE DEF row
<1>4. runs' = [runs EXCEPT ![r] = row]
  BY <1>2 DEF row
<1>5. runs' \in Seq(RunRow)
  BY <1>1, <1>3, <1>4, ExceptSeq
<1>6. DOMAIN runs' = DOMAIN runs /\ runs'[r] = row /\ \A q \in DOMAIN runs : q # r => runs'[q] = runs[q]
  BY <1>4
<1>7. QED
  BY <1>3, <1>5, <1>6

RowsOK ==
    /\ alerts \in Seq(AlertRow) /\ runs \in Seq(RunRow)
    /\ \A r \in DOMAIN runs : runs[r].by = NoAlert \/ runs[r].by \in DOMAIN alerts

CountsOK ==
    /\ runCount \in [Workflows -> Nat] /\ executed \in [Workflows -> Nat]
    /\ posted \subseteq Webhooks /\ overlapped \subseteq Workflows
    /\ manual \in Nat /\ faults \in Nat

(* The parts of the type invariant, one per group of variables.              *)
LEMMA TypeParts == TypeOK <=> QueuesOK /\ JobsOK /\ RowsOK /\ CountsOK
  BY DEF TypeOK, QueuesOK, JobsOK, RowsOK, CountsOK

(* And after a step.                                                         *)
LEMMA TypePartsNext == TypeOK' <=> QueuesOK' /\ JobsOK' /\ RowsOK' /\ CountsOK'
  BY DEF TypeOK, QueuesOK, JobsOK, RowsOK, CountsOK

(* The messages that are made.                                               *)
LEMMA MadeOK ==
    ASSUME TypeOK
    PROVE  /\ \A h \in Webhooks : MsgOK(Msg("webhook", h))
           /\ \A a \in DOMAIN alerts : MsgOK(Msg("enrich", a))
           /\ \A r \in DOMAIN runs : MsgOK(Msg("run", r))
           /\ MsgOK(Msg("sweep", 0))
           /\ \A t, x : Msg(t, x).task = t /\ Msg(t, x).arg = x
<1>1. \A a \in DOMAIN alerts : a \in Nat
  BY RowFacts
<1>2. \A r \in DOMAIN runs : r \in Nat
  BY RowFacts
<1>3. \A t \in Tasks, x \in Nat \union Webhooks : Msg(t, x) \in Message /\ Msg(t, x).tries = 0
  BY DEF Msg, Message, MaxRetries
<1>4. \A t, x : Msg(t, x).task = t /\ Msg(t, x).arg = x
  BY DEF Msg
<1>5. ASSUME NEW h \in Webhooks PROVE MsgOK(Msg("webhook", h))
  <2>1. Msg("webhook", h) \in Message /\ Msg("webhook", h).tries = 0
    BY <1>3 DEF Tasks
  <2>2. Msg("webhook", h).task = "webhook" /\ Msg("webhook", h).arg = h
    BY <1>4
  <2>3. QED
    BY <2>1, <2>2 DEF MsgOK
<1>6. \A a \in DOMAIN alerts : MsgOK(Msg("enrich", a))
  BY <1>1, <1>3, <1>4 DEF MsgOK, Tasks
<1>7. \A r \in DOMAIN runs : MsgOK(Msg("run", r))
  BY <1>2, <1>3, <1>4 DEF MsgOK, Tasks
<1>8. MsgOK(Msg("sweep", 0))
  <2>1. Msg("sweep", 0) \in Message /\ Msg("sweep", 0).tries = 0
    BY <1>3 DEF Tasks
  <2>2. Msg("sweep", 0).task = "sweep"
    BY <1>4
  <2>3. QED
    BY <2>1, <2>2 DEF MsgOK
<1>9. QED
  BY <1>4, <1>5, <1>6, <1>7, <1>8

\* A job without a run to send or to walk, or a match to make.
Plain(j) ==
    /\ j.phase \notin {"start", "walk", "match"}
    /\ j.phase = "sending" => \A m \in Range(j.unsent) : m.task # "run"

\* A step that has nothing to do with runs.
PlainStep ==
    /\ Grows /\ DOMAIN runs' = DOMAIN runs
    /\ \A r \in DOMAIN runs : runs'[r].status = runs[r].status
    /\ \A a \in DOMAIN alerts' : a \notin DOMAIN alerts => alerts'[a].from = NoWebhook
    /\ queues'["default"] = queues["default"]
    /\ \A s \in Senders : job'[s] = job[s] \/ (Plain(job[s]) /\ Plain(job'[s]))
    /\ UNCHANGED <<runCount, executed, overlapped>>
    /\ redelivered \subseteq redelivered' /\ cut \subseteq cut'

(* Posting a webhook and beat's ticking put one message.                     *)
LEMMA PutPlain ==
    ASSUME TypeOK, (\E h \in Webhooks : PostWebhook(h)) \/ BeatSweep
    PROVE  TypeOK' /\ PlainStep
<1>1. /\ \E m : MsgOK(m) /\ m.task # "run" /\ Put(m)
      /\ posted' \subseteq Webhooks
      /\ UNCHANGED <<job, alerts, runs, runCount, manual, faults, executed, redelivered,
                     cut, overlapped>>
  <2>1. CASE \E h \in Webhooks : PostWebhook(h)
    <3>1. PICK h \in Webhooks : PostWebhook(h)
      BY <2>1
    <3>2. posted \subseteq Webhooks
      BY DEF TypeOK
    <3>3. MsgOK(Msg("webhook", h)) /\ Msg("webhook", h).task # "run"
      BY MadeOK
    <3>4. QED
      BY <3>1, <3>2, <3>3 DEF PostWebhook, tables, history
  <2>2. CASE BeatSweep
    <3>1. MsgOK(Msg("sweep", 0)) /\ Msg("sweep", 0).task # "run"
      BY MadeOK
    <3>2. QED
      BY <2>2, <3>1 DEF BeatSweep, tables, history, TypeOK
  <2>3. QED
    BY <2>1, <2>2
<1>2. PICK m : MsgOK(m) /\ m.task # "run" /\ Put(m)
  BY <1>1
<1>3. Grows
  BY <1>1 DEF Grows
<1>4. QueuesOK' /\ JobsOK'
  BY <1>1, <1>2, <1>3, QueuesOKPut, JobsOKStill
<1>5. RowsOK'
  BY <1>1 DEF RowsOK, TypeOK
<1>6. CountsOK'
  BY <1>1 DEF CountsOK, TypeOK
<1>7. queues'["default"] = queues["default"]
  BY <1>2, QueuesAfterPut
<1>8. PlainStep
  BY <1>1, <1>3, <1>7 DEF PlainStep
<1>9. QED
  BY <1>4, <1>5, <1>6, <1>8, TypePartsNext

(* POST /alerts adds a row and goes on to send for its enrichment.           *)
LEMMA PostAlertPlain == ASSUME TypeOK, PostAlert PROVE TypeOK' /\ PlainStep
<1> DEFINE row == [from |-> NoWebhook, isNew |-> TRUE, enriched |-> FALSE]
<1>1. /\ job[Api].phase = "idle" /\ alerts' = Append(alerts, row) /\ manual' = manual + 1
      /\ job' = [job EXCEPT ![Api] =
                   Sending(Msg("enrich", Len(alerts')), <<Msg("enrich", Len(alerts'))>>)]
      /\ UNCHANGED <<queues, runs, runCount, posted, faults, executed, redelivered,
                     cut, overlapped>>
  BY DEF PostAlert, Busy, history
<1>2. row \in AlertRow /\ row.from = NoWebhook
  BY DEF AlertRow
<1> HIDE DEF row
<1>3. /\ alerts' \in Seq(AlertRow) /\ Len(alerts') = Len(alerts) + 1
      /\ DOMAIN alerts' = DOMAIN alerts \union {Len(alerts) + 1}
      /\ \A b \in DOMAIN alerts : alerts'[b] = alerts[b]
      /\ alerts'[Len(alerts) + 1] = row
  BY <1>1, <1>2, AlertAdded
<1>4. PICK a \in Nat : a = Len(alerts) + 1
  BY RowFacts
<1>5. PICK m : m = Msg("enrich", a)
  OBVIOUS
<1>6. MsgOK(m)' /\ m \in Message /\ m.task = "enrich"
  BY <1>3, <1>4, <1>5 DEF MsgOK, Message, Msg, Tasks, MaxRetries
<1>7. Grows
  BY <1>1, <1>3 DEF Grows
<1>8. PICK j : j = Sending(m, <<m>>)
  OBVIOUS
<1>9. /\ j \in Job /\ j.phase = "sending" /\ j.msg = m /\ j.unsent = <<m>>
  BY <1>6, <1>8 DEF Job, Sending
<1>10. Range(<<m>>) = {m} /\ <<m>> # <<>>
  BY DEF Range
<1>11. Turns(Api, j) /\ Api \in Senders
  BY <1>1, <1>3, <1>4, <1>5, <1>8, <1>9 DEF Turns, Senders
<1>12. JobOK(Api, j)' /\ Plain(j)
  BY <1>6, <1>9, <1>10 DEF JobOK, Plain
<1>13. QueuesOK' /\ JobsOK'
  BY <1>1, <1>7, <1>11, <1>12, QueuesOKStill, JobsOKAfter
<1>14. RowsOK'
  BY <1>1, <1>3 DEF RowsOK, TypeOK
<1>15. CountsOK'
  BY <1>1 DEF CountsOK, TypeOK
<1>16. Plain(job[Api])
  BY <1>1 DEF Plain
<1>17. \A s \in Senders : job'[s] = job[s] \/ (Plain(job[s]) /\ Plain(job'[s]))
  BY <1>11, <1>12, <1>16, JobsAfter
<1>18. PlainStep
  BY <1>1, <1>2, <1>3, <1>7, <1>17 DEF PlainStep
<1>19. QED
  BY <1>13, <1>14, <1>15, <1>18, TypePartsNext

(* A row of alerts that is written again.                                    *)
LEMMA AlertWritten ==
    ASSUME TypeOK, NEW a \in DOMAIN alerts, NEW row \in AlertRow, row.from = alerts[a].from,
           alerts' = [alerts EXCEPT ![a] = row]
    PROVE  /\ alerts' \in Seq(AlertRow) /\ DOMAIN alerts' = DOMAIN alerts
           /\ \A b \in DOMAIN alerts : alerts'[b].from = alerts[b].from
<1>1. alerts \in Seq(AlertRow) /\ DOMAIN alerts = 1 .. Len(alerts)
  BY RowFacts
<1>2. alerts' \in Seq(AlertRow)
  BY <1>1, ExceptSeq
<1>3. QED
  BY <1>1, <1>2

(* An analyst's triage changes one alert.                                    *)
LEMMA TriagePlain == ASSUME TypeOK, NEW a \in DOMAIN alerts, Triage(a) PROVE TypeOK' /\ PlainStep
<1> DEFINE row == [alerts[a] EXCEPT !.isNew = FALSE]
<1>1. /\ alerts' = [alerts EXCEPT ![a] = row]
      /\ UNCHANGED <<queues, job, runs, runCount, posted, manual, faults, executed, redelivered,
                     cut, overlapped>>
  BY DEF Triage, history
<1>2. alerts[a] \in AlertRow
  BY RowFacts
<1>3. row \in AlertRow /\ row.from = alerts[a].from
  BY <1>2 DEF AlertRow
<1> HIDE DEF row
<1>4. /\ alerts' \in Seq(AlertRow) /\ DOMAIN alerts' = DOMAIN alerts
      /\ \A b \in DOMAIN alerts : alerts'[b].from = alerts[b].from
  BY <1>1, <1>3, AlertWritten
<1>5. Grows
  BY <1>1, <1>4 DEF Grows
<1>6. QueuesOK' /\ JobsOK'
  BY <1>1, <1>5, QueuesOKStill, JobsOKStill
<1>7. RowsOK'
  BY <1>1, <1>4 DEF RowsOK, TypeOK
<1>8. CountsOK'
  BY <1>1 DEF CountsOK, TypeOK
<1>9. PlainStep
  BY <1>1, <1>4, <1>5 DEF PlainStep
<1>10. QED
  BY <1>6, <1>7, <1>8, <1>9, TypePartsNext

\* The variables that no step but those of the workers on runs changes.
Unmoved == UNCHANGED <<runs, runCount, posted, manual, executed, redelivered, overlapped>>

(* A turn from one plain job to another, while only alerts are written.      *)
LEMMA PlainTurn ==
    ASSUME TypeOK, NEW s \in Senders, NEW j, Turns(s, j), JobOK(s, j)', Plain(job[s]), Plain(j),
           Grows, Unmoved, QueuesOK', queues'["default"] = queues["default"],
           alerts' \in Seq(AlertRow), DOMAIN alerts' = DOMAIN alerts,
           faults' \in Nat, cut \subseteq cut'
    PROVE  TypeOK' /\ PlainStep
<1>1. JobsOK'
  BY JobsOKAfter
<1>2. RowsOK'
  BY DEF RowsOK, TypeOK, Unmoved
<1>3. CountsOK'
  BY DEF CountsOK, TypeOK, Unmoved
<1>4. \A t \in Senders : job'[t] = job[t] \/ (Plain(job[t]) /\ Plain(job'[t]))
  BY JobsAfter
<1>5. PlainStep
  BY <1>4 DEF PlainStep, Unmoved
<1>6. QED
  BY <1>1, <1>2, <1>3, <1>5, TypePartsNext

(* Idle is a job as it should be, and plain.                                 *)
LEMMA IdleOK ==
    /\ Idle \in Job /\ Plain(Idle) /\ Idle.phase = "idle"
    /\ \A s : JobOK(s, Idle) /\ JobOK(s, Idle)'
<1>1. Idle \in Job /\ Idle.phase = "idle"
  BY DEF Job, Idle
<1>2. QED
  BY <1>1 DEF Plain, JobOK

\* A sender that has nothing to do but, as a worker, to acknowledge.
Rests(j) == j.phase \in {"idle", "ack"}

(* What is done is a job as it should be, plain and at rest.                 *)
LEMMA DoneOK ==
    ASSUME TypeOK, NEW s \in Senders, job[s].phase # "idle", Grows, NEW j, j = Done(s)
    PROVE  j \in Job /\ Plain(j) /\ Rests(j) /\ JobOK(s, j)'
<1>1. CASE s = Api
  BY <1>1, IdleOK DEF Done, Rests
<1>2. CASE s # Api
  <2>1. MsgOK(job[s].msg) /\ job[s].msg \in Message
    BY SenderFacts, MessageFacts
  <2>2. j.phase = "ack" /\ j.msg = job[s].msg /\ j \in Job
    BY <1>2, <2>1 DEF Done, Job
  <2>3. JobOK(s, j)
    BY <1>2, <2>1, <2>2 DEF JobOK
  <2>4. JobOK(s, j)'
    BY <2>3, StillOK
  <2>5. QED
    BY <2>2, <2>4 DEF Plain, Rests
<1>3. QED
  BY <1>1, <1>2

(* Without a new row nothing is lost.                                        *)
LEMMA GrowsStill == UNCHANGED <<alerts, runs>> => Grows
  BY DEF Grows

(* A worker that enriches an alert writes its row and is free.               *)
LEMMA EnrichPlain == ASSUME TypeOK, NEW w \in Workers, Enrich(w) PROVE TypeOK' /\ PlainStep
<1> DEFINE a == job[w].msg.arg
           row == [alerts[a] EXCEPT !.enriched = TRUE]
<1>1. /\ job[w].phase = "enrich" /\ job' = [job EXCEPT ![w] = Done(w)]
      /\ alerts' = [alerts EXCEPT ![a] = row]
      /\ Unmoved /\ UNCHANGED <<queues, faults, cut>>
  BY DEF Enrich, history, Unmoved
<1>2. w \in Senders
  BY DEF Senders
<1>3. a \in DOMAIN alerts
  <2>1. MsgOK(job[w].msg) /\ job[w].msg.task \in Tasks /\ job[w].phase = FirstPhase(job[w].msg.task)
    BY <1>1, <1>2, SenderFacts DEF JobOK, MsgOK, Message
  <2>2. job[w].msg.task = "enrich"
    BY <1>1, <2>1 DEF FirstPhase, Tasks
  <2>3. QED
    BY <2>1, <2>2 DEF MsgOK
<1>4. alerts[a] \in AlertRow
  BY <1>3, RowFacts
<1>5. row \in AlertRow /\ row.from = alerts[a].from
  BY <1>4 DEF AlertRow
<1> HIDE DEF row, a
<1>6. /\ alerts' \in Seq(AlertRow) /\ DOMAIN alerts' = DOMAIN alerts
      /\ \A b \in DOMAIN alerts : alerts'[b].from = alerts[b].from
  BY <1>1, <1>3, <1>5, AlertWritten
<1>7. Grows
  BY <1>1, <1>6 DEF Grows, Unmoved
<1>8. QueuesOK'
  BY <1>1, <1>7, QueuesOKStill
<1>9. PICK j : j = Done(w)
  OBVIOUS
<1>10. j \in Job /\ Plain(j) /\ JobOK(w, j)'
  BY <1>1, <1>2, <1>7, <1>9, DoneOK
<1>11. Plain(job[w]) /\ Turns(w, j)
  BY <1>1, <1>9, <1>10 DEF Plain, Turns
<1>12. faults' \in Nat /\ cut \subseteq cut' /\ queues'["default"] = queues["default"]
  BY <1>1 DEF TypeOK
<1>13. QED
  BY <1>1, <1>2, <1>6, <1>7, <1>8, <1>10, <1>11, <1>12, PlainTurn

(* Acknowledging a message only makes the worker free.                       *)
LEMMA AcknowledgePlain ==
    ASSUME TypeOK, NEW w \in Workers, Acknowledge(w) PROVE TypeOK' /\ PlainStep
<1>1. /\ job[w].phase = "ack" /\ job' = [job EXCEPT ![w] = Idle]
      /\ Unmoved /\ UNCHANGED <<queues, alerts, faults, cut>>
  BY DEF Acknowledge, tables, history, Unmoved
<1>2. w \in Senders
  BY DEF Senders
<1>3. Grows
  BY <1>1, GrowsStill DEF Unmoved
<1>4. QueuesOK' /\ alerts' \in Seq(AlertRow) /\ DOMAIN alerts' = DOMAIN alerts
  BY <1>1, <1>3, QueuesOKStill, RowFacts
<1>5. Plain(job[w]) /\ Turns(w, Idle)
  BY <1>1, IdleOK DEF Plain, Turns
<1>6. faults' \in Nat /\ cut \subseteq cut' /\ queues'["default"] = queues["default"]
  BY <1>1 DEF TypeOK
<1>7. QED
  BY <1>1, <1>2, <1>3, <1>4, <1>5, <1>6, IdleOK, PlainTurn

(* A sweep goes on to send for every alert it found.                         *)
LEMMA SweepPlain == ASSUME TypeOK, NEW w \in Workers, Sweep(w) PROVE TypeOK' /\ PlainStep
<1> DEFINE M == {Msg("enrich", a) : a \in Unenriched}
           q == SetToSeq(M)
<1>1. /\ job[w].phase = "sweep" /\ job' = [job EXCEPT ![w] = SendAll(w, M)]
      /\ Unmoved /\ UNCHANGED <<queues, alerts, faults, cut>>
  BY DEF Sweep, history, tables, Unmoved
<1>2. w \in Senders /\ w # Api
  BY SoarRunsAssumption DEF Senders
<1>3. MsgOK(job[w].msg) /\ job[w].msg.task = "sweep"
  <2>1. MsgOK(job[w].msg) /\ job[w].msg.task \in Tasks /\ job[w].phase = FirstPhase(job[w].msg.task)
    BY <1>1, <1>2, SenderFacts DEF JobOK, MsgOK, Message
  <2>2. QED
    BY <1>1, <2>1 DEF FirstPhase, Tasks
<1>4. \A m \in M : MsgOK(m) /\ m \in Message /\ m.task = "enrich"
  BY MadeOK, MessageFacts DEF Unenriched
<1>5. IsFiniteSet(M)
  <2>1. IsFiniteSet(Unenriched)
    <3>1. IsFiniteSet(DOMAIN alerts)
      BY RowFacts, FS_Interval
    <3>2. Unenriched \subseteq DOMAIN alerts
      BY DEF Unenriched
    <3>3. QED
      BY <3>1, <3>2, FS_Subset
  <2> DEFINE F == [a \in Unenriched |-> Msg("enrich", a)]
  <2>2. F \in Surjection(Unenriched, M)
    BY DEF Surjection
  <2> HIDE DEF F, M
  <2>3. QED
    BY <2>1, <2>2, FS_Surjection
<1> HIDE DEF M
<1>6. q \in Seq(M) /\ Range(q) = M
  BY <1>5, ListsTheSet
<1> HIDE DEF q
<1>7. q \in Seq(Message)
  <2>1. DOMAIN q = 1 .. Len(q) /\ Len(q) \in Nat
    BY <1>6, LenProperties
  <2>2. q \in [1 .. Len(q) -> Message]
    BY <1>4, <1>6, <2>1 DEF Range
  <2>3. QED
    BY <2>1, <2>2, SeqDef
<1>8. q = <<>> => M = {}
  BY <1>6, NothingInEmpty
<1>9. SendAll(w, M) = IF M = {} THEN Done(w) ELSE Sending(job[w].msg, q)
  BY DEF SendAll, q
<1>10. PICK j : j = SendAll(w, M)
  OBVIOUS
<1>11. job[w].msg \in Message
  BY <1>3, MessageFacts
<1>12. Grows
  BY <1>1, GrowsStill DEF Unmoved
<1>13. j \in Job /\ Plain(j) /\ JobOK(w, j)'
  <2>1. CASE M = {}
    <3>1. j = Done(w)
      BY <1>9, <1>10, <2>1
    <3>2. QED
      BY <1>1, <1>2, <1>12, <3>1, DoneOK
  <2>2. CASE M # {}
    <3>1. j \in Job /\ j.phase = "sending" /\ j.msg = job[w].msg /\ j.unsent = q
      BY <1>7, <1>9, <1>10, <1>11, <2>2 DEF Job, Sending
    <3>2. JobOK(w, j) /\ Plain(j)
      BY <1>2, <1>3, <1>4, <1>6, <1>8, <2>2, <3>1 DEF JobOK, Plain
    <3>3. QED
      BY <1>12, <3>1, <3>2, StillOK
  <2>3. QED
    BY <2>1, <2>2
<1>14. Turns(w, j) /\ Plain(job[w])
  BY <1>1, <1>10, <1>13 DEF Turns, Plain
<1>15. QueuesOK'
  BY <1>1, <1>12, QueuesOKStill
<1>16. alerts' \in Seq(AlertRow) /\ DOMAIN alerts' = DOMAIN alerts
       /\ faults' \in Nat /\ cut \subseteq cut' /\ queues'["default"] = queues["default"]
  BY <1>1 DEF TypeOK
<1>17. QED
  BY <1>1, <1>2, <1>12, <1>13, <1>14, <1>15, <1>16, PlainTurn

\* Alert a is the new row of the webhook that worker w handles.
Ingests(w, a) ==
    /\ a \notin DOMAIN alerts /\ DOMAIN alerts' = DOMAIN alerts \union {a}
    /\ job[w].phase = "ingest" /\ alerts'[a].from = job[w].msg.arg /\ job[w].msg.arg \in Webhooks
    /\ job'[w].phase = "match" /\ job'[w].alert = a /\ job'[w].msg = job[w].msg
    /\ \A s \in Senders : s # w => job'[s] = job[s]
    /\ Grows /\ UNCHANGED <<queues, runs, runCount, executed, redelivered, cut, overlapped>>

(* A webhook is either too low, or becomes an alert.                         *)
LEMMA IngestDoes ==
    ASSUME TypeOK, NEW w \in Workers, Ingest(w)
    PROVE  TypeOK' /\ (PlainStep \/ \E a : Ingests(w, a))
<1> DEFINE h == job[w].msg.arg
           row == [from |-> h, isNew |-> TRUE, enriched |-> FALSE]
<1>1. job[w].phase = "ingest" /\ Unmoved /\ UNCHANGED <<queues, faults, cut>>
  BY DEF Ingest, history, Unmoved
<1>2. w \in Senders /\ w # Api
  BY SoarRunsAssumption DEF Senders
<1>3. MsgOK(job[w].msg) /\ job[w].msg.task = "webhook" /\ h \in Webhooks
  <2>1. MsgOK(job[w].msg) /\ job[w].msg.task \in Tasks /\ job[w].phase = FirstPhase(job[w].msg.task)
    BY <1>1, <1>2, SenderFacts DEF JobOK, MsgOK, Message
  <2>2. job[w].msg.task = "webhook"
    BY <1>1, <2>1 DEF FirstPhase, Tasks
  <2>3. QED
    BY <2>1, <2>2 DEF MsgOK
<1>4. faults' \in Nat /\ cut \subseteq cut' /\ queues'["default"] = queues["default"]
  BY <1>1 DEF TypeOK
<1>5. CASE Level[h] < AlertMinLevel
  <2>1. job' = [job EXCEPT ![w] = Done(w)] /\ UNCHANGED alerts
    BY <1>5 DEF Ingest
  <2>2. Grows
    BY <1>1, <2>1, GrowsStill DEF Unmoved
  <2>3. PICK j : j = Done(w)
    OBVIOUS
  <2>4. j \in Job /\ Plain(j) /\ JobOK(w, j)'
    BY <1>1, <1>2, <2>2, <2>3, DoneOK
  <2>5. Plain(job[w]) /\ Turns(w, j)
    BY <1>1, <2>1, <2>3, <2>4 DEF Plain, Turns
  <2>6. QueuesOK' /\ alerts' \in Seq(AlertRow) /\ DOMAIN alerts' = DOMAIN alerts
    BY <1>1, <2>1, <2>2, QueuesOKStill, RowFacts
  <2>7. TypeOK' /\ PlainStep
    BY <1>1, <1>2, <1>4, <2>2, <2>4, <2>5, <2>6, PlainTurn
  <2>8. QED
    BY <2>7
<1>6. CASE ~(Level[h] < AlertMinLevel)
  <2>1. /\ alerts' = Append(alerts, row)
        /\ job' = [job EXCEPT ![w] = [phase |-> "match", msg |-> job[w].msg,
                                      alert |-> Len(alerts')]]
    BY <1>6 DEF Ingest
  <2>2. row \in AlertRow /\ row.from = h
    BY <1>3 DEF AlertRow
  <2> HIDE DEF row
  <2>3. /\ alerts' \in Seq(AlertRow) /\ Len(alerts') = Len(alerts) + 1
        /\ DOMAIN alerts' = DOMAIN alerts \union {Len(alerts) + 1}
        /\ \A b \in DOMAIN alerts : alerts'[b] = alerts[b]
        /\ alerts'[Len(alerts) + 1] = row
    BY <2>1, <2>2, AlertAdded
  <2>4. PICK a \in Nat : a = Len(alerts) + 1
    BY RowFacts
  <2>5. Grows
    BY <1>1, <2>3 DEF Grows, Unmoved
  <2>6. PICK j : j = [phase |-> "match", msg |-> job[w].msg, alert |-> a]
    OBVIOUS
  <2>7. j \in Job /\ j.phase = "match" /\ j.msg = job[w].msg /\ j.alert = a
    BY <1>3, <2>4, <2>6, MessageFacts DEF Job
  <2>8. Turns(w, j)
    BY <2>1, <2>3, <2>4, <2>6, <2>7 DEF Turns
  <2>9. PICK m : m = job[w].msg
    OBVIOUS
  <2>10. MsgOK(m)' /\ m.task = "webhook"
    BY <1>3, <2>5, <2>9, StillOK
  <2>11. JobOK(w, j)'
    BY <1>2, <2>3, <2>4, <2>7, <2>9, <2>10 DEF JobOK
  <2>12. QueuesOK' /\ JobsOK'
    BY <1>1, <1>2, <2>5, <2>8, <2>11, QueuesOKStill, JobsOKAfter
  <2>13. RowsOK'
    BY <1>1, <2>3 DEF RowsOK, TypeOK, Unmoved
  <2>14. CountsOK'
    BY <1>1 DEF CountsOK, TypeOK, Unmoved
  <2>15. job'[w] = j /\ \A s \in Senders : s # w => job'[s] = job[s]
    BY <1>2, <2>8, JobsAfter
  <2>16. a \notin DOMAIN alerts /\ DOMAIN alerts' = DOMAIN alerts \union {a}
         /\ alerts'[a].from = h
    BY <2>2, <2>3, <2>4, RowFacts
  <2>17. Ingests(w, a)
    BY <1>1, <1>3, <2>5, <2>7, <2>15, <2>16 DEF Ingests, Unmoved
  <2>18. QED
    BY <2>12, <2>13, <2>14, <2>17, TypePartsNext
<1>7. QED
  BY <1>5, <1>6

\* Worker w takes the message m of a run from the head of its queue.
Takes(w, m) ==
    /\ job[w] = Idle /\ m \in Message /\ m.task = "run"
    /\ queues["default"] \in Seq(Message) /\ queues["default"] # <<>>
    /\ m = Head(queues["default"]) /\ queues'["default"] = Tail(queues["default"])
    /\ job'[w].phase = "start" /\ job'[w].msg = m
    /\ \A s \in Senders : s # w => job'[s] = job[s]
    /\ UNCHANGED <<alerts, runs, runCount, executed, redelivered, cut, overlapped>>

(* A message taken from the route of alerts is not of a run.                 *)
LEMMA TakeDoes ==
    ASSUME TypeOK, NEW w \in Workers, NEW r \in Routes, Take(w, r)
    PROVE  TypeOK' /\ (PlainStep \/ \E m : Takes(w, m))
<1>1. /\ job[w].phase = "idle" /\ queues[r] # <<>>
      /\ job' = [job EXCEPT ![w] = [phase |-> FirstPhase(Head(queues[r]).task), msg |-> Head(queues[r])]]
      /\ queues' = [queues EXCEPT ![r] = Tail(queues[r])]
      /\ Unmoved /\ UNCHANGED <<alerts, faults, cut>>
  BY DEF Take, Busy, tables, history, Unmoved
<1>2. w \in Senders /\ w # Api
  BY SoarRunsAssumption DEF Senders
<1>3. queues \in [Routes -> Seq(Message)] /\ queues[r] \in Seq(Message)
  BY DEF TypeOK
<1>4. /\ Head(queues[r]) \in Message /\ Tail(queues[r]) \in Seq(Message)
      /\ Range(queues[r]) = {Head(queues[r])} \union Range(Tail(queues[r]))
  BY <1>1, <1>3, TakeFirst
<1>5. /\ queues' \in [Routes -> Seq(Message)] /\ queues'[r] = Tail(queues[r])
      /\ \A t \in Routes : t # r => queues'[t] = queues[t]
  BY <1>1, <1>3, <1>4
<1>6. \A t \in Routes : Range(queues'[t]) \subseteq Range(queues[t])
  BY <1>4, <1>5
<1>7. PICK m : m = Head(queues[r])
  OBVIOUS
<1>8. m \in Message /\ MsgOK(m) /\ Route(m) = r
  BY <1>4, <1>7 DEF TypeOK
<1>9. Grows
  BY <1>1, GrowsStill DEF Unmoved
<1>10. QueuesOK'
  <2>1. ASSUME NEW t \in Routes, NEW n \in Range(queues'[t]) PROVE MsgOK(n)' /\ Route(n) = t
    <3>1. MsgOK(n) /\ Route(n) = t
      BY <1>6, <2>1 DEF TypeOK
    <3>2. QED
      BY <1>9, <3>1, StillOK
  <2>2. QED
    BY <1>5, <2>1 DEF QueuesOK
<1>11. PICK j : j = [phase |-> FirstPhase(m.task), msg |-> m]
  OBVIOUS
<1>12. m.task \in Tasks
  BY <1>8 DEF Message
<1>13. FirstPhase(m.task) \in {"ingest", "enrich", "sweep", "start"}
       /\ (FirstPhase(m.task) = "start" <=> m.task = "run")
  BY <1>12 DEF FirstPhase, Tasks
<1>14. j \in Job /\ j.phase = FirstPhase(m.task) /\ j.msg = m
  BY <1>8, <1>11, <1>13 DEF Job
<1>15. Turns(w, j)
  BY <1>1, <1>7, <1>11, <1>14 DEF Turns
<1>16. JobOK(w, j)
  BY <1>2, <1>8, <1>13, <1>14 DEF JobOK
<1>17. JobOK(w, j)'
  BY <1>9, <1>16, StillOK
<1>18. alerts' \in Seq(AlertRow) /\ DOMAIN alerts' = DOMAIN alerts /\ faults' \in Nat /\ cut \subseteq cut'
  BY <1>1 DEF TypeOK
<1>19. Plain(job[w])
  BY <1>1 DEF Plain
<1>20. CASE r = "alerts"
  <2>1. queues'["default"] = queues["default"]
    BY <1>5, <1>20 DEF Routes
  <2>2. Plain(j)
    <3>1. m.task # "run"
      BY <1>8, <1>20, MessageFacts
    <3>2. QED
      BY <1>13, <1>14, <3>1 DEF Plain
  <2>3. QED
    BY <1>1, <1>2, <1>9, <1>10, <1>15, <1>17, <1>18, <1>19, <2>1, <2>2, PlainTurn
<1>21. CASE r = "default"
  <2>1. m.task = "run" /\ j.phase = "start"
    BY <1>8, <1>13, <1>14, <1>21, MessageFacts
  <2>2. job'[w] = j /\ \A s \in Senders : s # w => job'[s] = job[s]
    BY <1>2, <1>15, JobsAfter
  <2>3. job[w] = Idle
    BY <1>1, <1>2, SenderFacts, JobFacts
  <2>4. Takes(w, m)
    BY <1>1, <1>3, <1>5, <1>7, <1>8, <1>14, <1>21, <2>1, <2>2, <2>3 DEF Takes, Unmoved
  <2>5. JobsOK' /\ RowsOK' /\ CountsOK'
    <3>1. JobsOK'
      BY <1>2, <1>9, <1>15, <1>17, JobsOKAfter
    <3>2. RowsOK'
      BY <1>1 DEF RowsOK, TypeOK, Unmoved
    <3>3. CountsOK'
      BY <1>1 DEF CountsOK, TypeOK, Unmoved
    <3>4. QED
      BY <3>1, <3>2, <3>3
  <2>6. QED
    BY <1>10, <2>4, <2>5, TypePartsNext
<1>22. QED
  BY <1>20, <1>21 DEF Routes

\* What a step leaves alone that neither starts nor ends the walk of a run.
NoWalk == UNCHANGED <<alerts, runCount, executed, redelivered, cut, overlapped>>

\* Sender s sends the first message m of those it has to.
Sends(s, m) ==
    /\ job[s].phase = "sending" /\ job[s].unsent \in Seq(Message) /\ job[s].unsent # <<>>
    /\ m = Head(job[s].unsent) /\ m \in Message
    /\ queues["default"] \in Seq(Message)
    /\ queues'["default"] = IF m.task = "run" THEN Append(queues["default"], m)
                                              ELSE queues["default"]
    /\ \/ Rests(job'[s]) /\ Tail(job[s].unsent) = <<>>
       \/ job'[s].phase = "sending" /\ job'[s].unsent = Tail(job[s].unsent)
    /\ \A t \in Senders : t # s => job'[t] = job[t]
    /\ NoWalk /\ UNCHANGED runs

(* That is what the sending of a message does.                               *)
LEMMA SendDoes ==
    ASSUME TypeOK, NEW s \in Senders, SendNext(s)
    PROVE  TypeOK' /\ \E m : Sends(s, m)
<1>1. job[s].phase = "sending" /\ Unmoved /\ UNCHANGED <<alerts, faults, cut>>
  BY DEF SendNext, tables, history, Unmoved
<1>2. PICK u : u = job[s].unsent
  OBVIOUS
<1>3. u \in Seq(Message) /\ u # <<>> /\ (\A n \in Range(u) : MsgOK(n)) /\ MsgOK(job[s].msg)
      /\ job[s] = Sending(job[s].msg, u) /\ (s # Api => job[s].msg.task \in {"webhook", "sweep"})
  BY <1>1, <1>2, SenderFacts, JobFacts DEF JobOK
<1>4. /\ Head(u) \in Message /\ Tail(u) \in Seq(Message) /\ Len(u) \in Nat \ {0}
      /\ Len(Tail(u)) = Len(u) - 1 /\ Range(u) = {Head(u)} \union Range(Tail(u))
  BY <1>3, TakeFirst
<1>5. PICK m : m = Head(u)
  OBVIOUS
<1>6. Put(m) /\ MsgOK(m) /\ m \in Message
  BY <1>2, <1>3, <1>4, <1>5 DEF SendNext
<1>7. Grows
  BY <1>1, GrowsStill DEF Unmoved
<1>8. QueuesOK'
  BY <1>6, <1>7, QueuesOKPut
<1>9. /\ queues["default"] \in Seq(Message)
      /\ queues'["default"] = IF m.task = "run" THEN Append(queues["default"], m)
                                                ELSE queues["default"]
  BY <1>6, QueuesAfterPut DEF TypeOK, Routes
<1>10. job' = [job EXCEPT ![s] = IF Tail(u) = <<>> THEN Done(s) ELSE Sending(job[s].msg, Tail(u))]
  BY <1>2 DEF SendNext
<1>11. RowsOK' /\ CountsOK' /\ NoWalk /\ UNCHANGED runs
  BY <1>1 DEF RowsOK, CountsOK, TypeOK, Unmoved, NoWalk
<1>12. CASE Tail(u) = <<>>
  <2>1. PICK j : j = Done(s)
    OBVIOUS
  <2>2. j \in Job /\ Rests(j) /\ JobOK(s, j)'
    BY <1>1, <1>7, <2>1, DoneOK
  <2>3. Turns(s, j)
    BY <1>10, <1>12, <2>1, <2>2 DEF Turns
  <2>4. job'[s] = j /\ (\A t \in Senders : t # s => job'[t] = job[t]) /\ JobsOK'
    BY <1>7, <2>2, <2>3, JobsAfter, JobsOKAfter
  <2>5. Sends(s, m)
    BY <1>1, <1>2, <1>3, <1>5, <1>6, <1>9, <1>11, <1>12, <2>2, <2>4 DEF Sends
  <2>6. QED
    BY <1>8, <1>11, <2>4, <2>5, TypePartsNext
<1>13. CASE Tail(u) # <<>>
  <2>1. PICK j : j = Sending(job[s].msg, Tail(u))
    OBVIOUS
  <2>2. j \in Job /\ j.phase = "sending" /\ j.msg = job[s].msg /\ j.unsent = Tail(u)
    BY <1>3, <1>4, <2>1, MessageFacts DEF Job, Sending
  <2>3. Turns(s, j)
    BY <1>10, <1>13, <2>1, <2>2 DEF Turns
  <2>4. JobOK(s, j)
    BY <1>3, <1>4, <1>13, <2>2 DEF JobOK
  <2>5. JobOK(s, j)'
    BY <1>7, <2>4, StillOK
  <2>6. job'[s] = j /\ (\A t \in Senders : t # s => job'[t] = job[t]) /\ JobsOK'
    BY <1>7, <2>3, <2>5, JobsAfter, JobsOKAfter
  <2>7. Sends(s, m)
    BY <1>1, <1>2, <1>3, <1>5, <1>6, <1>9, <1>11, <2>2, <2>6 DEF Sends
  <2>8. QED
    BY <1>8, <1>11, <2>6, <2>7, TypePartsNext
<1>14. QED
  BY <1>12, <1>13

\* Sender s goes on to send for the runs that it commits, and for no other.
Creates(s) ==
    /\ DOMAIN runs \subseteq DOMAIN runs'
    /\ \A r \in DOMAIN runs : runs'[r] = runs[r]
    /\ \A r \in DOMAIN runs' : r \notin DOMAIN runs => runs'[r].status = "PENDING"
    /\ job[s].phase \in {"idle", "match"} /\ job'[s].phase = "sending"
    /\ \A r \in DOMAIN runs' : Single(RunMsg(r), job'[s].unsent)
                               /\ (RunMsg(r) \in Range(job'[s].unsent) <=> r \notin DOMAIN runs)
    /\ \A t \in Senders : t # s => job'[t] = job[t]
    /\ NoWalk /\ UNCHANGED queues

(* POST /run commits one run, of no alert, and goes on to send for it.       *)
LEMMA RunNowDoes ==
    ASSUME TypeOK, NEW f \in Workflows, RunNow(f)
    PROVE  /\ TypeOK' /\ Creates(Api)
           /\ \A r \in DOMAIN runs' : r \notin DOMAIN runs => runs'[r].by = NoAlert
           /\ job[Api].phase = "idle"
<1> DEFINE row == [wf |-> f, by |-> NoAlert, status |-> "PENDING"]
           new == <<row>>
<1>1. /\ job[Api].phase = "idle" /\ manual' = manual + 1 /\ runs' = Append(runs, row)
      /\ UNCHANGED <<queues, alerts, runCount, posted, faults, executed, redelivered, cut, overlapped>>
  BY DEF RunNow, Busy, history
<1>2. Api \in Senders /\ manual \in Nat /\ Len(runs) \in Nat
  BY RowFacts DEF Senders, TypeOK
<1>3. row \in RunRow /\ row.by = NoAlert /\ row.status = "PENDING"
  BY DEF RunRow, NoAlert, Statuses
<1> HIDE DEF row
<1>4. /\ runs' \in Seq(RunRow) /\ Len(runs') = Len(runs) + 1
      /\ DOMAIN runs = 1 .. Len(runs) /\ DOMAIN runs' = 1 .. Len(runs) + 1
      /\ \A r \in 1 .. Len(runs) : runs'[r] = runs[r]
      /\ runs'[Len(runs) + 1] = row
  BY <1>1, <1>3, PutLast, RowFacts
<1>5. PICK q \in Nat : q = Len(runs) + 1
  BY <1>2
<1>6. /\ DOMAIN runs \subseteq DOMAIN runs' /\ \A r \in DOMAIN runs : runs'[r] = runs[r]
      /\ \A r \in DOMAIN runs' : r \notin DOMAIN runs <=> r = q
      /\ q \in DOMAIN runs' /\ runs'[q] = row
  BY <1>2, <1>4, <1>5
<1>7. Grows
  BY <1>1, <1>6 DEF Grows
<1>8. PICK m : m = RunMsg(q)
  OBVIOUS
<1>9. PICK j : j = Sending(m, <<m>>)
  OBVIOUS
<1>10. m \in Message /\ m.task = "run" /\ m.arg = q /\ m.tries = 0
  BY <1>5, <1>8 DEF RunMsg, Msg, Message, Tasks, MaxRetries
<1>11. MsgOK(m)'
  BY <1>6, <1>10 DEF MsgOK
<1>12. <<m>> \in Seq(Message) /\ <<m>> # <<>> /\ Range(<<m>>) = {m} /\ DOMAIN <<m>> = {1}
  BY <1>10 DEF Range
<1>13. j \in Job /\ j.phase = "sending" /\ j.msg = m /\ j.unsent = <<m>>
  BY <1>9, <1>10, <1>12 DEF Job, Sending
<1>14. job' = [job EXCEPT ![Api] = j]
  BY <1>4, <1>5, <1>8, <1>9 DEF RunNow, RunMsg
<1>15. Turns(Api, j)
  BY <1>13, <1>14 DEF Turns
<1>16. JobOK(Api, j)'
  <2>1. j.unsent # <<>> /\ \A n \in Range(j.unsent) : n = m
    BY <1>12, <1>13
  <2>2. \A n \in Range(j.unsent) : MsgOK(n)'
    BY <1>11, <2>1
  <2>3. MsgOK(j.msg)'
    BY <1>11, <1>13
  <2>4. QED
    BY <1>13, <2>1, <2>2, <2>3 DEF JobOK
<1>17. job'[Api] = j /\ (\A t \in Senders : t # Api => job'[t] = job[t]) /\ JobsOK'
  BY <1>2, <1>7, <1>15, <1>16, JobsAfter, JobsOKAfter
<1>18. QueuesOK' /\ CountsOK'
  <2>1. QueuesOK'
    BY <1>1, <1>7, QueuesOKStill
  <2>2. CountsOK'
    BY <1>1, <1>2 DEF CountsOK, TypeOK
  <2>3. QED
    BY <2>1, <2>2
<1>19. RowsOK'
  <2>1. \A r \in DOMAIN runs' : runs'[r].by = NoAlert \/ runs'[r].by \in DOMAIN alerts
    BY <1>3, <1>6 DEF TypeOK
  <2>2. QED
    BY <1>1, <1>4, <2>1 DEF RowsOK, TypeOK
<1>20. ASSUME NEW r \in DOMAIN runs'
       PROVE  Single(RunMsg(r), j.unsent) /\ (RunMsg(r) \in Range(j.unsent) <=> r \notin DOMAIN runs)
  <2>1. Single(RunMsg(r), j.unsent)
    BY <1>12, <1>13 DEF Single
  <2>2. RunMsg(r) = m <=> r = q
    BY <1>8, MessageFacts
  <2>3. QED
    BY <1>6, <1>12, <1>13, <2>1, <2>2
<1>21. Creates(Api)
  BY <1>1, <1>3, <1>6, <1>13, <1>17, <1>20 DEF Creates, NoWalk
<1>22. QED
  BY <1>1, <1>3, <1>6, <1>17, <1>18, <1>19, <1>21, TypePartsNext

\* Worker w commits one run of each workflow that its alert triggers.
Triggers(w) ==
    /\ job[w].phase = "match"
    /\ \A r \in DOMAIN runs' : r \notin DOMAIN runs =>
           runs'[r].by = job[w].alert /\ runs'[r].wf \in Matching(job[w].msg.arg)
    /\ \A f \in Matching(job[w].msg.arg) :
           \E r \in DOMAIN runs' : r \notin DOMAIN runs /\ runs'[r].wf = f
    /\ \A r, q \in DOMAIN runs' :
           r \notin DOMAIN runs /\ q \notin DOMAIN runs /\ runs'[r].wf = runs'[q].wf => r = q

(* That is what matching the workflows does.                                 *)
LEMMA MatchDoes ==
    ASSUME TypeOK, NEW w \in Workers, MatchWorkflows(w)
    PROVE  TypeOK' /\ Creates(w) /\ Triggers(w)
<1> DEFINE M == Matching(job[w].msg.arg)
           a == job[w].alert
           N == Len(runs)
           new == [i \in DOMAIN SetToSeq(M) |->
                     [wf |-> SetToSeq(M)[i], by |-> a, status |-> "PENDING"]]
           sends == [i \in DOMAIN SetToSeq(M) |-> Msg("run", N + i)]
           e == Msg("enrich", a)
           k == Cardinality(M)
<1>1. /\ job[w].phase = "match" /\ runs' = runs \o new
      /\ job' = [job EXCEPT ![w] = Sending(job[w].msg, Append(sends, e))]
      /\ UNCHANGED <<queues, alerts, runCount, posted, manual, faults, executed, redelivered,
                     cut, overlapped>>
  BY DEF MatchWorkflows, history
<1>2. w \in Senders /\ w # Api
  BY SoarRunsAssumption DEF Senders
<1>3. /\ MsgOK(job[w].msg) /\ job[w].msg \in Message /\ job[w].msg.task = "webhook"
      /\ a \in DOMAIN alerts /\ a \in Nat
  BY <1>1, <1>2, SenderFacts, JobFacts DEF JobOK
<1>4. M \subseteq Workflows /\ IsFiniteSet(M)
  <2>1. M \subseteq Workflows
    BY DEF Matching
  <2>2. QED
    BY <2>1, SoarRunsAssumption, FS_Subset
<1>5. PICK s : s = SetToSeq(M)
  OBVIOUS
<1> HIDE DEF M
<1>6. /\ s \in Seq(M) /\ Range(s) = M /\ DOMAIN s = 1 .. k /\ k \in Nat
      /\ \A i, j \in DOMAIN s : s[i] = s[j] => i = j
  BY <1>4, <1>5, ListsTheSet
<1>7. \A i \in 1 .. k : s[i] \in M /\ s[i] \in Workflows
  BY <1>4, <1>6
<1>8. /\ new = [i \in 1 .. k |-> [wf |-> s[i], by |-> a, status |-> "PENDING"]]
      /\ sends = [i \in 1 .. k |-> Msg("run", N + i)]
  BY <1>5, <1>6
<1> HIDE DEF new, sends
<1>9. /\ DOMAIN new = 1 .. k
      /\ \A i \in 1 .. k : new[i].wf = s[i] /\ new[i].by = a /\ new[i].status = "PENDING"
      /\ \A i \in 1 .. k : new[i] \in RunRow
  BY <1>3, <1>7, <1>8 DEF RunRow, Statuses
<1>10. new \in Seq(RunRow) /\ Len(new) = k
  <2>1. new \in [1 .. k -> RunRow]
    BY <1>8, <1>9
  <2>2. new \in Seq(RunRow)
    BY <1>6, <2>1, SeqDef
  <2>3. QED
    BY <1>6, <1>9, <2>2, LenProperties
<1>11. N \in Nat /\ DOMAIN runs = 1 .. N
  BY RowFacts
<1>12. \A i \in 1 .. k : /\ Msg("run", N + i) \in Message /\ Msg("run", N + i).task = "run"
                         /\ Msg("run", N + i).arg = N + i /\ Msg("run", N + i).tries = 0
  BY <1>6, <1>11 DEF Msg, Message, Tasks, MaxRetries
<1>13. sends \in Seq(Message) /\ DOMAIN sends = 1 .. k /\ Len(sends) = k
       /\ \A i \in 1 .. k : sends[i] = Msg("run", N + i)
  <2>1. sends \in [1 .. k -> Message]
    BY <1>8, <1>12
  <2>2. sends \in Seq(Message)
    BY <1>6, <2>1, SeqDef
  <2>3. QED
    BY <1>6, <1>8, <2>2, LenProperties
<1>14. /\ runs' \in Seq(RunRow) /\ DOMAIN runs' = 1 .. N + k
       /\ \A r \in DOMAIN runs : r \in DOMAIN runs' /\ runs'[r] = runs[r]
       /\ \A i \in 1 .. k : N + i \in DOMAIN runs' /\ runs'[N + i] = new[i] /\ N + i \notin DOMAIN runs
       /\ \A r \in DOMAIN runs' : r \in DOMAIN runs \/ \E i \in 1 .. k : r = N + i
  BY <1>1, <1>9, <1>10, RunsAdded
<1>15. Grows
  BY <1>1, <1>14 DEF Grows
<1>16. e \in Message /\ e.task = "enrich" /\ e.arg = a /\ e.tries = 0
  BY <1>3 DEF Msg, Message, Tasks, MaxRetries
<1> HIDE DEF e
<1>17. PICK u : u = Append(sends, e)
  OBVIOUS
<1>18. /\ u \in Seq(Message) /\ u # <<>> /\ DOMAIN u = 1 .. k + 1
       /\ \A i \in 1 .. k : u[i] = Msg("run", N + i)
       /\ u[k + 1] = e
  BY <1>13, <1>16, <1>17, PutLast
<1>19. \A n \in Range(u) : n = e \/ \E i \in 1 .. k : n = Msg("run", N + i)
  <2>1. ASSUME NEW n \in Range(u) PROVE n = e \/ \E i \in 1 .. k : n = Msg("run", N + i)
    <3>1. PICK i \in 1 .. k + 1 : n = u[i]
      BY <1>18 DEF Range
    <3>2. CASE i = k + 1
      BY <1>18, <3>1, <3>2
    <3>3. CASE i \in 1 .. k
      BY <1>18, <3>1, <3>3
    <3>4. QED
      BY <1>6, <3>1, <3>2, <3>3
  <2>2. QED
    BY <2>1
<1>20. PICK j : j = Sending(job[w].msg, u)
  OBVIOUS
<1>21. j \in Job /\ j.phase = "sending" /\ j.msg = job[w].msg /\ j.unsent = u
  BY <1>3, <1>18, <1>20 DEF Job, Sending
<1>22. Turns(w, j)
  BY <1>1, <1>17, <1>20, <1>21 DEF Turns
<1>23. JobOK(w, j)'
  <2>1. ASSUME NEW n \in Range(u) PROVE MsgOK(n)'
    <3>1. CASE n = e
      BY <1>1, <1>3, <1>16, <3>1 DEF MsgOK
    <3>2. CASE n # e
      <4>1. PICK i \in 1 .. k : n = Msg("run", N + i)
        BY <1>19, <2>1, <3>2
      <4>2. n \in Message /\ n.task = "run" /\ n.arg \in DOMAIN runs' /\ n.tries = 0
        BY <1>12, <1>14, <4>1
      <4>3. QED
        BY <4>2 DEF MsgOK
    <3>3. QED
      BY <3>1, <3>2
  <2>2. PICK m : m = job[w].msg
    OBVIOUS
  <2>3. MsgOK(m)'
    BY <1>3, <1>15, <2>2, StillOK
  <2>4. MsgOK(j.msg)'
    BY <1>21, <2>2, <2>3
  <2>5. QED
    BY <1>2, <1>3, <1>18, <1>21, <2>1, <2>4 DEF JobOK
<1>24. job'[w] = j /\ (\A t \in Senders : t # w => job'[t] = job[t]) /\ JobsOK'
  BY <1>2, <1>15, <1>22, <1>23, JobsAfter, JobsOKAfter
<1>25. QueuesOK' /\ CountsOK'
  <2>1. QueuesOK'
    BY <1>1, <1>15, QueuesOKStill
  <2>2. CountsOK'
    BY <1>1 DEF CountsOK, TypeOK
  <2>3. QED
    BY <2>1, <2>2
<1>26. RowsOK'
  <2>1. \A r \in DOMAIN runs' : runs'[r].by = NoAlert \/ runs'[r].by \in DOMAIN alerts
    BY <1>3, <1>9, <1>14 DEF TypeOK
  <2>2. QED
    BY <1>1, <1>14, <2>1 DEF RowsOK, TypeOK
<1>27. ASSUME NEW r \in DOMAIN runs'
       PROVE  Single(RunMsg(r), u) /\ (RunMsg(r) \in Range(u) <=> r \notin DOMAIN runs)
  <2>1. \A i \in 1 .. k : u[i] = RunMsg(r) <=> N + i = r
    <3>1. \A i \in 1 .. k : u[i] = RunMsg(N + i)
      BY <1>18 DEF RunMsg
    <3>2. \A i \in 1 .. k : RunMsg(N + i) = RunMsg(r) <=> N + i = r
      BY MessageFacts
    <3>3. QED
      BY <3>1, <3>2
  <2>2. u[k + 1] # RunMsg(r)
    BY <1>16, <1>18, MessageFacts
  <2>3. \A i \in 1 .. k + 1 : u[i] = RunMsg(r) => i \in 1 .. k /\ N + i = r
    BY <1>6, <2>1, <2>2
  <2>4. Single(RunMsg(r), u)
    BY <1>6, <1>11, <1>18, <2>3 DEF Single
  <2>5. ASSUME r \notin DOMAIN runs PROVE RunMsg(r) \in Range(u)
    <3>1. PICK i \in 1 .. k : r = N + i
      BY <1>14, <2>5
    <3>2. i \in DOMAIN u /\ u[i] = RunMsg(r)
      BY <1>6, <1>18, <2>1, <3>1
    <3>3. QED
      BY <3>2 DEF Range
  <2>6. ASSUME RunMsg(r) \in Range(u) PROVE r \notin DOMAIN runs
    <3>1. PICK i \in 1 .. k + 1 : u[i] = RunMsg(r)
      BY <1>18, <2>6 DEF Range
    <3>2. QED
      BY <1>14, <2>3, <3>1
  <2>7. QED
    BY <2>4, <2>5, <2>6
<1>28. Creates(w)
  <2>1. \A r \in DOMAIN runs' : r \notin DOMAIN runs => runs'[r].status = "PENDING"
    BY <1>9, <1>14
  <2>2. QED
    BY <1>1, <1>14, <1>21, <1>24, <1>27, <2>1 DEF Creates, NoWalk
<1>29. Triggers(w)
  <2>1. \A r \in DOMAIN runs' : r \notin DOMAIN runs => runs'[r].by = a /\ runs'[r].wf \in M
    BY <1>7, <1>9, <1>14
  <2>2. ASSUME NEW f \in M PROVE \E r \in DOMAIN runs' : r \notin DOMAIN runs /\ runs'[r].wf = f
    <3>1. PICK i \in 1 .. k : s[i] = f
      BY <1>6 DEF Range
    <3>2. QED
      BY <1>9, <1>14, <3>1
  <2>3. ASSUME NEW r \in DOMAIN runs', NEW q \in DOMAIN runs', r \notin DOMAIN runs,
               q \notin DOMAIN runs, runs'[r].wf = runs'[q].wf
        PROVE  r = q
    <3>1. PICK i \in 1 .. k : r = N + i
      BY <1>14, <2>3
    <3>2. PICK j2 \in 1 .. k : q = N + j2
      BY <1>14, <2>3
    <3>3. s[i] = s[j2]
      BY <1>9, <1>14, <2>3, <3>1, <3>2
    <3>4. QED
      BY <1>6, <3>1, <3>2, <3>3
  <2>4. QED
    BY <1>1, <2>1, <2>2, <2>3 DEF Triggers, M
<1>30. QED
  BY <1>14, <1>24, <1>25, <1>26, <1>28, <1>29, TypePartsNext

\* Worker w starts to walk the workflow of run r.
Starts(w, r) ==
    /\ job[w].phase = "start" /\ job[w].msg = RunMsg(r) /\ r \in DOMAIN runs
    /\ job'[w].phase = "walk" /\ job'[w].msg = RunMsg(r) /\ job'[w].seen = runCount[runs[r].wf]
    /\ runs'[r].status = "RUNNING"
    /\ \A q \in DOMAIN runs : q # r => runs'[q].status = runs[q].status
    /\ overlapped' = IF \E v \in Workers : Walks(v, runs[r].wf) THEN overlapped \union {runs[r].wf}
                                                                ELSE overlapped
    /\ \A t \in Senders : t # w => job'[t] = job[t]
    /\ Grows /\ DOMAIN runs' = DOMAIN runs
    /\ UNCHANGED <<queues, alerts, runCount, executed, redelivered, cut>>

(* That is what starting a run does.                                         *)
LEMMA StartDoes ==
    ASSUME TypeOK, NEW w \in Workers, Start(w)
    PROVE  TypeOK' /\ \E r : Starts(w, r)
<1>1. PICK r : r = job[w].msg.arg
  OBVIOUS
<1>2. PICK f : f = runs[r].wf
  OBVIOUS
<1>3. /\ job[w].phase = "start" /\ runs' = [runs EXCEPT ![r].status = "RUNNING"]
      /\ job' = [job EXCEPT ![w] = [phase |-> "walk", msg |-> job[w].msg, seen |-> runCount[f]]]
      /\ UNCHANGED <<queues, alerts, runCount, posted, manual, faults, executed, redelivered, cut>>
  BY <1>1, <1>2 DEF Start
<1>4. overlapped' = IF {v \in Workers : Walks(v, f)} = {} THEN overlapped ELSE overlapped \union {f}
  BY <1>1, <1>2 DEF Start, Walks
<1>5. w \in Senders /\ w # Api
  BY SoarRunsAssumption DEF Senders
<1>6. /\ MsgOK(job[w].msg) /\ job[w].msg \in Message /\ job[w].msg.task = "run"
      /\ job[w].msg = RunMsg(r) /\ r \in DOMAIN runs /\ f \in Workflows
  BY <1>1, <1>2, <1>3, <1>5, SenderFacts, RowFacts DEF MsgOK
<1>7. Marks(r, "RUNNING")
  BY <1>3 DEF Marks, Statuses
<1>8. /\ runs' \in Seq(RunRow) /\ DOMAIN runs' = DOMAIN runs
      /\ \A q \in DOMAIN runs : runs'[q].wf = runs[q].wf /\ runs'[q].by = runs[q].by
      /\ \A q \in DOMAIN runs : q # r => runs'[q].status = runs[q].status
      /\ runs'[r].status = "RUNNING"
  BY <1>6, <1>7, RunMarked
<1>9. Grows
  BY <1>3, <1>8 DEF Grows
<1>10. PICK j : j = [phase |-> "walk", msg |-> job[w].msg, seen |-> runCount[f]]
  OBVIOUS
<1>11. j \in Job /\ j.phase = "walk" /\ j.msg = job[w].msg /\ j.seen = runCount[f]
  <2>1. runCount[f] \in Nat
    BY <1>6 DEF TypeOK
  <2>2. QED
    BY <1>6, <1>10, <2>1 DEF Job
<1>12. Turns(w, j)
  BY <1>3, <1>10, <1>11 DEF Turns
<1>13. JobOK(w, j)
  BY <1>5, <1>6, <1>11 DEF JobOK
<1>14. JobOK(w, j)'
  BY <1>9, <1>13, StillOK
<1>15. job'[w] = j /\ (\A t \in Senders : t # w => job'[t] = job[t]) /\ JobsOK'
  BY <1>5, <1>9, <1>12, <1>14, JobsAfter, JobsOKAfter
<1>16. QueuesOK'
  BY <1>3, <1>9, QueuesOKStill
<1>17. RowsOK'
  BY <1>3, <1>8 DEF RowsOK, TypeOK
<1>18. CountsOK'
  BY <1>3, <1>4, <1>6 DEF CountsOK, TypeOK
<1>19. overlapped' = IF \E v \in Workers : Walks(v, f) THEN overlapped \union {f} ELSE overlapped
  BY <1>4
<1>20. Starts(w, r)
  BY <1>2, <1>3, <1>6, <1>8, <1>9, <1>11, <1>15, <1>19 DEF Starts
<1>21. QED
  BY <1>15, <1>16, <1>17, <1>18, <1>20, TypePartsNext

\* Worker w ends its walk of run r.
Finishes(w, r) ==
    /\ job[w].phase = "walk" /\ job[w].msg = RunMsg(r) /\ r \in DOMAIN runs /\ Rests(job'[w])
    /\ runs'[r].status \in Terminal
    /\ \A q \in DOMAIN runs : q # r => runs'[q].status = runs[q].status
    /\ runCount' = [runCount EXCEPT ![runs[r].wf] = job[w].seen + 1]
    /\ executed' = [executed EXCEPT ![runs[r].wf] = @ + 1]
    /\ \A t \in Senders : t # w => job'[t] = job[t]
    /\ Grows /\ DOMAIN runs' = DOMAIN runs
    /\ UNCHANGED <<queues, alerts, redelivered, cut, overlapped>>

(* That is what finishing a run does.                                        *)
LEMMA FinishDoes ==
    ASSUME TypeOK, NEW w \in Workers, Finish(w)
    PROVE  TypeOK' /\ \E r : Finishes(w, r)
<1>1. PICK r : r = job[w].msg.arg
  OBVIOUS
<1>2. PICK f : f = runs[r].wf
  OBVIOUS
<1>3. /\ job[w].phase = "walk" /\ job' = [job EXCEPT ![w] = Done(w)]
      /\ runCount' = [runCount EXCEPT ![f] = job[w].seen + 1]
      /\ executed' = [executed EXCEPT ![f] = @ + 1]
      /\ UNCHANGED <<queues, alerts, posted, manual, faults, redelivered, cut, overlapped>>
  BY <1>1, <1>2 DEF Finish
<1>4. PICK status \in Terminal : runs' = [runs EXCEPT ![r].status = status]
  BY <1>1 DEF Finish
<1>5. w \in Senders /\ w # Api
  BY SoarRunsAssumption DEF Senders
<1>6. /\ job[w].msg = RunMsg(r) /\ r \in DOMAIN runs /\ f \in Workflows /\ job[w].seen \in Nat
  BY <1>1, <1>2, <1>3, <1>5, SenderFacts, JobFacts, RowFacts
<1>7. Marks(r, status)
  BY <1>4 DEF Marks, Statuses, Terminal
<1>8. /\ runs' \in Seq(RunRow) /\ DOMAIN runs' = DOMAIN runs
      /\ \A q \in DOMAIN runs : runs'[q].wf = runs[q].wf /\ runs'[q].by = runs[q].by
      /\ \A q \in DOMAIN runs : q # r => runs'[q].status = runs[q].status
      /\ runs'[r].status = status
  BY <1>6, <1>7, RunMarked
<1>9. Grows
  BY <1>3, <1>8 DEF Grows
<1>10. PICK j : j = Done(w) /\ j \in Job /\ Rests(j) /\ JobOK(w, j)'
  BY <1>3, <1>5, <1>9, DoneOK
<1>11. /\ Rests(job'[w]) /\ (\A t \in Senders : t # w => job'[t] = job[t]) /\ JobsOK'
  <2>1. Turns(w, j)
    BY <1>3, <1>10 DEF Turns
  <2>2. QED
    BY <1>5, <1>9, <1>10, <2>1, JobsAfter, JobsOKAfter
<1>12. QueuesOK'
  BY <1>3, <1>9, QueuesOKStill
<1>13. RowsOK'
  BY <1>3, <1>8 DEF RowsOK, TypeOK
<1>14. CountsOK'
  BY <1>3, <1>6 DEF CountsOK, TypeOK
<1>15. Finishes(w, r)
  BY <1>2, <1>3, <1>4, <1>6, <1>8, <1>9, <1>11 DEF Finishes
<1>16. QED
  BY <1>11, <1>12, <1>13, <1>14, <1>15, TypePartsNext

\* Sender s is at rest; what it leaves behind is cut, or delivered again.
Leaves(s) ==
    /\ job[s].phase # "idle" /\ Rests(job'[s]) /\ \A t \in Senders : t # s => job'[t] = job[t]
    /\ redelivered \subseteq redelivered' /\ cut \subseteq cut'
    /\ \A m \in LeftBehind(job[s]) :
           \/ m \in cut'
           \/ m = job[s].msg /\ (m.task = "run" => m \in redelivered' /\ InQueue(m)')
    /\ \A m : InQueue(m) => InQueue(m)'
    /\ \A m : m \notin redelivered' => (InQueue(m)' => InQueue(m))
                                    /\ (Single(m, queues["default"]) => Single(m, queues'["default"]))
    /\ UNCHANGED <<alerts, runs, runCount, executed, overlapped>>

(* A fault puts the sender at rest; rows stay.                               *)
LEMMA FaultFacts ==
    ASSUME TypeOK, NEW s \in Senders, Fault(s, Idle) \/ Fault(s, Done(s)),
           UNCHANGED <<tables, posted, manual, executed, overlapped>>
    PROVE  /\ job[s].phase # "idle" /\ Rests(job'[s]) /\ \A t \in Senders : t # s => job'[t] = job[t]
           /\ Grows /\ JobsOK' /\ RowsOK' /\ CountsOK'
           /\ UNCHANGED <<alerts, runs, runCount, executed, overlapped>>
<1>1. PICK j : /\ j = Idle \/ j = Done(s)
               /\ job[s].phase # "idle" /\ faults' = faults + 1 /\ job' = [job EXCEPT ![s] = j]
  BY DEF Fault, Busy
<1>2. UNCHANGED <<alerts, runs, runCount, posted, manual, executed, overlapped>> /\ Grows
  BY GrowsStill DEF tables
<1>3. j \in Job /\ Rests(j) /\ JobOK(s, j)'
  <2>1. CASE j = Idle
    BY <2>1, IdleOK DEF Rests
  <2>2. CASE j = Done(s)
    BY <1>1, <1>2, <2>2, DoneOK
  <2>3. QED
    BY <1>1, <2>1, <2>2
<1>4. Rests(job'[s]) /\ (\A t \in Senders : t # s => job'[t] = job[t]) /\ JobsOK'
  <2>1. Turns(s, j)
    BY <1>1, <1>3 DEF Turns
  <2>2. QED
    BY <1>2, <1>3, <2>1, JobsAfter, JobsOKAfter
<1>5. RowsOK'
  BY <1>2 DEF RowsOK, TypeOK
<1>6. CountsOK'
  BY <1>1, <1>2 DEF CountsOK, TypeOK
<1>7. QED
  BY <1>1, <1>2, <1>3, <1>4, <1>5, <1>6

(* A task that raises, or whose process is killed, leaves what it had cut.   *)
LEMMA BreakDoes ==
    ASSUME TypeOK, NEW s \in Senders, Raises(s) \/ Killed(s)
    PROVE  TypeOK' /\ Leaves(s)
<1>1. /\ (Fault(s, Idle) \/ Fault(s, Done(s))) /\ UNCHANGED <<tables, posted, manual, executed, overlapped>>
      /\ cut' = cut \union LeftBehind(job[s]) /\ UNCHANGED redelivered
  BY DEF Raises, Killed
<1>2. /\ job[s].phase # "idle" /\ Rests(job'[s]) /\ \A t \in Senders : t # s => job'[t] = job[t]
      /\ Grows /\ JobsOK' /\ RowsOK' /\ CountsOK'
      /\ UNCHANGED <<alerts, runs, runCount, executed, overlapped>>
  BY <1>1, FaultFacts
<1>3. PICK m : m = [job[s].msg EXCEPT !.tries = @ + 1]
  OBVIOUS
<1>4. UNCHANGED queues \/ (Put(m) /\ job[s].phase = "enrich" /\ job[s].msg.tries < MaxRetries)
  BY <1>3 DEF Raises, Killed
<1>5. QueuesOK' /\ queues'["default"] = queues["default"]
  <2>1. CASE UNCHANGED queues
    BY <1>2, <2>1, QueuesOKStill
  <2>2. CASE Put(m) /\ job[s].phase = "enrich" /\ job[s].msg.tries < MaxRetries
    <3>1. MsgOK(job[s].msg) /\ job[s].msg.task \in Tasks /\ job[s].phase = FirstPhase(job[s].msg.task)
      BY <2>2, SenderFacts DEF JobOK, MsgOK, Message
    <3>2. job[s].msg.task = "enrich"
      BY <2>2, <3>1 DEF FirstPhase, Tasks
    <3>3. /\ job[s].msg \in [task : Tasks, arg : Nat \union Webhooks, tries : 0 .. MaxRetries]
          /\ job[s].msg.arg \in DOMAIN alerts
      BY <3>1, <3>2 DEF MsgOK, Message
    <3>4. job[s].msg.tries + 1 \in 0 .. MaxRetries
      BY <2>2, <3>3 DEF MaxRetries
    <3>5. m \in Message /\ m.task = "enrich" /\ m.arg = job[s].msg.arg
      BY <1>3, <3>2, <3>3, <3>4 DEF Message
    <3>6. MsgOK(m)
      BY <3>3, <3>5 DEF MsgOK
    <3>7. QED
      BY <1>2, <2>2, <3>5, <3>6, QueuesOKPut, QueuesAfterPut
  <2>3. QED
    BY <1>4, <2>1, <2>2
<1>6. \A n : InQueue(n)' <=> InQueue(n)
  BY <1>5 DEF InQueue
<1>7. Leaves(s)
  BY <1>1, <1>2, <1>5, <1>6 DEF Leaves
<1>8. QED
  BY <1>2, <1>5, <1>7, TypePartsNext

(* A worker that dies has its message delivered again.                       *)
LEMMA RedeliveredDoes ==
    ASSUME TypeOK, NEW w \in Workers, Redelivered(w)
    PROVE  TypeOK' /\ Leaves(w)
<1>1. PICK m : m = job[w].msg
  OBVIOUS
<1>2. /\ Fault(w, Idle) /\ UNCHANGED <<tables, posted, manual, executed, overlapped>>
      /\ cut' = cut \union (LeftBehind(job[w]) \ {m}) /\ redelivered' = redelivered \union {m}
  BY <1>1 DEF Redelivered
<1>3. PICK r : r = Route(m)
  OBVIOUS
<1>4. PICK q \in {Append(queues[r], m), <<m>> \o queues[r]} : queues' = [queues EXCEPT ![r] = q]
  BY <1>1, <1>3 DEF Redelivered
<1>5. w \in Senders
  BY DEF Senders
<1>6. /\ job[w].phase # "idle" /\ Rests(job'[w]) /\ \A t \in Senders : t # w => job'[t] = job[t]
      /\ Grows /\ JobsOK' /\ RowsOK' /\ CountsOK'
      /\ UNCHANGED <<alerts, runs, runCount, executed, overlapped>>
  BY <1>2, <1>5, FaultFacts
<1>7. MsgOK(m) /\ m \in Message /\ r \in Routes /\ (r = "default" <=> m.task = "run")
  BY <1>1, <1>3, <1>5, <1>6, SenderFacts, JobFacts, MessageFacts
<1>8. queues \in [Routes -> Seq(Message)] /\ queues[r] \in Seq(Message)
  BY <1>7 DEF TypeOK
<1>9. /\ q \in Seq(Message) /\ Range(q) = Range(queues[r]) \union {m}
      /\ \A n : Single(n, queues[r]) /\ n # m => Single(n, q)
  <2>1. CASE q = Append(queues[r], m)
    <3>1. q \in Seq(Message) /\ Range(q) = Range(queues[r]) \union {m}
      BY <1>7, <1>8, <2>1, PutLast
    <3>2. ASSUME NEW n, Single(n, queues[r]), n # m PROVE Single(n, q)
      BY <1>7, <1>8, <2>1, <3>2, SingleAppend
    <3>3. QED
      BY <3>1, <3>2
  <2>2. CASE q = <<m>> \o queues[r]
    BY <1>7, <1>8, <2>2, PutFirst
  <2>3. QED
    BY <1>4, <2>1, <2>2
<1>10. /\ queues' \in [Routes -> Seq(Message)] /\ queues'[r] = q
       /\ \A t \in Routes : t # r => queues'[t] = queues[t]
  BY <1>4, <1>7, <1>8, <1>9
<1>11. QueuesOK'
  <2>1. ASSUME NEW t \in Routes, NEW n \in Range(queues'[t]) PROVE MsgOK(n)' /\ Route(n) = t
    <3>1. n \in Range(queues[t]) \/ (t = r /\ n = m)
      BY <1>9, <1>10, <2>1
    <3>2. MsgOK(n) /\ Route(n) = t
      BY <1>3, <1>7, <3>1 DEF TypeOK
    <3>3. QED
      BY <1>6, <3>2, StillOK
  <2>2. QED
    BY <1>10, <2>1 DEF QueuesOK
<1>12. Leaves(w)
  <2>1. \A n \in LeftBehind(job[w]) : n \in cut' \/ n = m
    BY <1>2
  <2>2. CASE m.task = "run"
    <3>1. r = "default" /\ \A n : InQueue(n)' <=> InQueue(n) \/ n = m
      BY <1>7, <1>9, <1>10, <2>2 DEF InQueue
    <3>2. m \in redelivered' /\ cut \subseteq cut' /\ redelivered \subseteq redelivered'
      BY <1>2
    <3>3. \A n : n \notin redelivered' =>
              (InQueue(n)' => InQueue(n)) /\ (Single(n, queues["default"]) => Single(n, queues'["default"]))
      BY <1>9, <1>10, <3>1, <3>2
    <3>4. QED
      BY <1>1, <1>6, <2>1, <3>1, <3>2, <3>3 DEF Leaves
  <2>3. CASE m.task # "run"
    <3>1. queues'["default"] = queues["default"]
      BY <1>7, <1>10, <2>3 DEF Routes
    <3>2. \A n : InQueue(n)' <=> InQueue(n)
      BY <3>1 DEF InQueue
    <3>3. cut \subseteq cut' /\ redelivered \subseteq redelivered'
      BY <1>2
    <3>4. QED
      BY <1>1, <1>6, <2>1, <2>3, <3>1, <3>2, <3>3 DEF Leaves
  <2>4. QED
    BY <2>2, <2>3
<1>13. QED
  BY <1>6, <1>11, <1>12, TypePartsNext

-----------------------------------------------------------------------------
(* What a step can be                                                      *)

\* The API commits a run that no alert asked for.
ByHand ==
    /\ Creates(Api) /\ job[Api].phase = "idle"
    /\ \A r \in DOMAIN runs' : r \notin DOMAIN runs => runs'[r].by = NoAlert

Effect ==
    \/ PlainStep \/ ByHand
    \/ \E w \in Workers : \E x : Ingests(w, x) \/ Takes(w, x) \/ Starts(w, x) \/ Finishes(w, x)
    \/ \E w \in Workers : Creates(w) /\ Triggers(w)
    \/ \E s \in Senders : Leaves(s) \/ \E m : Sends(s, m)

(* Every step keeps the types, and is one of those above.                    *)
LEMMA NextDoes ==
    ASSUME TypeOK, Next
    PROVE  TypeOK' /\ Effect
<1>1. ASSUME NEW w \in Workers, Step(w) PROVE TypeOK' /\ Effect
  <2>1. CASE \E r \in Routes : Take(w, r)
    <3>1. TypeOK' /\ (PlainStep \/ \E m : Takes(w, m))
      BY <2>1, TakeDoes
    <3>2. QED
      BY <3>1 DEF Effect
  <2>2. CASE Ingest(w)
    <3>1. TypeOK' /\ (PlainStep \/ \E a : Ingests(w, a))
      BY <2>2, IngestDoes
    <3>2. QED
      BY <3>1 DEF Effect
  <2>3. CASE MatchWorkflows(w)
    BY <2>3, MatchDoes DEF Effect
  <2>4. CASE SendNext(w)
    <3>1. w \in Senders
      BY DEF Senders
    <3>2. QED
      BY <2>4, <3>1, SendDoes DEF Effect
  <2>5. CASE Sweep(w)
    BY <2>5, SweepPlain DEF Effect
  <2>6. CASE Enrich(w)
    BY <2>6, EnrichPlain DEF Effect
  <2>7. CASE Start(w)
    <3>1. TypeOK' /\ \E r : Starts(w, r)
      BY <2>7, StartDoes
    <3>2. QED
      BY <3>1 DEF Effect
  <2>8. CASE Finish(w)
    <3>1. TypeOK' /\ \E r : Finishes(w, r)
      BY <2>8, FinishDoes
    <3>2. QED
      BY <3>1 DEF Effect
  <2>9. CASE Acknowledge(w)
    BY <2>9, AcknowledgePlain DEF Effect
  <2>10. QED
    BY <1>1, <2>1, <2>2, <2>3, <2>4, <2>5, <2>6, <2>7, <2>8, <2>9 DEF Step
<1>2. CASE (\E h \in Webhooks : PostWebhook(h)) \/ BeatSweep
  BY <1>2, PutPlain DEF Effect
<1>3. CASE PostAlert
  BY <1>3, PostAlertPlain DEF Effect
<1>4. CASE \E f \in Workflows : RunNow(f)
  BY <1>4, RunNowDoes DEF Effect, ByHand
<1>5. CASE \E a \in DOMAIN alerts : Triage(a)
  BY <1>5, TriagePlain DEF Effect
<1>6. CASE SendNext(Api)
  <2>1. Api \in Senders
    BY DEF Senders
  <2>2. QED
    BY <1>6, <2>1, SendDoes DEF Effect
<1>7. CASE \E w \in Workers : Redelivered(w)
  <2>1. PICK w \in Workers : Redelivered(w)
    BY <1>7
  <2>2. w \in Senders
    BY DEF Senders
  <2>3. QED
    BY <2>1, <2>2, RedeliveredDoes DEF Effect
<1>8. CASE \E s \in Senders : Raises(s) \/ Killed(s)
  BY <1>8, BreakDoes DEF Effect
<1>9. QED
  BY <1>1, <1>2, <1>3, <1>4, <1>5, <1>6, <1>7, <1>8 DEF Next

-----------------------------------------------------------------------------
(* run_count                                                               *)

\* No walk begins or ends, and no count changes.
SameWalks ==
    /\ Grows /\ UNCHANGED <<runCount, executed, overlapped>>
    /\ \A w \in Workers : job'[w].phase = "walk" => job'[w] = job[w]

(* A walk that goes on is of the same workflow.                              *)
LEMMA WalksStill ==
    ASSUME TypeOK, Grows, NEW w \in Workers, job'[w] = job[w], NEW f
    PROVE  Walks(w, f)' <=> Walks(w, f)
<1>1. PICK r : r = job[w].msg.arg
  OBVIOUS
<1>2. CASE job[w].phase = "walk"
  <2>1. r \in DOMAIN runs
    BY <1>1, <1>2, SenderFacts DEF Senders
  <2>2. runs'[r].wf = runs[r].wf
    BY <2>1 DEF Grows
  <2>3. QED
    BY <1>1, <2>2 DEF Walks
<1>3. CASE job[w].phase # "walk"
  BY <1>3 DEF Walks
<1>4. QED
  BY <1>2, <1>3

(* The counts stay right without one.                                        *)
LEMMA CountedStill ==
    ASSUME TypeOK, Counted, SameWalks
    PROVE  Counted'
<1>1. ASSUME NEW w \in Workers, NEW f, Walks(w, f)' PROVE Walks(w, f) /\ job'[w] = job[w]
  <2>1. job'[w] = job[w]
    BY <1>1 DEF Walks, SameWalks
  <2>2. QED
    BY <1>1, <2>1, WalksStill DEF SameWalks
<1>2. UNCHANGED <<runCount, executed, overlapped>>
  BY DEF SameWalks
<1>3. QED
  BY <1>1, <1>2 DEF Counted

(* All steps but a walk's first and last are such.                           *)
LEMMA SameWalksElse ==
    ASSUME TypeOK, TypeOK', Effect, \A w \in Workers : \A x : ~Starts(w, x) /\ ~Finishes(w, x)
    PROVE  SameWalks
<1>1. CASE PlainStep
  BY <1>1 DEF PlainStep, SameWalks, Plain, Senders
<1>2. ASSUME NEW s \in Senders, Creates(s) PROVE SameWalks
  <2>1. Grows
    BY <1>2 DEF Creates, Grows, NoWalk
  <2>2. QED
    BY <1>2, <2>1 DEF Creates, SameWalks, NoWalk, Senders
<1>3. CASE ByHand
  BY <1>2, <1>3 DEF ByHand, Senders
<1>4. CASE \E w \in Workers : Creates(w) /\ Triggers(w)
  BY <1>2, <1>4 DEF Senders
<1>5. ASSUME NEW w \in Workers, NEW a, Ingests(w, a) PROVE SameWalks
  BY <1>5 DEF Ingests, SameWalks, Senders
<1>6. ASSUME NEW w \in Workers, NEW m, Takes(w, m) PROVE SameWalks
  BY <1>6, GrowsStill DEF Takes, SameWalks, Senders
<1>7. ASSUME NEW s \in Senders, Leaves(s) PROVE SameWalks
  BY <1>7, GrowsStill DEF Leaves, Rests, SameWalks, Senders
<1>8. ASSUME NEW s \in Senders, NEW m, Sends(s, m) PROVE SameWalks
  <2>1. job'[s].phase # "walk"
    BY <1>8 DEF Sends, Rests
  <2>2. QED
    BY <1>8, <2>1, GrowsStill DEF Sends, NoWalk, SameWalks, Senders
<1>9. QED
  BY <1>1, <1>3, <1>4, <1>5, <1>6, <1>7, <1>8 DEF Effect

(* A walk that starts has seen the count as it is.                           *)
LEMMA StartsCounted ==
    ASSUME TypeOK, Counted, NEW w \in Workers, NEW r, Starts(w, r)
    PROVE  Counted'
<1>1. PICK f : f = runs[r].wf
  OBVIOUS
<1>2. f \in Workflows /\ runs'[r].wf = f
  BY <1>1, RowFacts DEF Starts, Grows
<1>3. \A g : Walks(w, g)' <=> g = f
  BY <1>2, MessageFacts DEF Starts, Walks
<1>4. ASSUME NEW v \in Workers, v # w, NEW g PROVE (Walks(v, g)' <=> Walks(v, g)) /\ job'[v] = job[v]
  <2>1. job'[v] = job[v] /\ Grows
    BY <1>4 DEF Starts, Senders
  <2>2. QED
    BY <2>1, WalksStill
<1>5. UNCHANGED <<runCount, executed>> /\ job'[w].seen = runCount[f]
      /\ runCount[f] \in Nat /\ executed[f] \in Nat
  BY <1>1, <1>2 DEF Starts, TypeOK
<1>6. overlapped \subseteq overlapped' /\ (f \notin overlapped' => \A v \in Workers : ~Walks(v, f))
  BY <1>1 DEF Starts
<1>7. ASSUME NEW g \in Workflows, NEW v \in Workers, Walks(v, g)' PROVE job'[v].seen <= executed'[g]
  <2>1. CASE v = w
    BY <1>2, <1>3, <1>5, <1>7, <2>1 DEF Counted
  <2>2. CASE v # w
    BY <1>4, <1>5, <1>7, <2>2 DEF Counted
  <2>3. QED
    BY <2>1, <2>2
<1>8. ASSUME NEW g \in Workflows, g \notin overlapped'
      PROVE  /\ runCount'[g] = executed'[g]
             /\ \A u, v \in Workers : Walks(u, g)' /\ Walks(v, g)' => u = v
             /\ \A v \in Workers : Walks(v, g)' => job'[v].seen = runCount'[g]
  <2>1. runCount'[g] = executed'[g] /\ g \notin overlapped
    BY <1>5, <1>6, <1>8 DEF Counted
  <2>2. CASE g = f
    <3>1. \A v \in Workers : Walks(v, g)' => v = w
      BY <1>4, <1>6, <1>8, <2>2
    <3>2. QED
      BY <1>5, <2>1, <2>2, <3>1
  <2>3. CASE g # f
    <3>1. \A v \in Workers : Walks(v, g)' => v # w
      BY <1>3, <2>3
    <3>2. \A v \in Workers : Walks(v, g)' => Walks(v, g) /\ job'[v] = job[v]
      BY <1>4, <3>1
    <3>3. QED
      BY <1>5, <2>1, <3>2 DEF Counted
  <2>4. QED
    BY <2>2, <2>3
<1>9. \A g \in Workflows : runCount'[g] <= executed'[g]
  BY <1>5 DEF Counted
<1>10. QED
  BY <1>7, <1>8, <1>9 DEF Counted

(* A walk that ends alone writes the count that is due.                      *)
LEMMA FinishesCounted ==
    ASSUME TypeOK, Counted, NEW w \in Workers, NEW r, Finishes(w, r)
    PROVE  Counted'
<1>1. PICK f : f = runs[r].wf
  OBVIOUS
<1>2. f \in Workflows /\ Walks(w, f)
  BY <1>1, RowFacts, MessageFacts DEF Finishes, Walks
<1>3. PICK n \in Nat : n = job[w].seen
  BY SenderFacts, JobFacts DEF Finishes, Senders
<1>4. runCount \in [Workflows -> Nat] /\ executed \in [Workflows -> Nat]
  BY DEF TypeOK
<1>5. /\ runCount'[f] = n + 1 /\ executed'[f] = executed[f] + 1
      /\ \A g \in Workflows : g # f => runCount'[g] = runCount[g] /\ executed'[g] = executed[g]
      /\ UNCHANGED overlapped
  BY <1>1, <1>2, <1>3, <1>4 DEF Finishes
<1>6. ASSUME NEW v \in Workers, NEW g, Walks(v, g)'
      PROVE  Walks(v, g) /\ v # w /\ job'[v] = job[v]
  <2>1. v # w
    BY <1>6 DEF Walks, Finishes, Rests
  <2>2. job'[v] = job[v] /\ Grows
    BY <2>1 DEF Finishes, Senders
  <2>3. QED
    BY <1>6, <2>1, <2>2, WalksStill
<1>7. ASSUME NEW g \in Workflows
      PROVE  /\ runCount'[g] <= executed'[g]
             /\ \A v \in Workers : Walks(v, g)' => job'[v].seen <= executed'[g]
  <2>1. \A v \in Workers : Walks(v, g)' => job[v].seen <= executed[g] /\ job'[v] = job[v] /\ job[v].seen \in Nat
    <3>1. ASSUME NEW v \in Workers, Walks(v, g)' PROVE job[v].seen \in Nat
      BY <1>6, <3>1, SenderFacts, JobFacts DEF Walks, Senders
    <3>2. QED
      BY <1>6, <3>1 DEF Counted
  <2>2. n <= executed[f] /\ executed[f] \in Nat /\ executed[g] \in Nat /\ runCount[g] \in Nat
    BY <1>2, <1>3, <1>4 DEF Counted
  <2>3. executed[g] <= executed'[g]
    BY <1>5, <2>2
  <2>4. executed'[g] \in Nat
    BY <1>5, <2>2
  <2>5. runCount'[g] <= executed'[g]
    BY <1>5, <2>2 DEF Counted
  <2>6. QED
    BY <2>1, <2>2, <2>3, <2>4, <2>5
<1>8. ASSUME NEW g \in Workflows, g \notin overlapped'
      PROVE  /\ runCount'[g] = executed'[g]
             /\ \A u, v \in Workers : Walks(u, g)' /\ Walks(v, g)' => u = v
             /\ \A v \in Workers : Walks(v, g)' => job'[v].seen = runCount'[g]
  <2>1. CASE g = f
    <3>1. n = executed[f]
      BY <1>2, <1>3, <1>5, <1>8, <2>1 DEF Counted
    <3>2. \A v \in Workers : ~Walks(v, g)'
      BY <1>2, <1>5, <1>6, <1>8, <2>1 DEF Counted
    <3>3. QED
      BY <1>5, <2>1, <3>1, <3>2
  <2>2. CASE g # f
    BY <1>5, <1>6, <1>8, <2>2 DEF Counted
  <2>3. QED
    BY <2>1, <2>2
<1>9. QED
  BY <1>7, <1>8 DEF Counted

(* So the counts stay right.                                                 *)
LEMMA CountedNext ==
    ASSUME TypeOK, TypeOK', Counted, Effect
    PROVE  Counted'
<1>1. CASE \E w \in Workers : \E r : Starts(w, r) \/ Finishes(w, r)
  BY <1>1, StartsCounted, FinishesCounted
<1>2. CASE \A w \in Workers : \A r : ~Starts(w, r) /\ ~Finishes(w, r)
  BY <1>2, SameWalksElse, CountedStill
<1>3. QED
  BY <1>1, <1>2

-----------------------------------------------------------------------------
(* Alerts and their runs                                                   *)

\* Alert a gets no run, and its match does not begin; it may be cut off.
SameFor(a) ==
    /\ Grows /\ cut \subseteq cut'
    /\ \A r \in DOMAIN runs' : r \notin DOMAIN runs => runs'[r].by # a
    /\ \A w \in Workers : MatchesFor(w, a)' => MatchesFor(w, a) /\ job'[w] = job[w]
    /\ \A w \in Workers : MatchesFor(w, a) => MatchesFor(w, a)' \/ Msg("match", a) \in cut'

(* The runs that are there keep their alert.                                 *)
LEMMA MatchedStill ==
    ASSUME TypeOK, NEW a \in DOMAIN alerts, Matched(a), SameFor(a)
    PROVE  Matched(a)'
<1>1. a \in DOMAIN alerts' /\ alerts'[a].from = alerts[a].from
  BY DEF SameFor, Grows
<1>2. \A r \in DOMAIN runs' : runs'[r].by = a =>
          r \in DOMAIN runs /\ runs[r].by = a /\ runs'[r].wf = runs[r].wf
  BY <1>1 DEF SameFor, Grows
<1>3. \A r \in DOMAIN runs : r \in DOMAIN runs' /\ runs'[r].by = runs[r].by /\ runs'[r].wf = runs[r].wf
  BY DEF SameFor, Grows
<1>4. \A w \in Workers : MatchesFor(w, a)' => MatchesFor(w, a) /\ job'[w] = job[w]
  BY DEF SameFor
<1>5. \A w \in Workers : MatchesFor(w, a) => MatchesFor(w, a)' \/ Msg("match", a) \in cut'
  BY DEF SameFor
<1>6. \A r, q \in DOMAIN runs' :
          runs'[r].by = a /\ runs'[q].by = a /\ runs'[r].wf = runs'[q].wf => r = q
  <2>1. \A r, q \in DOMAIN runs : runs[r].by = a /\ runs[q].by = a /\ runs[r].wf = runs[q].wf => r = q
    BY DEF Matched
  <2>2. QED
    BY <1>2, <2>1
<1>7. \/ \A f \in Workflows : f \in Matching(alerts'[a].from) <=>
             \E r \in DOMAIN runs' : runs'[r].by = a /\ runs'[r].wf = f
      \/ /\ \A r \in DOMAIN runs' : runs'[r].by # a
         /\ Msg("match", a) \in cut' \/ \E w \in Workers : MatchesFor(w, a)'
  <2>1. CASE \A f \in Workflows : f \in Matching(alerts[a].from) <=>
                 \E r \in DOMAIN runs : runs[r].by = a /\ runs[r].wf = f
    BY <1>1, <1>2, <1>3, <2>1
  <2>2. CASE /\ \A r \in DOMAIN runs : runs[r].by # a
             /\ Msg("match", a) \in cut \/ \E w \in Workers : MatchesFor(w, a)
    BY <1>2, <1>5, <2>2 DEF SameFor
  <2>3. QED
    BY <2>1, <2>2 DEF Matched
<1>8. \A w \in Workers : MatchesFor(w, a)' =>
          /\ alerts'[a].from = job'[w].msg.arg
          /\ \A r \in DOMAIN runs' : runs'[r].by # a
          /\ \A v \in Workers : MatchesFor(v, a)' => v = w
  BY <1>1, <1>2, <1>4 DEF Matched
<1>9. \A f : (f \in Matching(alerts[a].from))' <=> f \in Matching(alerts'[a].from)
  BY DEF Matching, Severity
<1>10. QED
  BY <1>6, <1>7, <1>8, <1>9 DEF Matched

\* No webhook becomes an alert, and no alert gets its runs.
SameMatches ==
    /\ Grows /\ cut \subseteq cut'
    /\ \A r \in DOMAIN runs' : r \notin DOMAIN runs => runs'[r].by = NoAlert
    /\ \A a \in DOMAIN alerts' : a \notin DOMAIN alerts => alerts'[a].from = NoWebhook
    /\ \A w \in Workers : job'[w].phase = "match" => job'[w] = job[w]
    /\ \A w \in Workers : job[w].phase = "match" =>
           job'[w] = job[w] \/ Msg("match", job[w].alert) \in cut'

(* So the matches stay as they should.                                       *)
LEMMA AllMatchedStill ==
    ASSUME TypeOK, AllMatched, SameMatches
    PROVE  AllMatched'
<1>1. ASSUME NEW a \in DOMAIN alerts', alerts'[a].from # NoWebhook PROVE Matched(a)'
  <2>1. a \in DOMAIN alerts /\ alerts[a].from # NoWebhook
    BY <1>1 DEF SameMatches, Grows
  <2>2. Matched(a)
    BY <2>1 DEF AllMatched
  <2>3. a # NoAlert
    BY <2>1, RowFacts
  <2>4. SameFor(a)
    BY <2>3 DEF SameFor, SameMatches, MatchesFor
  <2>5. QED
    BY <2>1, <2>2, <2>4, MatchedStill
<1>2. QED
  BY <1>1 DEF AllMatched

(* All steps are such but a webhook's becoming an alert and its match.       *)
LEMMA SameMatchesElse ==
    ASSUME TypeOK, TypeOK', Effect, \A w \in Workers : ~(Creates(w) /\ Triggers(w)) /\ \A x : ~Ingests(w, x)
    PROVE  SameMatches
<1>1. CASE PlainStep
  BY <1>1 DEF PlainStep, SameMatches, Plain, Senders
<1>2. CASE ByHand
  <2>1. Grows
    BY <1>2 DEF ByHand, Creates, Grows, NoWalk
  <2>2. QED
    BY <1>2, <2>1 DEF ByHand, Creates, SameMatches, NoWalk, Senders
<1>3. ASSUME NEW w \in Workers, NEW m, Takes(w, m) PROVE SameMatches
  BY <1>3, GrowsStill, IdleOK DEF Takes, SameMatches, Senders
<1>4. ASSUME NEW w \in Workers, NEW r, Starts(w, r) PROVE SameMatches
  BY <1>4 DEF Starts, SameMatches, Senders
<1>5. ASSUME NEW w \in Workers, NEW r, Finishes(w, r) PROVE SameMatches
  BY <1>5 DEF Finishes, Rests, SameMatches, Senders
<1>6. ASSUME NEW s \in Senders, Leaves(s) PROVE SameMatches
  <2>1. Grows /\ cut \subseteq cut' /\ job'[s].phase # "match"
        /\ (\A t \in Senders : t # s => job'[t] = job[t]) /\ UNCHANGED <<alerts, runs>>
    BY <1>6, GrowsStill DEF Leaves, Rests
  <2>2. ASSUME job[s].phase = "match" PROVE Msg("match", job[s].alert) \in cut'
    <3>1. LeftBehind(job[s]) = {Msg("match", job[s].alert)}
      BY <2>2 DEF LeftBehind
    <3>2. job[s].msg.task = "webhook"
      BY <2>2, SenderFacts DEF JobOK
    <3>3. Msg("match", job[s].alert) # job[s].msg
      BY <3>2 DEF Msg
    <3>4. QED
      BY <1>6, <3>1, <3>3 DEF Leaves
  <2>3. \A w \in Workers : job[w].phase = "match" =>
            job'[w] = job[w] \/ Msg("match", job[w].alert) \in cut'
    BY <2>1, <2>2 DEF Senders
  <2>4. QED
    BY <2>1, <2>3 DEF SameMatches, Senders
<1>7. ASSUME NEW s \in Senders, NEW m, Sends(s, m) PROVE SameMatches
  <2>1. job'[s].phase # "match" /\ job[s].phase # "match"
    BY <1>7 DEF Sends, Rests
  <2>2. QED
    BY <1>7, <2>1, GrowsStill DEF Sends, NoWalk, SameMatches, Senders
<1>8. QED
  BY <1>1, <1>2, <1>3, <1>4, <1>5, <1>6, <1>7 DEF Effect

(* The worker that made an alert of a webhook is the one to match it.        *)
LEMMA IngestsMatched ==
    ASSUME TypeOK, TypeOK', AllMatched, NEW w \in Workers, NEW a, Ingests(w, a)
    PROVE  AllMatched'
<1>1. a \notin DOMAIN alerts /\ DOMAIN alerts' = DOMAIN alerts \union {a}
  BY DEF Ingests
<1>2. a # NoAlert /\ \A r \in DOMAIN runs' : r \in DOMAIN runs /\ runs'[r].by # a
  <2>1. a \in 1 .. Len(alerts') /\ Len(alerts') \in Nat
    <3>1. alerts' \in Seq(AlertRow)
      BY DEF TypeOK
    <3>2. DOMAIN alerts' = 1 .. Len(alerts') /\ Len(alerts') \in Nat
      BY <3>1, LenProperties
    <3>3. QED
      BY <1>1, <3>2
  <2>2. a # NoAlert
    BY <2>1 DEF NoAlert
  <2>3. QED
    BY <1>1, <2>2, RowFacts DEF Ingests
<1>3. ASSUME NEW v \in Workers, v # w PROVE job'[v] = job[v] /\ ~MatchesFor(v, a) /\ ~MatchesFor(v, a)'
  <2>1. job'[v] = job[v]
    BY <1>3 DEF Ingests, Senders
  <2>2. job[v].phase = "match" => job[v].alert \in DOMAIN alerts
    BY SenderFacts DEF JobOK, Senders
  <2>3. QED
    BY <1>1, <2>1, <2>2 DEF MatchesFor
<1>4. /\ MatchesFor(w, a)' /\ alerts'[a].from = job'[w].msg.arg
      /\ job[w].phase # "match" /\ \A b : MatchesFor(w, b)' => b = a
  BY DEF Ingests, MatchesFor
<1>5. Matched(a)'
  BY <1>2, <1>3, <1>4 DEF Matched
<1>6. ASSUME NEW b \in DOMAIN alerts, alerts'[b].from # NoWebhook PROVE Matched(b)'
  <2>1. b # a /\ Matched(b)
    BY <1>1, <1>6 DEF AllMatched, Ingests, Grows
  <2>2. \A v \in Workers : /\ MatchesFor(v, b)' => MatchesFor(v, b) /\ job'[v] = job[v]
                           /\ MatchesFor(v, b) => MatchesFor(v, b)'
    BY <1>3, <1>4, <2>1 DEF MatchesFor
  <2>3. SameFor(b)
    BY <1>2, <2>2 DEF SameFor, Ingests
  <2>4. QED
    BY <2>1, <2>3, MatchedStill
<1>7. QED
  BY <1>1, <1>5, <1>6 DEF AllMatched

(* Its match gives it one run of each workflow that it triggers.             *)
LEMMA TriggersMatched ==
    ASSUME TypeOK, TypeOK', AllMatched, NEW w \in Workers, Creates(w), Triggers(w)
    PROVE  AllMatched'
<1>1. PICK a : a = job[w].alert
  OBVIOUS
<1>2. PICK h : h = job[w].msg.arg
  OBVIOUS
<1>3. a \in DOMAIN alerts /\ MatchesFor(w, a)
  BY <1>1, SenderFacts DEF JobOK, Triggers, MatchesFor, Senders
<1>4. /\ DOMAIN runs \subseteq DOMAIN runs' /\ \A r \in DOMAIN runs : runs'[r] = runs[r]
      /\ \A r \in DOMAIN runs' : r \notin DOMAIN runs => runs'[r].by = a /\ runs'[r].wf \in Matching(h)
      /\ \A f \in Matching(h) : \E r \in DOMAIN runs' : r \notin DOMAIN runs /\ runs'[r].wf = f
      /\ \A r, q \in DOMAIN runs' :
             r \notin DOMAIN runs /\ q \notin DOMAIN runs /\ runs'[r].wf = runs'[q].wf => r = q
      /\ UNCHANGED <<alerts, cut>>
  BY <1>1, <1>2 DEF Creates, Triggers, NoWalk
<1>5. Grows
  BY <1>4 DEF Grows
<1>6. job'[w].phase # "match" /\ \A v \in Workers : v # w => job'[v] = job[v]
  BY DEF Creates, Senders
<1>7. ASSUME alerts[a].from # NoWebhook PROVE Matched(a)'
  <2>1. Matched(a)
    BY <1>3, <1>7 DEF AllMatched
  <2>2. /\ alerts[a].from = h /\ \A r \in DOMAIN runs : runs[r].by # a
        /\ \A v \in Workers : MatchesFor(v, a) => v = w
    BY <1>2, <1>3, <2>1 DEF Matched
  <2>3. \A r \in DOMAIN runs' : runs'[r].by = a <=> r \notin DOMAIN runs
    BY <1>4, <2>2
  <2>4. \A v \in Workers : ~MatchesFor(v, a)'
    BY <1>6, <2>2 DEF MatchesFor
  <2>5. \A f \in Workflows : f \in Matching(h) <=>
            \E r \in DOMAIN runs' : runs'[r].by = a /\ runs'[r].wf = f
    BY <1>4, <2>3
  <2>6. \A f : (f \in Matching(alerts[a].from))' <=> f \in Matching(h)
    BY <1>4, <2>2 DEF Matching, Severity
  <2>7. \A r, q \in DOMAIN runs' :
            runs'[r].by = a /\ runs'[q].by = a /\ runs'[r].wf = runs'[q].wf => r = q
    BY <1>4, <2>3
  <2>8. QED
    BY <2>4, <2>5, <2>6, <2>7 DEF Matched
<1>8. ASSUME NEW b \in DOMAIN alerts, b # a, alerts[b].from # NoWebhook PROVE Matched(b)'
  <2>1. Matched(b)
    BY <1>8 DEF AllMatched
  <2>2. \A v \in Workers : /\ MatchesFor(v, b)' => MatchesFor(v, b) /\ job'[v] = job[v]
                           /\ MatchesFor(v, b) => MatchesFor(v, b)'
    BY <1>1, <1>6, <1>8 DEF MatchesFor
  <2>3. SameFor(b)
    BY <1>4, <1>5, <1>8, <2>2 DEF SameFor
  <2>4. QED
    BY <2>1, <2>3, MatchedStill
<1>9. QED
  BY <1>4, <1>7, <1>8 DEF AllMatched

(* So every alert has its runs, or its match to come, or a failure.          *)
LEMMA AllMatchedNext ==
    ASSUME TypeOK, TypeOK', AllMatched, Effect
    PROVE  AllMatched'
<1>1. CASE \E w \in Workers : Creates(w) /\ Triggers(w)
  BY <1>1, TriggersMatched
<1>2. CASE \E w \in Workers : \E x : Ingests(w, x)
  BY <1>2, IngestsMatched
<1>3. CASE \A w \in Workers : ~(Creates(w) /\ Triggers(w)) /\ \A x : ~Ingests(w, x)
  BY <1>3, SameMatchesElse, AllMatchedStill
<1>4. QED
  BY <1>1, <1>2, <1>3

-----------------------------------------------------------------------------
(* Runs and their messages                                                 *)

\* The message of run r comes to no new place, unless it is delivered again.
Fewer(r) ==
    RunMsg(r) \notin redelivered' =>
        /\ RunMsg(r) \notin redelivered
        /\ Single(RunMsg(r), queues["default"]) => Single(RunMsg(r), queues'["default"])
        /\ \A s \in Senders :
               /\ job'[s].phase = "sending" /\ (job[s].phase = "sending" => Single(RunMsg(r), job[s].unsent))
                      => Single(RunMsg(r), job'[s].unsent)
               /\ Has(s, RunMsg(r))' => Has(s, RunMsg(r))
        /\ InQueue(RunMsg(r))' => InQueue(RunMsg(r))
        /\ runs'[r].status \in Terminal => runs[r].status \in Terminal

(* Then it is as it should be if it was.                                     *)
LEMMA OnceFewer ==
    ASSUME NEW r, Once(r), Fewer(r)
    PROVE  Once(r)'
<1>1. ASSUME RunMsg(r) \notin redelivered'
      PROVE  /\ Single(RunMsg(r), queues'["default"])
             /\ \A s \in Senders : job'[s].phase = "sending" => Single(RunMsg(r), job'[s].unsent)
             /\ \A s, t \in Senders : Has(s, RunMsg(r))' /\ Has(t, RunMsg(r))' => s = t
             /\ \A s \in Senders : ~(Has(s, RunMsg(r))' /\ InQueue(RunMsg(r))')
             /\ runs'[r].status \in Terminal =>
                    ~InQueue(RunMsg(r))' /\ \A s \in Senders : ~Has(s, RunMsg(r))'
  BY <1>1 DEF Once, Fewer
<1>2. RunMsg(r)' = RunMsg(r)
  BY DEF RunMsg, Msg
<1>3. QED
  BY <1>1, <1>2 DEF Once

\* The message of run r is not lost, nor its end.
Kept(r) ==
    /\ runs[r].status \in Terminal => runs'[r].status \in Terminal \/ \E s \in Senders : Has(s, RunMsg(r))'
    /\ InQueue(RunMsg(r)) => InQueue(RunMsg(r))' \/ \E s \in Senders : Has(s, RunMsg(r))'
    /\ \A s \in Senders : Has(s, RunMsg(r)) =>
           \/ runs'[r].status \in Terminal
           \/ (\E t \in Senders : Has(t, RunMsg(r))') \/ InQueue(RunMsg(r))' \/ RunMsg(r) \in cut'
    /\ cut \subseteq cut'

(* Then it is still placed.                                                  *)
LEMMA PlacedKept ==
    ASSUME NEW r, Placed(r), Kept(r)
    PROVE  Placed(r)'
<1>1. RunMsg(r)' = RunMsg(r)
  BY DEF RunMsg, Msg
<1>2. QED
  BY <1>1 DEF Placed, Kept

\* The step has nothing to do with run r.
Still(r) ==
    /\ runs'[r].status \in Terminal <=> runs[r].status \in Terminal
    /\ redelivered \subseteq redelivered' /\ cut \subseteq cut'
    /\ InQueue(RunMsg(r))' <=> InQueue(RunMsg(r))
    /\ Single(RunMsg(r), queues["default"]) => Single(RunMsg(r), queues'["default"])
    /\ \A s \in Senders :
           /\ Has(s, RunMsg(r))' <=> Has(s, RunMsg(r))
           /\ job'[s].phase = "sending" /\ (job[s].phase = "sending" => Single(RunMsg(r), job[s].unsent))
                  => Single(RunMsg(r), job'[s].unsent)

(* Then all is as before.                                                    *)
LEMMA StillDelivered ==
    ASSUME NEW r, Placed(r), Once(r), Still(r)
    PROVE  Placed(r)' /\ Once(r)'
<1>1. Fewer(r)
  BY DEF Still, Fewer
<1>2. Kept(r)
  BY DEF Still, Kept
<1>3. QED
  BY <1>1, <1>2, OnceFewer, PlacedKept

(* A job that stays has what it had.                                         *)
LEMMA SameHas ==
    ASSUME NEW s, job'[s] = job[s], NEW m
    PROVE  /\ Has(s, m)' <=> Has(s, m)
           /\ job'[s].phase = "sending" /\ (job[s].phase = "sending" => Single(m, job[s].unsent))
                  => Single(m, job'[s].unsent)
  BY DEF Has

(* A step without runs has nothing to do with any.                           *)
LEMMA PlainDelivered ==
    ASSUME TypeOK, Delivered, PlainStep
    PROVE  Delivered'
<1>1. ASSUME NEW r \in DOMAIN runs, NEW s \in Senders
      PROVE  /\ Has(s, RunMsg(r))' <=> Has(s, RunMsg(r))
             /\ job'[s].phase = "sending" /\ (job[s].phase = "sending" => Single(RunMsg(r), job[s].unsent))
                    => Single(RunMsg(r), job'[s].unsent)
  <2>1. CASE job'[s] = job[s]
    BY <2>1, SameHas
  <2>2. CASE Plain(job[s]) /\ Plain(job'[s])
    <3>1. ~Has(s, RunMsg(r)) /\ ~Has(s, RunMsg(r))'
      BY <2>2, MessageFacts DEF Plain, Has
    <3>2. job'[s].phase = "sending" => RunMsg(r) \notin Range(job'[s].unsent)
      BY <2>2, MessageFacts DEF Plain
    <3>3. job'[s].phase = "sending" => Single(RunMsg(r), job'[s].unsent)
      BY <3>2 DEF Single, Range
    <3>4. QED
      BY <3>1, <3>3
  <2>3. QED
    BY <2>1, <2>2 DEF PlainStep
<1>2. ASSUME NEW r \in DOMAIN runs PROVE Still(r)
  BY <1>1 DEF Still, PlainStep, InQueue
<1>3. QED
  BY <1>2, StillDelivered DEF Delivered, PlainStep

(* Nor has a webhook that becomes an alert.                                  *)
LEMMA IngestsDelivered ==
    ASSUME TypeOK, Delivered, NEW w \in Workers, NEW a, Ingests(w, a)
    PROVE  Delivered'
<1>1. ASSUME NEW r \in DOMAIN runs, NEW s \in Senders
      PROVE  /\ Has(s, RunMsg(r))' <=> Has(s, RunMsg(r))
             /\ job'[s].phase = "sending" /\ (job[s].phase = "sending" => Single(RunMsg(r), job[s].unsent))
                    => Single(RunMsg(r), job'[s].unsent)
  <2>1. CASE s # w
    BY <2>1, SameHas DEF Ingests
  <2>2. CASE s = w
    BY <2>2 DEF Ingests, Has
  <2>3. QED
    BY <2>1, <2>2
<1>2. ASSUME NEW r \in DOMAIN runs PROVE Still(r)
  BY <1>1 DEF Still, Ingests, InQueue
<1>3. UNCHANGED runs
  BY DEF Ingests
<1>4. QED
  BY <1>2, <1>3, StillDelivered DEF Delivered

(* A message that names no run of the table is nowhere.                      *)
LEMMA NotYet ==
    ASSUME TypeOK, NEW r, r \notin DOMAIN runs
    PROVE  ~InQueue(RunMsg(r)) /\ Single(RunMsg(r), queues["default"])
           /\ \A s \in Senders : /\ ~Has(s, RunMsg(r))
                                 /\ job[s].phase = "sending" => Single(RunMsg(r), job[s].unsent)
<1>1. ~MsgOK(RunMsg(r))
  BY MessageFacts DEF MsgOK
<1>2. ~InQueue(RunMsg(r))
  BY <1>1 DEF TypeOK, InQueue, Routes
<1>3. ASSUME NEW s \in Senders, job[s].phase = "sending" PROVE RunMsg(r) \notin Range(job[s].unsent)
  BY <1>1, <1>3, SenderFacts DEF JobOK
<1>4. ASSUME NEW s \in Senders, job[s].phase \in {"start", "walk"} PROVE job[s].msg # RunMsg(r)
  BY <1>1, <1>4, SenderFacts
<1>5. QED
  BY <1>2, <1>3, <1>4 DEF InQueue, Has, Single, Range

(* New runs are with the one that committed them.                            *)
LEMMA CreatesDelivered ==
    ASSUME TypeOK, Delivered, NEW s \in Senders, Creates(s)
    PROVE  Delivered'
<1>1. ASSUME NEW r \in DOMAIN runs PROVE Placed(r)' /\ Once(r)'
  <2>1. ASSUME NEW t \in Senders
        PROVE  /\ Has(t, RunMsg(r))' <=> Has(t, RunMsg(r))
               /\ job'[t].phase = "sending" /\ (job[t].phase = "sending" => Single(RunMsg(r), job[t].unsent))
                      => Single(RunMsg(r), job'[t].unsent)
    <3>1. CASE t # s
      BY <3>1, SameHas DEF Creates
    <3>2. CASE t = s
      <4>1. ~Has(s, RunMsg(r))
        BY DEF Creates, Has
      <4>2. r \in DOMAIN runs' /\ RunMsg(r) \notin Range(job'[s].unsent)
            /\ Single(RunMsg(r), job'[s].unsent) /\ job'[s].phase = "sending"
        BY DEF Creates
      <4>3. ~Has(s, RunMsg(r))'
        BY <4>2 DEF Has
      <4>4. QED
        BY <3>2, <4>1, <4>2, <4>3
    <3>3. QED
      BY <3>1, <3>2
  <2>2. Still(r)
    BY <2>1 DEF Still, Creates, NoWalk, InQueue
  <2>3. QED
    BY <2>2, StillDelivered DEF Delivered
<1>2. ASSUME NEW r \in DOMAIN runs', r \notin DOMAIN runs PROVE Placed(r)' /\ Once(r)'
  <2>1. /\ job'[s].phase = "sending" /\ RunMsg(r) \in Range(job'[s].unsent)
        /\ Single(RunMsg(r), job'[s].unsent) /\ runs'[r].status = "PENDING"
        /\ \A t \in Senders : t # s => job'[t] = job[t]
        /\ UNCHANGED queues
    BY <1>2 DEF Creates
  <2>2. ~InQueue(RunMsg(r))' /\ Single(RunMsg(r), queues'["default"])
    BY <1>2, <2>1, NotYet DEF InQueue
  <2>3. ASSUME NEW t \in Senders, t # s
        PROVE  /\ ~Has(t, RunMsg(r))'
               /\ job'[t].phase = "sending" => Single(RunMsg(r), job'[t].unsent)
    BY <1>2, <2>1, <2>3, NotYet, SameHas
  <2>4. Has(s, RunMsg(r))'
    BY <2>1 DEF Has
  <2>5. RunMsg(r)' = RunMsg(r) /\ runs'[r].status \notin Terminal
    BY <2>1 DEF RunMsg, Msg, Terminal
  <2>6. Placed(r)'
    BY <2>4, <2>5 DEF Placed
  <2>7. Once(r)'
    BY <2>1, <2>2, <2>3, <2>5 DEF Once
  <2>8. QED
    BY <2>6, <2>7
<1>3. QED
  BY <1>1, <1>2 DEF Delivered

(* A message is moved from its queue to the worker that takes it.            *)
LEMMA TakesDelivered ==
    ASSUME TypeOK, Delivered, NEW w \in Workers, NEW m, Takes(w, m)
    PROVE  Delivered'
<1>1. PICK q : q = queues["default"]
  OBVIOUS
<1>2. /\ q \in Seq(Message) /\ q # <<>> /\ m = Head(q) /\ queues'["default"] = Tail(q)
      /\ Range(q) = {m} \union Range(Tail(q))
      /\ \A x : Single(x, q) => Single(x, Tail(q)) /\ (x = m => x \notin Range(Tail(q)))
  <2>1. q \in Seq(Message) /\ q # <<>> /\ m = Head(q) /\ queues'["default"] = Tail(q)
    BY <1>1 DEF Takes
  <2>2. QED
    BY <2>1, TakeFirst, SingleTail
<1>3. /\ job[w].phase = "idle" /\ job'[w].phase = "start" /\ job'[w].msg = m
      /\ \A t \in Senders : t # w => job'[t] = job[t]
      /\ w \in Senders /\ UNCHANGED <<runs, redelivered, cut>>
  BY IdleOK DEF Takes, Senders
<1>4. ASSUME NEW r \in DOMAIN runs, RunMsg(r) # m PROVE Placed(r)' /\ Once(r)'
  <2>1. ASSUME NEW t \in Senders
        PROVE  /\ Has(t, RunMsg(r))' <=> Has(t, RunMsg(r))
               /\ job'[t].phase = "sending" /\ (job[t].phase = "sending" => Single(RunMsg(r), job[t].unsent))
                      => Single(RunMsg(r), job'[t].unsent)
    <3>1. CASE t # w
      BY <1>3, <3>1, SameHas
    <3>2. CASE t = w
      BY <1>3, <1>4, <3>2 DEF Has
    <3>3. QED
      BY <3>1, <3>2
  <2>2. InQueue(RunMsg(r))' <=> InQueue(RunMsg(r))
    BY <1>1, <1>2, <1>4 DEF InQueue
  <2>3. Still(r)
    BY <1>1, <1>2, <1>3, <2>1, <2>2 DEF Still
  <2>4. QED
    BY <2>3, StillDelivered DEF Delivered
<1>5. ASSUME NEW r \in DOMAIN runs, RunMsg(r) = m PROVE Placed(r)' /\ Once(r)'
  <2>1. RunMsg(r)' = m
    BY <1>5 DEF RunMsg, Msg
  <2>2. Has(w, m)' /\ InQueue(m)
    BY <1>1, <1>2, <1>3 DEF Has, InQueue
  <2>3. Placed(r)'
    BY <1>3, <2>1, <2>2 DEF Placed
  <2>4. CASE m \in redelivered
    BY <1>3, <2>1, <2>3, <2>4 DEF Once
  <2>5. CASE m \notin redelivered
    <3>1. /\ Single(m, q) /\ runs[r].status \notin Terminal /\ \A s \in Senders : ~Has(s, m)
          /\ \A s \in Senders : job[s].phase = "sending" => Single(m, job[s].unsent)
      BY <1>1, <1>5, <2>2, <2>5 DEF Delivered, Once
    <3>2. \A s \in Senders : s # w => ~Has(s, m)'
      BY <1>3, <3>1, SameHas
    <3>3. \A s \in Senders : job'[s].phase = "sending" => Single(m, job'[s].unsent)
      BY <1>3, <3>1
    <3>4. Single(m, queues'["default"]) /\ ~InQueue(m)'
      BY <1>2, <3>1 DEF InQueue
    <3>5. runs'[r].status \notin Terminal
      BY <1>3, <3>1
    <3>6. QED
      BY <2>1, <2>3, <3>2, <3>3, <3>4, <3>5 DEF Once
  <2>6. QED
    BY <2>3, <2>4, <2>5
<1>6. QED
  BY <1>3, <1>4, <1>5 DEF Delivered

(* Or from the one who sends it to the queue.                                *)
LEMMA SendsDelivered ==
    ASSUME TypeOK, Delivered, NEW s \in Senders, NEW m, Sends(s, m)
    PROVE  Delivered'
<1>1. PICK u : u = job[s].unsent
  OBVIOUS
<1>2. PICK q : q = queues["default"]
  OBVIOUS
<1>3. /\ u \in Seq(Message) /\ u # <<>> /\ m = Head(u) /\ m \in Message /\ q \in Seq(Message)
      /\ job[s].phase = "sending"
      /\ queues'["default"] = IF m.task = "run" THEN Append(q, m) ELSE q
      /\ \/ job'[s].phase \notin {"sending", "start", "walk"} /\ Tail(u) = <<>>
         \/ job'[s].phase = "sending" /\ job'[s].unsent = Tail(u)
      /\ \A t \in Senders : t # s => job'[t] = job[t]
      /\ UNCHANGED <<runs, redelivered, cut>>
  BY <1>1, <1>2 DEF Sends, Rests, NoWalk
<1>4. /\ Range(u) = {m} \union Range(Tail(u))
      /\ \A x : Single(x, u) => Single(x, Tail(u)) /\ (x = m => x \notin Range(Tail(u)))
  BY <1>3, TakeFirst, SingleTail
<1>5. /\ Range(queues'["default"]) = IF m.task = "run" THEN Range(q) \union {m} ELSE Range(q)
      /\ \A x : Single(x, q) /\ (x # m \/ x \notin Range(q)) => Single(x, queues'["default"])
  <2>1. Range(Append(q, m)) = Range(q) \union {m}
    BY <1>3, PutLast
  <2>2. \A x : Single(x, q) /\ (x # m \/ x \notin Range(q)) => Single(x, Append(q, m))
    BY <1>3, SingleAppend
  <2>3. QED
    BY <1>3, <2>1, <2>2
<1>6. \A x : Has(s, x)' <=> x \in Range(Tail(u))
  BY <1>3, NothingInEmpty DEF Has
<1>7. \A x : Has(s, x) <=> x \in Range(u)
  BY <1>1, <1>3 DEF Has
<1>8. ASSUME NEW r \in DOMAIN runs, RunMsg(r) # m PROVE Placed(r)' /\ Once(r)'
  <2>1. ASSUME NEW t \in Senders
        PROVE  /\ Has(t, RunMsg(r))' <=> Has(t, RunMsg(r))
               /\ job'[t].phase = "sending" /\ (job[t].phase = "sending" => Single(RunMsg(r), job[t].unsent))
                      => Single(RunMsg(r), job'[t].unsent)
    <3>1. CASE t # s
      BY <1>3, <3>1, SameHas
    <3>2. CASE t = s
      <4>1. Has(s, RunMsg(r))' <=> Has(s, RunMsg(r))
        BY <1>4, <1>6, <1>7, <1>8
      <4>2. job'[s].phase = "sending" /\ Single(RunMsg(r), u) => Single(RunMsg(r), job'[s].unsent)
        BY <1>3, <1>4
      <4>3. QED
        BY <1>1, <1>3, <3>2, <4>1, <4>2
    <3>3. QED
      BY <3>1, <3>2
  <2>2. InQueue(RunMsg(r))' <=> InQueue(RunMsg(r))
    BY <1>2, <1>5, <1>8 DEF InQueue
  <2>3. Still(r)
    BY <1>2, <1>3, <1>5, <1>8, <2>1, <2>2 DEF Still
  <2>4. QED
    BY <2>3, StillDelivered DEF Delivered
<1>9. ASSUME NEW r \in DOMAIN runs, RunMsg(r) = m PROVE Placed(r)' /\ Once(r)'
  <2>1. RunMsg(r)' = m /\ m.task = "run"
    BY <1>9, MessageFacts DEF RunMsg, Msg
  <2>2. Has(s, m) /\ InQueue(m)'
    BY <1>4, <1>5, <1>7, <2>1 DEF InQueue
  <2>3. Placed(r)'
    BY <2>1, <2>2 DEF Placed
  <2>4. CASE m \in redelivered
    BY <1>3, <2>1, <2>3, <2>4 DEF Once
  <2>5. CASE m \notin redelivered
    <3>1. /\ Single(m, q) /\ Single(m, u) /\ m \notin Range(q) /\ runs[r].status \notin Terminal
          /\ \A t \in Senders : Has(t, m) => t = s
          /\ \A t \in Senders : job[t].phase = "sending" => Single(m, job[t].unsent)
      BY <1>1, <1>2, <1>3, <1>9, <2>2, <2>5 DEF Delivered, Once, InQueue
    <3>2. \A t \in Senders : ~Has(t, m)'
      <4>1. ~Has(s, m)'
        BY <1>4, <1>6, <3>1
      <4>2. \A t \in Senders : t # s => ~Has(t, m)'
        BY <1>3, <3>1, SameHas
      <4>3. QED
        BY <4>1, <4>2
    <3>3. \A t \in Senders : job'[t].phase = "sending" => Single(m, job'[t].unsent)
      <4>1. job'[s].phase = "sending" => Single(m, job'[s].unsent)
        BY <1>3, <1>4, <3>1
      <4>2. \A t \in Senders : t # s => job'[t] = job[t]
        BY <1>3
      <4>3. QED
        BY <3>1, <4>1, <4>2
    <3>4. Single(m, queues'["default"]) /\ runs'[r].status \notin Terminal
      BY <1>3, <1>5, <3>1
    <3>5. QED
      BY <2>1, <2>3, <3>2, <3>3, <3>4 DEF Once
  <2>6. QED
    BY <2>3, <2>4, <2>5
<1>10. QED
  BY <1>3, <1>8, <1>9 DEF Delivered

(* The worker that starts a run has its message until the run is over.       *)
LEMMA StartsDelivered ==
    ASSUME TypeOK, Delivered, NEW w \in Workers, NEW r, Starts(w, r)
    PROVE  Delivered'
<1>1. /\ job[w].phase = "start" /\ job[w].msg = RunMsg(r) /\ w \in Senders
      /\ job'[w].phase = "walk" /\ job'[w].msg = RunMsg(r)
      /\ \A t \in Senders : t # w => job'[t] = job[t]
      /\ UNCHANGED <<queues, redelivered, cut>> /\ DOMAIN runs' = DOMAIN runs
      /\ runs'[r].status = "RUNNING" /\ \A q \in DOMAIN runs : q # r => runs'[q].status = runs[q].status
  BY DEF Starts, Senders
<1>2. ASSUME NEW t \in Senders, NEW m
      PROVE  /\ Has(t, m)' <=> Has(t, m)
             /\ job'[t].phase = "sending" /\ (job[t].phase = "sending" => Single(m, job[t].unsent))
                    => Single(m, job'[t].unsent)
  <2>1. CASE t # w
    BY <1>1, <2>1, SameHas
  <2>2. CASE t = w
    BY <1>1, <2>2 DEF Has
  <2>3. QED
    BY <2>1, <2>2
<1>3. \A m : InQueue(m)' <=> InQueue(m)
  BY <1>1 DEF InQueue
<1>4. ASSUME NEW q \in DOMAIN runs, q # r PROVE Placed(q)' /\ Once(q)'
  <2>1. Still(q)
    BY <1>1, <1>2, <1>3, <1>4 DEF Still
  <2>2. QED
    BY <2>1, StillDelivered DEF Delivered
<1>5. ASSUME r \in DOMAIN runs PROVE Placed(r)' /\ Once(r)'
  <2>1. runs'[r].status \notin Terminal
    BY <1>1 DEF Terminal
  <2>2. Has(w, RunMsg(r))'
    BY <1>1 DEF Has
  <2>3. Fewer(r)
    BY <1>1, <1>2, <1>3, <2>1 DEF Fewer
  <2>4. Kept(r)
    BY <1>1, <1>2, <1>3, <2>2 DEF Kept
  <2>5. QED
    BY <1>5, <2>3, <2>4, OnceFewer, PlacedKept DEF Delivered
<1>6. QED
  BY <1>1, <1>4, <1>5 DEF Delivered

(* And then nobody has, if it was delivered once.                            *)
LEMMA FinishesDelivered ==
    ASSUME TypeOK, Delivered, NEW w \in Workers, NEW r, Finishes(w, r)
    PROVE  Delivered'
<1>1. /\ job[w].phase = "walk" /\ job[w].msg = RunMsg(r) /\ w \in Senders /\ r \in DOMAIN runs
      /\ job'[w].phase \notin {"sending", "start", "walk"} /\ runs'[r].status \in Terminal
      /\ \A t \in Senders : t # w => job'[t] = job[t]
      /\ UNCHANGED <<queues, redelivered, cut>> /\ DOMAIN runs' = DOMAIN runs
      /\ \A q \in DOMAIN runs : q # r => runs'[q].status = runs[q].status
  BY DEF Finishes, Rests, Senders
<1>2. \A m : InQueue(m)' <=> InQueue(m)
  BY <1>1 DEF InQueue
<1>3. Has(w, RunMsg(r)) /\ \A m : ~Has(w, m)'
  BY <1>1 DEF Has
<1>4. ASSUME NEW q \in DOMAIN runs, q # r PROVE Placed(q)' /\ Once(q)'
  <2>1. ASSUME NEW t \in Senders
        PROVE  /\ Has(t, RunMsg(q))' <=> Has(t, RunMsg(q))
               /\ job'[t].phase = "sending" /\ (job[t].phase = "sending" => Single(RunMsg(q), job[t].unsent))
                      => Single(RunMsg(q), job'[t].unsent)
    <3>1. CASE t # w
      BY <1>1, <3>1, SameHas
    <3>2. CASE t = w
      <4>1. RunMsg(q) # RunMsg(r)
        BY <1>4, MessageFacts
      <4>2. ~Has(w, RunMsg(q)) /\ ~Has(w, RunMsg(q))'
        BY <1>1, <1>3, <4>1 DEF Has
      <4>3. QED
        BY <1>1, <3>2, <4>2
    <3>3. QED
      BY <3>1, <3>2
  <2>2. Still(q)
    BY <1>1, <1>2, <1>4, <2>1 DEF Still
  <2>3. QED
    BY <2>2, StillDelivered DEF Delivered
<1>5. Placed(r)'
  BY <1>1 DEF Placed
<1>6. Once(r)'
  <2>1. RunMsg(r)' = RunMsg(r)
    BY DEF RunMsg, Msg
  <2>2. CASE RunMsg(r) \in redelivered
    BY <1>1, <2>1, <2>2 DEF Once
  <2>3. CASE RunMsg(r) \notin redelivered
    <3>1. /\ Single(RunMsg(r), queues["default"]) /\ ~InQueue(RunMsg(r))
          /\ \A t \in Senders : Has(t, RunMsg(r)) => t = w
          /\ \A t \in Senders : job[t].phase = "sending" => Single(RunMsg(r), job[t].unsent)
      BY <1>1, <1>3, <2>3 DEF Delivered, Once
    <3>2. \A t \in Senders : ~Has(t, RunMsg(r))'
      BY <1>1, <1>3, <3>1, SameHas
    <3>3. \A t \in Senders : job'[t].phase = "sending" => Single(RunMsg(r), job'[t].unsent)
      BY <1>1, <3>1
    <3>4. Single(RunMsg(r), queues'["default"]) /\ ~InQueue(RunMsg(r))'
      BY <1>1, <1>2, <3>1
    <3>5. QED
      BY <2>1, <3>2, <3>3, <3>4 DEF Once
  <2>4. QED
    BY <2>2, <2>3
<1>7. QED
  BY <1>1, <1>4, <1>5, <1>6 DEF Delivered

(* A failure cuts it off, or brings it back.                                 *)
LEMMA LeavesDelivered ==
    ASSUME TypeOK, Delivered, NEW s \in Senders, Leaves(s)
    PROVE  Delivered'
<1>1. /\ job'[s].phase \notin {"sending", "start", "walk"} /\ (\A t \in Senders : t # s => job'[t] = job[t])
      /\ redelivered \subseteq redelivered' /\ cut \subseteq cut' /\ UNCHANGED runs
      /\ \A m : InQueue(m) => InQueue(m)'
  BY DEF Leaves, Rests
<1>2. ASSUME NEW t \in Senders, NEW m
      PROVE  /\ Has(t, m)' => Has(t, m)
             /\ job'[t].phase = "sending" /\ (job[t].phase = "sending" => Single(m, job[t].unsent))
                    => Single(m, job'[t].unsent)
  <2>1. CASE t # s
    BY <1>1, <2>1, SameHas
  <2>2. CASE t = s
    BY <1>1, <2>2 DEF Has
  <2>3. QED
    BY <2>1, <2>2
<1>3. ASSUME NEW r \in DOMAIN runs PROVE Placed(r)' /\ Once(r)'
  <2>1. Fewer(r)
    <3>1. RunMsg(r) \notin redelivered' =>
              /\ RunMsg(r) \notin redelivered /\ (InQueue(RunMsg(r))' => InQueue(RunMsg(r)))
              /\ Single(RunMsg(r), queues["default"]) => Single(RunMsg(r), queues'["default"])
      BY <1>1 DEF Leaves
    <3>2. QED
      BY <1>1, <1>2, <3>1 DEF Fewer
  <2>2. Has(s, RunMsg(r)) => RunMsg(r) \in cut' \/ InQueue(RunMsg(r))'
    <3>1. ASSUME Has(s, RunMsg(r)) PROVE RunMsg(r) \in LeftBehind(job[s])
      <4>1. CASE job[s].phase = "sending" /\ RunMsg(r) \in Range(job[s].unsent)
        <5>1. LeftBehind(job[s]) = {[m EXCEPT !.tries = 0] : m \in Range(job[s].unsent)}
          BY <4>1 DEF LeftBehind
        <5>2. QED
          BY <4>1, <5>1, MessageFacts
      <4>2. CASE job[s].phase \in {"start", "walk"} /\ job[s].msg = RunMsg(r)
        BY <4>2 DEF LeftBehind
      <4>3. QED
        BY <3>1, <4>1, <4>2 DEF Has
    <3>2. QED
      BY <3>1, MessageFacts DEF Leaves
  <2>3. \A t \in Senders : t # s => (Has(t, RunMsg(r)) => Has(t, RunMsg(r))')
    BY <1>1, SameHas
  <2>4. Kept(r)
    BY <1>1, <2>2, <2>3 DEF Kept
  <2>5. QED
    BY <2>1, <2>4, OnceFewer, PlacedKept DEF Delivered
<1>4. QED
  BY <1>1, <1>3 DEF Delivered

(* So every run's message is where it should be.                             *)
LEMMA DeliveredNext ==
    ASSUME TypeOK, Delivered, Effect
    PROVE  Delivered'
BY PlainDelivered, IngestsDelivered, CreatesDelivered, TakesDelivered, SendsDelivered,
   StartsDelivered, FinishesDelivered, LeavesDelivered DEF Effect, ByHand, Senders

-----------------------------------------------------------------------------
(* The theorems                                                            *)

(* In the beginning there is nothing to lose.                                *)
LEMMA SoarInit == Init => SoarInv
<1> SUFFICES ASSUME Init PROVE SoarInv
  OBVIOUS
<1>1. /\ \A r \in Routes : queues[r] = <<>>
      /\ queues = [r \in Routes |-> <<>>] /\ job = [s \in Senders |-> Idle]
      /\ alerts = <<>> /\ runs = <<>> /\ DOMAIN alerts = {} /\ DOMAIN runs = {}
      /\ \A f \in Workflows : runCount[f] = 0 /\ executed[f] = 0
      /\ runCount \in [Workflows -> Nat] /\ executed \in [Workflows -> Nat]
      /\ posted = {} /\ overlapped = {} /\ manual = 0 /\ faults = 0
  BY NothingInEmpty DEF Init
<1>2. \A s \in Senders : job[s] = Idle /\ job[s].phase = "idle"
  BY <1>1, IdleOK
<1>3. QueuesOK
  <2>1. queues \in [Routes -> Seq(Message)]
    BY <1>1
  <2>2. \A r \in Routes : Range(queues[r]) = {}
    BY <1>1, NothingInEmpty
  <2>3. QED
    BY <2>1, <2>2 DEF QueuesOK
<1>4. JobsOK
  BY <1>1, <1>2, IdleOK DEF JobsOK
<1>5. RowsOK
  BY <1>1 DEF RowsOK
<1>6. CountsOK
  BY <1>1 DEF CountsOK
<1>7. Counted
  BY <1>1, <1>2 DEF Counted, Walks, Senders
<1>8. Delivered /\ AllMatched
  BY <1>1 DEF Delivered, AllMatched
<1>9. QED
  BY <1>3, <1>4, <1>5, <1>6, <1>7, <1>8, TypeParts DEF SoarInv

(* A step that changes nothing is plain.                                     *)
LEMMA StutterPlain ==
    ASSUME TypeOK, UNCHANGED vars
    PROVE  TypeOK' /\ PlainStep
<1>1. UNCHANGED <<queues, job, alerts, runs, runCount, posted, manual, faults, executed,
                  redelivered, cut, overlapped>>
  BY DEF vars, tables, history
<1>2. Grows
  BY <1>1, GrowsStill
<1>3. QueuesOK' /\ JobsOK'
  BY <1>1, <1>2, QueuesOKStill, JobsOKStill
<1>4. RowsOK'
  BY <1>1 DEF RowsOK, TypeOK
<1>5. CountsOK'
  BY <1>1 DEF CountsOK, TypeOK
<1>6. PlainStep
  BY <1>1, <1>2 DEF PlainStep
<1>7. QED
  BY <1>3, <1>4, <1>5, <1>6, TypePartsNext

(* Every step keeps the invariant.                                           *)
LEMMA SoarStep == SoarInv /\ [Next]_vars => SoarInv' /\ Effect
<1> SUFFICES ASSUME SoarInv, [Next]_vars PROVE SoarInv' /\ Effect
  OBVIOUS
<1>1. TypeOK' /\ Effect
  <2>1. CASE Next
    BY <2>1, NextDoes DEF SoarInv
  <2>2. CASE UNCHANGED vars
    BY <2>2, StutterPlain DEF SoarInv, Effect
  <2>3. QED
    BY <2>1, <2>2
<1>2. Delivered' /\ Counted' /\ AllMatched'
  BY <1>1, DeliveredNext, CountedNext, AllMatchedNext DEF SoarInv
<1>3. QED
  BY <1>1, <1>2 DEF SoarInv

(* The inductive invariant of the SOAR tasks: where every run's message is,  *)
(* what every walk has seen of run_count, which alerts await their match.    *)
THEOREM SoarInvariant == Spec => []SoarInv
<1>1. Init => SoarInv
  BY SoarInit
<1>2. SoarInv /\ [Next]_vars => SoarInv'
  BY SoarStep
<1>3. QED
  BY <1>1, <1>2, PTL DEF Spec

(* Every variable keeps its type, every message and job names a row that is  *)
(* committed, and the API never does a worker's work.                        *)
THEOREM SoarTypes == Spec => []TypeOK
<1>1. SoarInv => TypeOK
  BY DEF SoarInv
<1>2. QED
  BY <1>1, SoarInvariant, PTL

(* No committed run is forgotten, for any number of workers and failures:    *)
(* it is over, or its message is with a sender, the broker or a worker, or a *)
(* failure cut it off.                                                       *)
THEOREM NoneForgotten == Spec => []NoRunForgotten
<1>1. SoarInv => NoRunForgotten
  <2> SUFFICES ASSUME SoarInv, NEW r \in DOMAIN runs
               PROVE  \/ runs[r].status \in Terminal
                      \/ RunMsg(r) \in Queued \union Unsent \union Held \union cut
    BY DEF NoRunForgotten, RunMsg
  <2>1. Placed(r)
    BY DEF SoarInv, Delivered
  <2>2. InQueue(RunMsg(r)) => RunMsg(r) \in Queued
    BY DEF InQueue, Queued
  <2>3. ASSUME NEW s \in Senders, Has(s, RunMsg(r)) PROVE RunMsg(r) \in Unsent \union Held
    <3>1. CASE job[s].phase = "sending" /\ RunMsg(r) \in Range(job[s].unsent)
      BY <3>1 DEF Unsent
    <3>2. CASE job[s].phase \in {"start", "walk"} /\ job[s].msg = RunMsg(r)
      <4>1. s \in Workers
        BY <3>2, SenderFacts DEF SoarInv
      <4>2. QED
        BY <3>2, <4>1 DEF Held
    <3>3. QED
      BY <2>3, <3>1, <3>2 DEF Has
  <2>4. QED
    BY <2>1, <2>2, <2>3 DEF Placed
<1>2. QED
  BY <1>1, SoarInvariant, PTL

(* For any webhooks, thresholds, workers and failures: an alert has one run  *)
(* of each workflow it triggers and no other, or none at all while its match *)
(* is under way or after that was cut off; never two of one workflow.        *)
THEOREM TriggeredOnce == Spec => []AlertsTrigger
<1>1. SoarInv => AlertsTrigger
  <2> SUFFICES ASSUME SoarInv, NEW a \in DOMAIN alerts, alerts[a].from # NoWebhook
               PROVE  LET mine == {r \in DOMAIN runs : runs[r].by = a}
                      IN  /\ Cardinality({runs[r].wf : r \in mine}) = Cardinality(mine)
                          /\ \/ {runs[r].wf : r \in mine} = Matching(alerts[a].from)
                             \/ mine = {} /\ (Msg("match", a) \in cut
                                              \/ \E w \in Workers : job[w].phase = "match"
                                                                    /\ job[w].alert = a)
    BY DEF AlertsTrigger
  <2> DEFINE mine == {r \in DOMAIN runs : runs[r].by = a}
             wfs == {runs[r].wf : r \in mine}
             f == [r \in mine |-> runs[r].wf]
  <2>1. Matched(a) /\ TypeOK
    BY DEF SoarInv, AllMatched
  <2>2. \A r, q \in mine : runs[r].wf = runs[q].wf => r = q
    BY <2>1 DEF Matched
  <2>3. IsFiniteSet(mine)
    <3>1. DOMAIN runs = 1 .. Len(runs) /\ Len(runs) \in Nat
      BY <2>1, RowFacts
    <3>2. IsFiniteSet(DOMAIN runs)
      BY <3>1, FS_Interval
    <3>3. QED
      BY <3>2, FS_Subset
  <2>4. f \in Surjection(mine, wfs)
    BY DEF Surjection
  <2>5. f \in Injection(mine, wfs)
    BY <2>2 DEF Injection, IsInjective
  <2>6. Cardinality(wfs) = Cardinality(mine)
    BY <2>3, <2>4, <2>5, FS_Surjection
  <2>7. \A g : g \in wfs <=> \E r \in DOMAIN runs : runs[r].by = a /\ runs[r].wf = g
    OBVIOUS
  <2> HIDE DEF wfs
  <2>8. CASE \A g \in Workflows : g \in Matching(alerts[a].from) <=>
                 \E r \in DOMAIN runs : runs[r].by = a /\ runs[r].wf = g
    <3>1. wfs \subseteq Workflows /\ Matching(alerts[a].from) \subseteq Workflows
      BY <2>1, <2>7, RowFacts DEF Matching
    <3>2. wfs = Matching(alerts[a].from)
      BY <2>7, <2>8, <3>1
    <3>3. QED
      BY <2>6, <3>2 DEF wfs
  <2>9. CASE /\ \A r \in DOMAIN runs : runs[r].by # a
             /\ Msg("match", a) \in cut \/ \E w \in Workers : MatchesFor(w, a)
    BY <2>6, <2>9 DEF wfs, MatchesFor
  <2>10. QED
    BY <2>1, <2>8, <2>9 DEF Matched
<1>2. QED
  BY <1>1, SoarInvariant, PTL

(* run_count is exact for every workflow that was never walked twice at a    *)
(* time, whatever was redelivered or failed, and too high for none.          *)
THEOREM CountsExact == Spec => []RunCountExact
<1>1. SoarInv => RunCountExact
  BY DEF SoarInv, Counted, RunCountExact
<1>2. QED
  BY <1>1, SoarInvariant, PTL

(* A run that is over is written again only after its message was delivered  *)
(* again: nothing else brings a finished run back to RUNNING.                *)
THEOREM OverStaysOver == Spec => FinishedStays
<1>1. SoarInv /\ [Next]_vars =>
          \A r \in DOMAIN runs : runs[r].status \in Terminal /\ runs'[r].status # runs[r].status
                                     => RunMsg(r) \in redelivered
  <2> SUFFICES ASSUME SoarInv, [Next]_vars, NEW r \in DOMAIN runs, runs[r].status \in Terminal,
                      runs'[r].status # runs[r].status
               PROVE  RunMsg(r) \in redelivered
    OBVIOUS
  <2>1. Effect /\ Once(r)
    BY SoarStep DEF SoarInv, Delivered
  <2>2. ASSUME NEW s \in Senders, Has(s, RunMsg(r)) PROVE RunMsg(r) \in redelivered
    BY <2>1, <2>2 DEF Once
  <2>3. CASE \E w \in Workers : \E q : Starts(w, q) \/ Finishes(w, q)
    <3>1. PICK w, q : w \in Workers /\ (Starts(w, q) \/ Finishes(w, q))
      BY <2>3
    <3>2. Has(w, RunMsg(q)) /\ (q # r => runs'[r].status = runs[r].status)
      BY <3>1 DEF Starts, Finishes, Has
    <3>3. QED
      BY <2>2, <3>1, <3>2 DEF Senders
  <2>4. CASE \A w \in Workers : \A q : ~Starts(w, q) /\ ~Finishes(w, q)
    <3>1. PlainStep \/ (\E s \in Senders : Creates(s)) \/ UNCHANGED runs
      BY <2>1, <2>4 DEF Effect, ByHand, Senders, Ingests, Takes, Leaves, Sends
    <3>2. QED
      BY <3>1 DEF PlainStep, Creates
  <2>5. QED
    BY <2>3, <2>4
<1>2. SoarInv /\ [Next]_vars =>
          [\A r \in DOMAIN runs : runs[r].status \in Terminal /\ runs'[r].status # runs[r].status
                                      => Msg("run", r) \in redelivered]_vars
  BY <1>1 DEF RunMsg
<1>3. QED
  BY <1>2, SoarInvariant, PTL DEF Spec, FinishedStays
===============================================================================
