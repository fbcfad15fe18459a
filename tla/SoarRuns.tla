------------------------------- MODULE SoarRuns -------------------------------
(***************************************************************************)
(* From a webhook to an executed workflow: the SOAR endpoints of the API   *)
(* (backend/app/api/v1/router.py) and the Celery tasks they start          *)
(* (backend/app/workers/tasks.py), over the alerts, workflow_runs and      *)
(* workflows tables and the Redis broker.                                  *)
(*                                                                         *)
(* A task commits rows and sends messages in separate steps, and its own   *)
(* message is acknowledged in a further one, after it is over              *)
(* (task_acks_late).  So a worker that dies may have its message delivered *)
(* again, that of a task already done included; one whose child process is *)
(* killed does not.                                                        *)
(*                                                                         *)
(* Alerts and runs are known by the order of their inserts.  The workflow  *)
(* graph itself is the subject of WorkflowWalk.                            *)
(***************************************************************************)
EXTENDS Integers, Sequences, FiniteSets, SequencesExt

CONSTANTS
    Webhooks,       \* the alerts Wazuh posts to the webhook
    Level,          \* Level[h]: the rule level in the webhook
    Workflows,      \* the active workflows with an alert trigger
    Threshold,      \* Threshold[f]: the severity rank that triggers it
    Workers,        \* the Celery worker processes
    Api,            \* the API process, as a sender of messages
    MaxManual,      \* bound of the model: POST /run and POST /alerts requests
    MaxFaults,      \* bound of the model: crashes and failures
    MaxQueued       \* bound of the model: sweeps wait while so many are queued

AlertMinLevel == 12
MaxRetries == 2
High == 3
Critical == 4
NoWebhook == "api"     \* the alert came by POST /alerts
NoAlert == 0           \* the run was started by POST /run

Senders == Workers \union {Api}
Routes == {"alerts", "default"}
Tasks == {"webhook", "enrich", "sweep", "run"}
Statuses == {"PENDING", "RUNNING", "SUCCESS", "FAILED"}
Terminal == {"SUCCESS", "FAILED"}

ASSUME SoarRunsAssumption ==
    /\ Level \in [Webhooks -> Nat] /\ NoWebhook \notin Webhooks
    /\ Threshold \in [Workflows -> 0 .. Critical]
    /\ Api \notin Workers /\ IsFiniteSet(Workflows)
    /\ MaxManual \in Nat /\ MaxFaults \in Nat /\ MaxQueued \in Nat

VARIABLES
    queues,      \* the broker's list of every route
    job,         \* what each sender is doing
    alerts,      \* table alerts: where each row came from, NEW or not, enriched or not
    runs,        \* table workflow_runs
    runCount,    \* workflows.run_count
    posted,      \* webhooks posted so far
    manual, faults,   \* counters that bound the model
    executed,    \* history: how often each workflow was walked to the end
    redelivered, \* history: messages delivered again
    cut,         \* history: alerts and runs whose task or message was lost
    overlapped   \* history: workflows that two workers walked at once

tables == <<alerts, runs, runCount>>
history == <<executed, redelivered, cut, overlapped>>
vars == <<queues, job, tables, posted, manual, faults, history>>

-----------------------------------------------------------------------------
Msg(task, arg) == [task |-> task, arg |-> arg, tries |-> 0]
Route(msg) == IF msg.task = "run" THEN "default" ELSE "alerts"
Idle == [phase |-> "idle"]
Busy(s) == job[s].phase # "idle"
Sending(msg, unsent) == [phase |-> "sending", msg |-> msg, unsent |-> unsent]

(* The task is over, its message not yet acknowledged; a request just ends.  *)
Done(s) == IF s = Api THEN Idle ELSE [phase |-> "ack", msg |-> job[s].msg]

SendAll(s, msgs) ==
    IF msgs = {} THEN Done(s) ELSE Sending(job[s].msg, SetToSeq(msgs))

Put(msg) == queues' = [queues EXCEPT ![Route(msg)] = Append(@, msg)]
Queued == Range(queues["alerts"]) \union Range(queues["default"])

Severity(h) == IF Level[h] >= 15 THEN Critical ELSE High

Matching(h) == {f \in Workflows : Threshold[f] <= Severity(h)}

FirstPhase(task) ==
    CASE task = "webhook" -> "ingest" [] task = "enrich" -> "enrich"
      [] task = "sweep"   -> "sweep"  [] task = "run"    -> "start"

Init ==
    /\ queues = [r \in Routes |-> <<>>]
    /\ job = [s \in Senders |-> Idle]
    /\ alerts = <<>> /\ runs = <<>>
    /\ runCount = [f \in Workflows |-> 0]
    /\ posted = {} /\ manual = 0 /\ faults = 0
    /\ executed = [f \in Workflows |-> 0]
    /\ redelivered = {} /\ cut = {} /\ overlapped = {}

-----------------------------------------------------------------------------
(* -- the API ---------------------------------------------------------------*)

(* POST /soar/trigger/wazuh-alert only sends the message.                    *)
PostWebhook(h) ==
    /\ h \notin posted
    /\ posted' = posted \union {h}
    /\ Put(Msg("webhook", h))
    /\ UNCHANGED <<job, tables, manual, faults, history>>

(* POST /alerts commits the row, then sends for its enrichment.              *)
PostAlert ==
    /\ ~Busy(Api) /\ manual < MaxManual
    /\ manual' = manual + 1
    /\ alerts' = Append(alerts, [from |-> NoWebhook, isNew |-> TRUE, enriched |-> FALSE])
    /\ job' = [job EXCEPT ![Api] =
                 Sending(Msg("enrich", Len(alerts')), <<Msg("enrich", Len(alerts'))>>)]
    /\ UNCHANGED <<queues, runs, runCount, posted, faults, history>>

(* POST /soar/workflows/{id}/run commits a PENDING run, then sends for it.   *)
RunNow(f) ==
    /\ ~Busy(Api) /\ manual < MaxManual
    /\ manual' = manual + 1
    /\ runs' = Append(runs, [wf |-> f, by |-> NoAlert, status |-> "PENDING"])
    /\ job' = [job EXCEPT ![Api] =
                 Sending(Msg("run", Len(runs')), <<Msg("run", Len(runs'))>>)]
    /\ UNCHANGED <<queues, alerts, runCount, posted, faults, history>>

(* An analyst takes the alert out of NEW (PATCH /alerts/{id}).               *)
Triage(a) ==
    /\ alerts[a].isNew
    /\ alerts' = [alerts EXCEPT ![a].isNew = FALSE]
    /\ UNCHANGED <<queues, job, runs, runCount, posted, manual, faults, history>>

(* -- beat and the workers ------------------------------------------------- *)

Unenriched == {a \in DOMAIN alerts : alerts[a].isNew /\ ~alerts[a].enriched}

(* Beat sends for a sweep every two minutes; the model leaves out those that *)
(* would find nothing.                                                       *)
BeatSweep ==
    /\ Len(queues["alerts"]) < MaxQueued /\ Unenriched # {}
    /\ Put(Msg("sweep", 0))
    /\ UNCHANGED <<job, tables, posted, manual, faults, history>>

Take(w, r) ==
    /\ ~Busy(w) /\ queues[r] # <<>>
    /\ LET msg == Head(queues[r])
       IN  job' = [job EXCEPT ![w] = [phase |-> FirstPhase(msg.task), msg |-> msg]]
    /\ queues' = [queues EXCEPT ![r] = Tail(@)]
    /\ UNCHANGED <<tables, posted, manual, faults, history>>

(* process_wazuh_webhook: commit the alert, unless its level is too low.     *)
Ingest(w) ==
    /\ job[w].phase = "ingest"
    /\ LET h == job[w].msg.arg
       IN  IF Level[h] < AlertMinLevel
           THEN job' = [job EXCEPT ![w] = Done(w)] /\ UNCHANGED alerts
           ELSE /\ alerts' = Append(alerts, [from |-> h, isNew |-> TRUE, enriched |-> FALSE])
                /\ job' = [job EXCEPT ![w] = [phase |-> "match", msg |-> job[w].msg,
                                              alert |-> Len(alerts')]]
    /\ UNCHANGED <<queues, runs, runCount, posted, manual, faults, history>>

(* Mutant: the severity of the workflow is not looked at.                    *)
MatchAll(w) ==
    /\ job[w].phase = "match"
    /\ LET a == job[w].alert
           matched == SetToSeq(Workflows)
       IN  /\ runs' = runs \o [i \in DOMAIN matched |->
                                 [wf |-> matched[i], by |-> a, status |-> "PENDING"]]
           /\ job' = [job EXCEPT ![w] =
                        Sending(job[w].msg,
                                [i \in DOMAIN matched |-> Msg("run", Len(runs) + i)])]
    /\ UNCHANGED <<queues, alerts, runCount, posted, manual, faults, history>>

(* Commit a run for every matching workflow, in one transaction; the         *)
(* messages for them and for the enrichment are still to be sent.            *)
MatchWorkflows(w) ==
    /\ job[w].phase = "match"
    /\ LET a == job[w].alert
           matched == SetToSeq(Matching(job[w].msg.arg))
           new == [i \in DOMAIN matched |->
                     [wf |-> matched[i], by |-> a, status |-> "PENDING"]]
           sends == [i \in DOMAIN matched |-> Msg("run", Len(runs) + i)]
       IN  /\ runs' = runs \o new
           /\ job' = [job EXCEPT ![w] =
                        Sending(job[w].msg, Append(sends, Msg("enrich", a)))]
    /\ UNCHANGED <<queues, alerts, runCount, posted, manual, faults, history>>

(* Mutant: only the last of the messages is sent.                            *)
SendOnlyLast(s) ==
    /\ job[s].phase = "sending"
    /\ Put(Last(job[s].unsent))
    /\ job' = [job EXCEPT ![s] = Done(s)]
    /\ UNCHANGED <<tables, posted, manual, faults, history>>

(* Mutant: a message whose sending is slow is sent again.                    *)
SendTwice(s) ==
    /\ job[s].phase = "sending"
    /\ Put(Head(job[s].unsent))
    /\ \/ UNCHANGED job
       \/ job' = [job EXCEPT ![s] = IF Len(@.unsent) = 1 THEN Done(s)
                                    ELSE [@ EXCEPT !.unsent = Tail(@)]]
    /\ Len(queues["default"]) < 2
    /\ UNCHANGED <<tables, posted, manual, faults, history>>

(* One .delay or send_task; after the last the task or request is over.      *)
SendNext(s) ==
    /\ job[s].phase = "sending"
    /\ Put(Head(job[s].unsent))
    /\ LET left == Tail(job[s].unsent)
       IN  job' = [job EXCEPT ![s] = IF left = <<>> THEN Done(s) ELSE Sending(@.msg, left)]
    /\ UNCHANGED <<tables, posted, manual, faults, history>>

(* Mutant: the sweep's filter matches no row.                                *)
SweepNothing(w) ==
    /\ job[w].phase = "sweep"
    /\ job' = [job EXCEPT ![w] = Done(w)]
    /\ UNCHANGED <<queues, tables, posted, manual, faults, history>>

(* enrich_pending_alerts reads what is NEW and not enriched.  Its limit of   *)
(* 20 is above what the model can hold.                                      *)
Sweep(w) ==
    /\ job[w].phase = "sweep"
    /\ job' = [job EXCEPT ![w] = SendAll(w, {Msg("enrich", a) : a \in Unenriched})]
    /\ UNCHANGED <<queues, tables, posted, manual, faults, history>>

(* enrich_alert: a failed lookup is itself the result; the row is written.   *)
Enrich(w) ==
    /\ job[w].phase = "enrich"
    /\ alerts' = [alerts EXCEPT ![job[w].msg.arg].enriched = TRUE]
    /\ job' = [job EXCEPT ![w] = Done(w)]
    /\ UNCHANGED <<queues, runs, runCount, posted, manual, faults, history>>

(* Mutant: only a PENDING run is started.                                    *)
StartPending(w) ==
    /\ job[w].phase = "start"
    /\ LET r == job[w].msg.arg
           f == runs[r].wf
       IN  IF runs[r].status = "PENDING"
           THEN /\ runs' = [runs EXCEPT ![r].status = "RUNNING"]
                /\ job' = [job EXCEPT ![w] = [phase |-> "walk", msg |-> job[w].msg,
                                              seen |-> runCount[f]]]
           ELSE job' = [job EXCEPT ![w] = Done(w)] /\ UNCHANGED runs
    /\ UNCHANGED <<queues, alerts, runCount, posted, manual, faults, history>>

(* run_workflow reads the workflow, its run_count included, and the run,     *)
(* whatever its status, and commits it as RUNNING.                           *)
Start(w) ==
    /\ job[w].phase = "start"
    /\ LET r == job[w].msg.arg
           f == runs[r].wf
           walking == {v \in Workers : job[v].phase = "walk" /\ runs[job[v].msg.arg].wf = f}
       IN  /\ runs' = [runs EXCEPT ![r].status = "RUNNING"]
           /\ job' = [job EXCEPT ![w] = [phase |-> "walk", msg |-> job[w].msg,
                                         seen |-> runCount[f]]]
           /\ overlapped' = IF walking = {} THEN overlapped ELSE overlapped \union {f}
    /\ UNCHANGED <<queues, alerts, runCount, posted, manual, faults, executed,
                   redelivered, cut>>

(* Mutant: only a run that succeeds is counted.                              *)
FinishCountsSuccess(w) ==
    /\ job[w].phase = "walk"
    /\ LET r == job[w].msg.arg
           f == runs[r].wf
       IN  /\ \E status \in Terminal :
                /\ runs' = [runs EXCEPT ![r].status = status]
                /\ runCount' = IF status = "SUCCESS"
                               THEN [runCount EXCEPT ![f] = job[w].seen + 1] ELSE runCount
           /\ executed' = [executed EXCEPT ![f] = @ + 1]
    /\ job' = [job EXCEPT ![w] = Done(w)]
    /\ UNCHANGED <<queues, alerts, posted, manual, faults, redelivered, cut, overlapped>>

(* The walk is over, well or badly: its status and a run_count one above the *)
(* one that was read at the start are committed together.                    *)
Finish(w) ==
    /\ job[w].phase = "walk"
    /\ LET r == job[w].msg.arg
           f == runs[r].wf
       IN  /\ \E status \in Terminal : runs' = [runs EXCEPT ![r].status = status]
           /\ runCount' = [runCount EXCEPT ![f] = job[w].seen + 1]
           /\ executed' = [executed EXCEPT ![f] = @ + 1]
    /\ job' = [job EXCEPT ![w] = Done(w)]
    /\ UNCHANGED <<queues, alerts, posted, manual, faults, redelivered, cut, overlapped>>

(* The worker acknowledges the message of the task that is over.             *)
Acknowledge(w) ==
    /\ job[w].phase = "ack"
    /\ job' = [job EXCEPT ![w] = Idle]
    /\ UNCHANGED <<queues, tables, posted, manual, faults, history>>

(* -- what goes wrong ------------------------------------------------------- *)

(* The runs and alerts that a job which ends now leaves behind.              *)
LeftBehind(j) ==
    CASE j.phase = "sending"          -> {[m EXCEPT !.tries = 0] : m \in Range(j.unsent)}
      [] j.phase = "match"            -> {Msg("match", j.alert)}
      [] j.phase \in {"start", "walk"} -> {j.msg}
      [] OTHER                        -> {}

Fault(s, next) ==
    /\ Busy(s) /\ faults < MaxFaults
    /\ faults' = faults + 1
    /\ job' = [job EXCEPT ![s] = next]

(* The task or request raises, at the database or at the broker, and so is   *)
(* over.  Only enrich_alert is sent again, and that twice at most.           *)
Raises(s) ==
    /\ Fault(s, Done(s)) /\ job[s].phase # "ack"
    /\ LET j == job[s]
           again == j.phase = "enrich" /\ j.msg.tries < MaxRetries
       IN  IF again THEN Put([j.msg EXCEPT !.tries = @ + 1]) ELSE UNCHANGED queues
    /\ cut' = cut \union LeftBehind(job[s])
    /\ UNCHANGED <<tables, posted, manual, executed, redelivered, overlapped>>

(* The worker's child process is killed and its message acknowledged; or the *)
(* API process dies in the middle of a request.                              *)
Killed(s) ==
    /\ Fault(s, Idle)
    /\ cut' = cut \union LeftBehind(job[s])
    /\ UNCHANGED <<queues, tables, posted, manual, executed, redelivered, overlapped>>

(* The worker dies as a whole, in the middle of its task or between the end  *)
(* of it and the acknowledgement; the broker delivers its message again,     *)
(* before or after what is waiting.                                          *)
Redelivered(w) ==
    /\ Fault(w, Idle)
    /\ LET msg == job[w].msg
       IN  /\ \E q \in {Append(queues[Route(msg)], msg), <<msg>> \o queues[Route(msg)]} :
                queues' = [queues EXCEPT ![Route(msg)] = q]
           /\ redelivered' = redelivered \union {msg}
           /\ cut' = cut \union (LeftBehind(job[w]) \ {msg})
    /\ UNCHANGED <<tables, posted, manual, executed, overlapped>>

-----------------------------------------------------------------------------
Step(w) ==
    \/ \E r \in Routes : Take(w, r)
    \/ Ingest(w) \/ MatchWorkflows(w) \/ SendNext(w) \/ Sweep(w) \/ Enrich(w)
    \/ Start(w) \/ Finish(w) \/ Acknowledge(w)

Next ==
    \/ \E h \in Webhooks : PostWebhook(h)
    \/ PostAlert
    \/ \E f \in Workflows : RunNow(f)
    \/ \E a \in DOMAIN alerts : Triage(a)
    \/ SendNext(Api)
    \/ BeatSweep
    \/ \E w \in Workers : Step(w) \/ Redelivered(w)
    \/ \E s \in Senders : Raises(s) \/ Killed(s)

(* Processes run, beat ticks, and a worker consumes all of its routes in     *)
(* turn, so that none of them waits for ever.                                *)
Fairness ==
    /\ WF_vars(BeatSweep) /\ WF_vars(SendNext(Api))
    /\ \A w \in Workers : WF_vars(Step(w))
    /\ \A r \in Routes : SF_vars(\E w \in Workers : Take(w, r))

Spec == Init /\ [][Next]_vars
FairSpec == Spec /\ Fairness

-----------------------------------------------------------------------------
AlertRow == [from : Webhooks \union {NoWebhook}, isNew : BOOLEAN, enriched : BOOLEAN]
RunRow == [wf : Workflows, by : Nat, status : Statuses]

Message == [task : Tasks, arg : Nat \union Webhooks, tries : 0 .. MaxRetries]

Job == {Idle}
    \union [phase : {"ingest", "enrich", "sweep", "start", "ack"}, msg : Message]
    \union [phase : {"match"}, msg : Message, alert : Nat]
    \union [phase : {"sending"}, msg : Message, unsent : Seq(Message)]
    \union [phase : {"walk"}, msg : Message, seen : Nat]

(* A message names a row that is committed; only enrich_alert is retried.    *)
MsgOK(m) ==
    /\ m \in Message
    /\ m.task = "webhook" => m.arg \in Webhooks
    /\ m.task = "enrich" => m.arg \in DOMAIN alerts
    /\ m.task = "run" => m.arg \in DOMAIN runs
    /\ m.task # "enrich" => m.tries = 0

(* A job is at its own message, and the API only ever sends.                 *)
JobOK(s, j) ==
    /\ j.phase # "idle" => MsgOK(j.msg)
    /\ j.phase \in {"ingest", "enrich", "sweep", "start"} => j.phase = FirstPhase(j.msg.task)
    /\ j.phase = "match" => j.msg.task = "webhook" /\ j.alert \in DOMAIN alerts
    /\ j.phase = "walk" => j.msg.task = "run"
    /\ j.phase = "sending" => j.unsent # <<>> /\ \A m \in Range(j.unsent) : MsgOK(m)
    /\ IF s = Api THEN j.phase \in {"idle", "sending"}
                  ELSE j.phase = "sending" => j.msg.task \in {"webhook", "sweep"}

(* Every variable has its type; messages are of their route, jobs of their   *)
(* message.                                                                  *)
TypeOK ==
    /\ queues \in [Routes -> Seq(Message)]
    /\ \A r \in Routes : \A m \in Range(queues[r]) : MsgOK(m) /\ Route(m) = r
    /\ job \in [Senders -> Job] /\ \A s \in Senders : JobOK(s, job[s])
    /\ alerts \in Seq(AlertRow) /\ runs \in Seq(RunRow)
    /\ \A r \in DOMAIN runs : runs[r].by = NoAlert \/ runs[r].by \in DOMAIN alerts
    /\ runCount \in [Workflows -> Nat] /\ executed \in [Workflows -> Nat]
    /\ posted \subseteq Webhooks /\ overlapped \subseteq Workflows
    /\ manual \in Nat /\ faults \in Nat

Unsent == UNION {Range(job[s].unsent) : s \in {t \in Senders : job[t].phase = "sending"}}
Held == {job[w].msg : w \in {v \in Workers : job[v].phase \in {"start", "walk"}}}

(* No committed run is forgotten between its commit and its end: unless a    *)
(* failure cut it off, a run that is PENDING or RUNNING has its message with *)
(* a sender, with the broker or with a worker.                               *)
NoRunForgotten ==
    \A r \in DOMAIN runs :
        \/ runs[r].status \in Terminal
        \/ Msg("run", r) \in Queued \union Unsent \union Held \union cut

(* "Auto-trigger any active alert-type workflow whose severity threshold     *)
(* this alert clears" (tasks.py:330): an alert from the webhook gets one run *)
(* of each matching workflow and none of another, unless a failure came in   *)
(* between; and an alert is never given two runs of one workflow.            *)
AlertsTrigger ==
    \A a \in {b \in DOMAIN alerts : alerts[b].from # NoWebhook} :
        LET mine == {r \in DOMAIN runs : runs[r].by = a}
        IN  /\ Cardinality({runs[r].wf : r \in mine}) = Cardinality(mine)
            /\ \/ {runs[r].wf : r \in mine} = Matching(alerts[a].from)
               \/ mine = {} /\ (Msg("match", a) \in cut
                                \/ \E w \in Workers : job[w].phase = "match"
                                                      /\ job[w].alert = a)

(* run_count is right for a workflow that was never walked twice at a time,  *)
(* whatever was redelivered or failed, and is never too high for any.        *)
RunCountExact ==
    \A f \in Workflows :
        /\ runCount[f] <= executed[f]
        /\ f \notin overlapped => runCount[f] = executed[f]

(* A finished run stays as it is, its result included, as long as its        *)
(* message was delivered once.  A worker that dies before it acknowledges    *)
(* has the run executed again, which nothing in run_workflow prevents        *)
(* (tasks.py:264).                                                           *)
FinishedStays ==
    [][\A r \in DOMAIN runs :
         runs[r].status \in Terminal /\ runs'[r].status # runs[r].status
             => Msg("run", r) \in redelivered]_vars

(* The sweep is the net under every lost message: again and again there is   *)
(* no alert left that is NEW and not enriched.  Alerts do not lose their     *)
(* enrichment, and the model has finitely many: each of them is enriched in  *)
(* the end, or an analyst has taken it out of NEW.                           *)
AlertsSettle == []<>(Unenriched = {})

Over(r) == runs[r].status \in Terminal \/ Msg("run", r) \in cut

(* Every run that no failure cut off comes to its end, also one that is      *)
(* executed again.                                                           *)
RunsSettle == []<>(\A r \in DOMAIN runs : Over(r))

=============================================================================
