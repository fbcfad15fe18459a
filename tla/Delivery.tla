------------------------------- MODULE Delivery -------------------------------
(***************************************************************************)
(* The way of a log line from a collector to an alert row: the agent's     *)
(* Forwarder (agent/forward.go), the engine's HTTP and syslog listeners    *)
(* (engine/ingest.go) and its pipeline goroutine (engine/main.go).         *)
(*                                                                         *)
(* Events are numbered: the agent's lines in the order they are read, then *)
(* the messages devices send to the engine itself.  The Forwarder          *)
(* goroutine, one goroutine per HTTP request, the syslog listener and the  *)
(* pipeline goroutine interleave; they meet at two bounded channels.  The  *)
(* agent never blocks on its channel (it drops), the engine always does,   *)
(* so a slow alert insert is felt by the request handlers, then by the     *)
(* agent's HTTP client, which gives up waiting while the handler goes on.  *)
(***************************************************************************)
EXTENDS Integers, Sequences, FiniteSets, SequencesExt

CONSTANTS
    NumLines,       \* bound of the model: lines the agent's collectors read
    NumSyslog,      \* bound of the model: messages sent to the engine's syslog
    AlertsOf,       \* AlertsOf[e]: alerts the rules raise for event e
    InCap,          \* capacity of Forwarder.in (16384)
    MaxBatch,       \* events per post (500)
    MaxAttempts,    \* attempts of postJSON (4)
    PipeCap,        \* capacity of the pipeline channel (8192)
    MaxAlerts,      \* alerts per insert (500)
    MaxHandlers,    \* bound of the model: requests being handled at once
    MaxCrashes      \* bound of the model: engine crashes

Lines == 1 .. NumLines
SyslogEvents == NumLines + 1 .. NumLines + NumSyslog
Events == Lines \union SyslogEvents
Phases == {"select", "send", "wait", "stopped"}

ASSUME DeliveryAssumption ==
    /\ NumLines \in Nat /\ NumSyslog \in Nat /\ MaxCrashes \in Nat
    /\ AlertsOf \in [Events -> Nat]
    /\ InCap \in Nat \ {0} /\ PipeCap \in Nat \ {0}
    /\ MaxBatch \in Nat \ {0} /\ MaxAttempts \in Nat \ {0} /\ MaxAlerts \in Nat \ {0}
    /\ MaxHandlers \in Nat

VARIABLES
    read,        \* lines submitted so far
    in,          \* Forwarder.in
    batch,       \* the batch of Forwarder.Run
    phase,       \* where the Forwarder goroutine is
    attempt,     \* attempts made of the current post
    conn,        \* the request the client is waiting on, 0 if it never arrived
    answered,    \* the engine answered 202 to it
    handlers,    \* request -> events its handleIngest has still to push
    heard,       \* syslog messages received so far
    syslog,      \* the event the syslog listener is pushing, if any
    pipe,        \* the engine's pipeline channel
    pending,     \* alerts of the current event, not in alertBatch yet
    alertBatch,  \* the batch of runPipeline
    flushing,    \* runPipeline is inside InsertAlerts
    crashes,     \* counter that bounds the model
    entered,     \* history: how often each event entered the pipeline
    stored,      \* history: alert rows inserted for each event
    acked,       \* history: events of posts the engine answered 202
    lost,        \* history: events that left by a drop the code logs or dies of
    retried      \* history: an attempt of a post failed

agent  == <<in, batch, phase, attempt, conn, answered>>
ingest == <<handlers, heard, syslog, pipe>>
pipeline == <<pending, alertBatch, flushing>>
vars == <<read, agent, ingest, pipeline, crashes, entered, stored, acked, lost,
          retried>>

-----------------------------------------------------------------------------
Init ==
    /\ read = 0
    /\ in = <<>> /\ batch = <<>> /\ phase = "select"
    /\ attempt = 0 /\ conn = 0 /\ answered = FALSE
    /\ handlers = <<>> /\ heard = 0 /\ syslog = <<>> /\ pipe = <<>>
    /\ pending = <<>> /\ alertBatch = <<>> /\ flushing = FALSE
    /\ crashes = 0
    /\ entered = [e \in Events |-> 0] /\ stored = [e \in Events |-> 0]
    /\ acked = {} /\ lost = {} /\ retried = FALSE

(* -- the agent ------------------------------------------------------------ *)

(* A collector submits the next line; a full buffer drops it.                *)
Submit ==
    /\ read < NumLines /\ phase # "stopped"
    /\ read' = read + 1
    /\ IF Len(in) < InCap
       THEN in' = Append(in, read + 1) /\ UNCHANGED lost
       ELSE lost' = lost \union {read + 1} /\ UNCHANGED in
    /\ UNCHANGED <<batch, phase, attempt, conn, answered, ingest, pipeline,
                   crashes, entered, stored, acked, retried>>

(* Run takes an event; a full batch is flushed at once.                      *)
TakeEvent ==
    /\ phase = "select" /\ in # <<>>
    /\ batch' = Append(batch, Head(in))
    /\ in' = Tail(in)
    /\ phase' = IF Len(batch') >= MaxBatch THEN "send" ELSE "select"
    /\ attempt' = 0
    /\ UNCHANGED <<read, conn, answered, ingest, pipeline, crashes, entered,
                   stored, acked, lost, retried>>

(* The ticker fires; an empty batch is not posted.                           *)
TickFlush ==
    /\ phase = "select" /\ batch # <<>>
    /\ phase' = "send" /\ attempt' = 0
    /\ UNCHANGED <<read, in, batch, conn, answered, ingest, pipeline, crashes,
                   entered, stored, acked, lost, retried>>

(* One attempt of postJSON: the request reaches a handler of the engine, or   *)
(* does not (refused, reset, wrong key).                                     *)
Send ==
    /\ phase = "send"
    /\ phase' = "wait"
    /\ \/ \E r \in 1 .. MaxHandlers \ DOMAIN handlers :
            /\ conn' = r
            /\ handlers' = [q \in DOMAIN handlers \union {r} |->
                               IF q = r THEN batch ELSE handlers[q]]
       \/ UNCHANGED <<conn, handlers>>
    /\ UNCHANGED <<read, in, batch, attempt, answered, heard, syslog, pipe, pipeline,
                   crashes, entered, stored, acked, lost, retried>>

(* Mutant: flush keeps the batch it has posted.                              *)
PostSucceedsKeeping ==
    /\ phase = "wait" /\ answered
    /\ phase' = "select"
    /\ conn' = 0 /\ answered' = FALSE
    /\ acked' = acked \union Range(batch)
    /\ UNCHANGED <<read, in, batch, attempt, ingest, pipeline, crashes,
                   entered, stored, lost, retried>>

(* A status below 300 comes back: the post succeeded.                        *)
PostSucceeds ==
    /\ phase = "wait" /\ answered
    /\ phase' = "select" /\ batch' = <<>>
    /\ conn' = 0 /\ answered' = FALSE
    /\ acked' = acked \union Range(batch)
    /\ UNCHANGED <<read, in, attempt, ingest, pipeline, crashes,
                   entered, stored, lost, retried>>

(* Mutant: one attempt too many.                                             *)
AttemptFailsOnceMore ==
    /\ phase = "wait"
    /\ attempt' = attempt + 1
    /\ conn' = 0 /\ answered' = FALSE
    /\ IF attempt' <= MaxAttempts
       THEN phase' = "send" /\ UNCHANGED <<batch, lost>>
       ELSE /\ phase' = "select" /\ batch' = <<>>
            /\ lost' = lost \union Range(batch)
    /\ retried' = TRUE
    /\ UNCHANGED <<read, in, ingest, pipeline, crashes, entered, stored, acked>>

(* The attempt failed or the client's 20 seconds are over: back off and try  *)
(* again, or return the last error, after which flush clears the batch.      *)
AttemptFails ==
    /\ phase = "wait"
    /\ attempt' = attempt + 1
    /\ conn' = 0 /\ answered' = FALSE
    /\ IF attempt' < MaxAttempts
       THEN phase' = "send" /\ UNCHANGED <<batch, lost>>
       ELSE /\ phase' = "select" /\ batch' = <<>>
            /\ lost' = lost \union Range(batch)
    /\ retried' = TRUE
    /\ UNCHANGED <<read, in, ingest, pipeline, crashes, entered, stored, acked>>

(* SIGTERM: main returns without waiting for Run, whose last flush has a     *)
(* cancelled context.  What the agent holds is gone.                         *)
AgentStops ==
    /\ phase # "stopped"
    /\ phase' = "stopped" /\ in' = <<>> /\ batch' = <<>>
    /\ conn' = 0 /\ answered' = FALSE
    /\ lost' = lost \union Range(in) \union Range(batch)
    /\ UNCHANGED <<read, attempt, ingest, pipeline, crashes, entered, stored, acked,
                   retried>>

(* -- the engine's listeners ------------------------------------------------ *)

Enter(e) ==
    /\ Len(pipe) < PipeCap
    /\ pipe' = Append(pipe, e)
    /\ entered' = [entered EXCEPT ![e] = @ + 1]

(* Mutant: a full channel drops the event, as the agent's does.              *)
PushEventOrDrop(r) ==
    /\ handlers[r] # <<>>
    /\ \/ Enter(Head(handlers[r]))
       \/ Len(pipe) = PipeCap /\ UNCHANGED <<pipe, entered>>
    /\ handlers' = [handlers EXCEPT ![r] = Tail(@)]
    /\ UNCHANGED <<read, agent, heard, syslog, pipeline, crashes, stored,
                   acked, lost, retried>>

(* handleIngest pushes one event, blocking while the channel is full and not *)
(* looking at whether the client is still there.                             *)
PushEvent(r) ==
    /\ handlers[r] # <<>>
    /\ Enter(Head(handlers[r]))
    /\ handlers' = [handlers EXCEPT ![r] = Tail(@)]
    /\ UNCHANGED <<read, agent, heard, syslog, pipeline, crashes, stored,
                   acked, lost, retried>>

(* Mutant: the 202 is written before the events are pushed.                  *)
AnswerFirst(r) ==
    /\ conn = r /\ answered' = TRUE
    /\ UNCHANGED <<read, in, batch, phase, attempt, conn, handlers, heard, syslog,
                   pipe, pipeline, crashes, entered, stored, acked, lost, retried>>

(* Mutant: a handler whose client gave up never gets to its end.             *)
AnswerWaiting(r) ==
    /\ handlers[r] = <<>> /\ conn = r
    /\ answered' = TRUE
    /\ handlers' = [q \in DOMAIN handlers \ {r} |-> handlers[q]]
    /\ UNCHANGED <<read, in, batch, phase, attempt, conn, heard, syslog, pipe,
                   pipeline, crashes, entered, stored, acked, lost, retried>>

(* All pushed: answer 202, to a client that may have given up.               *)
Answer(r) ==
    /\ handlers[r] = <<>>
    /\ answered' = (answered \/ conn = r)
    /\ handlers' = [q \in DOMAIN handlers \ {r} |-> handlers[q]]
    /\ UNCHANGED <<read, in, batch, phase, attempt, conn, heard, syslog, pipe,
                   pipeline, crashes, entered, stored, acked, lost, retried>>

(* A device's syslog message is read by the engine's own listener, ...       *)
SyslogRead ==
    /\ heard < NumSyslog /\ syslog = <<>>
    /\ heard' = heard + 1 /\ syslog' = <<NumLines + heard'>>
    /\ UNCHANGED <<read, agent, handlers, pipe, pipeline, crashes, entered,
                   stored, acked, lost, retried>>

(* ... which blocks on the same channel before it reads the next.            *)
SyslogPush ==
    /\ syslog # <<>>
    /\ Enter(Head(syslog))
    /\ syslog' = <<>>
    /\ UNCHANGED <<read, agent, handlers, heard, pipeline, crashes, stored,
                   acked, lost, retried>>

(* -- the engine's pipeline ------------------------------------------------- *)

(* Decode, normalize and match one event; its alerts are added to the batch. *)
Evaluate ==
    /\ ~flushing /\ pending = <<>> /\ pipe # <<>>
    /\ pipe' = Tail(pipe)
    /\ pending' = [k \in 1 .. AlertsOf[Head(pipe)] |-> Head(pipe)]
    /\ UNCHANGED <<read, agent, handlers, heard, syslog, alertBatch, flushing,
                   crashes, entered, stored, acked, lost, retried>>

(* The append loop, up to the alert that fills the batch and flushes it.     *)
AddAlert ==
    /\ ~flushing /\ pending # <<>>
    /\ alertBatch' = Append(alertBatch, Head(pending))
    /\ pending' = Tail(pending)
    /\ flushing' = (Len(alertBatch') >= MaxAlerts)
    /\ UNCHANGED <<read, agent, ingest, crashes, entered, stored, acked, lost,
                   retried>>

PipeTick ==
    /\ ~flushing /\ pending = <<>> /\ alertBatch # <<>>
    /\ flushing' = TRUE
    /\ UNCHANGED <<read, agent, ingest, pending, alertBatch, crashes, entered,
                   stored, acked, lost, retried>>

CountIn(seq, e) == Cardinality({i \in DOMAIN seq : seq[i] = e})

(* InsertAlerts returns within its 15 seconds; the batch is cleared whether  *)
(* it succeeded or not, and an insert that timed out may have been executed. *)
InsertReturns ==
    /\ flushing
    /\ \/ /\ stored' = [e \in Events |-> stored[e] + CountIn(alertBatch, e)]
          /\ UNCHANGED lost
       \/ /\ lost' = lost \union Range(alertBatch)
          /\ \/ stored' = stored
             \/ stored' = [e \in Events |-> stored[e] + CountIn(alertBatch, e)]
    /\ alertBatch' = <<>> /\ flushing' = FALSE
    /\ UNCHANGED <<read, agent, ingest, pending, crashes, entered, acked, retried>>

HandlerEvents == UNION {Range(handlers[r]) : r \in DOMAIN handlers}

(* The engine process dies and is restarted: channels, handlers and the      *)
(* batch are memory.  Clients waiting on it see their attempt fail.          *)
EngineCrash ==
    /\ crashes < MaxCrashes
    /\ crashes' = crashes + 1
    /\ lost' = lost \union HandlerEvents \union Range(syslog) \union Range(pipe)
                    \union Range(pending) \union Range(alertBatch)
    /\ handlers' = <<>> /\ syslog' = <<>> /\ pipe' = <<>>
    /\ pending' = <<>> /\ alertBatch' = <<>> /\ flushing' = FALSE
    /\ answered' = FALSE /\ conn' = 0
    /\ UNCHANGED <<read, in, batch, phase, attempt, heard, entered, stored, acked,
                   retried>>

-----------------------------------------------------------------------------
AgentLoop == TakeEvent \/ TickFlush \/ Send \/ PostSucceeds \/ AttemptFails
PipelineLoop == Evaluate \/ AddAlert \/ PipeTick \/ InsertReturns
Handler(r) == PushEvent(r) \/ Answer(r)

Next ==
    \/ Submit \/ AgentLoop \/ AgentStops
    \/ \E r \in DOMAIN handlers : Handler(r)
    \/ SyslogRead \/ SyslogPush
    \/ PipelineLoop
    \/ EngineCrash

(* Goroutines are scheduled: the Forwarder's select, whose attempts have a   *)
(* deadline, the pipeline's, whose inserts have one, and every goroutine     *)
(* that can push, in turn (Go serves blocked senders first come first).      *)
Fairness ==
    /\ WF_vars(AgentLoop)
    /\ WF_vars(PipelineLoop)
    /\ SF_vars(SyslogPush)
    /\ \A r \in 1 .. MaxHandlers : SF_vars(r \in DOMAIN handlers /\ Handler(r))

Spec == Init /\ [][Next]_vars
FairSpec == Spec /\ Fairness

-----------------------------------------------------------------------------
(* Every variable has its type, the channels and batches keep their bounds.  *)
TypeOK ==
    /\ read \in 0 .. NumLines /\ crashes \in 0 .. MaxCrashes
    /\ in \in Seq(Events) /\ Len(in) <= InCap
    /\ batch \in Seq(Events) /\ Len(batch) <= MaxBatch
    /\ phase \in Phases /\ attempt \in 0 .. MaxAttempts
    /\ conn \in 0 .. MaxHandlers /\ answered \in BOOLEAN
    /\ heard \in 0 .. NumSyslog
    /\ DOMAIN handlers \subseteq 1 .. MaxHandlers
    /\ \A r \in DOMAIN handlers : handlers[r] \in Seq(Events)
    /\ syslog \in Seq(Events) /\ Len(syslog) <= 1
    /\ pipe \in Seq(Events) /\ Len(pipe) <= PipeCap
    /\ pending \in Seq(Events)
    /\ alertBatch \in Seq(Events) /\ Len(alertBatch) <= MaxAlerts
    /\ flushing \in BOOLEAN
    /\ entered \in [Events -> Nat] /\ stored \in [Events -> Nat]
    /\ acked \subseteq Events /\ lost \subseteq Events
    /\ retried \in BOOLEAN

Arrived == 1 .. read \union (NumLines + 1 .. NumLines + heard)
SendLimit == [e \in Events |-> IF e \in Lines THEN MaxAttempts ELSE 1]

(* Where an event can be while it is still on its way, before the pipeline.  *)
OnTheWay ==
    Range(in) \union Range(batch) \union HandlerEvents \union Range(syslog)

NoEventVanishes == \A e \in Arrived : e \in OnTheWay \/ entered[e] > 0 \/ e \in lost

(* Of the copies that went through the rules, every alert is on its way or    *)
(* inserted, once.                                                           *)
NoAlertVanishes ==
    \A e \in Events \ lost :
        CountIn(pending, e) + CountIn(alertBatch, e) + stored[e]
            = AlertsOf[e] * (entered[e] - CountIn(pipe, e))

(* No event vanishes, nor an alert: until it entered the pipeline, an event   *)
(* is in a buffer of the agent or with a goroutine of the engine, and then    *)
(* its alerts are on their way or inserted, unless it was lost at one of the  *)
(* places that drop (full buffer, last attempt failed, failed insert, a       *)
(* process ended).                                                           *)
NothingVanishes == NoEventVanishes /\ NoAlertVanishes

Promise == INSTANCE DeliveryPromise
               WITH arrived <- Arrived, copies <- entered, Limit <- SendLimit

(* A retry repeats what was already done, but only so often: the agent and    *)
(* the engine together implement DeliveryPromise, in which a line enters the  *)
(* pipeline at most once per attempt and a syslog message once.              *)
KeepsPromise == Promise!Spec

(* What the agent counts as delivered was: every event of a post that was     *)
(* answered 202 entered the pipeline, however late the answer came.          *)
AckedEntered == \A e \in acked : entered[e] > 0

(* As long as no attempt fails the agent's lines enter once each and in their *)
(* order, whatever crashes or stops: only a handler that outlives its client  *)
(* makes a duplicate, or lets a later line overtake an earlier one.          *)
InOrderUntilRetry ==
    [][\A e \in Lines :
         ~retried /\ entered'[e] > entered[e]
             => \A g \in e .. NumLines : entered[g] = 0]_vars

AgentDrains == []<>(in = <<>> /\ batch = <<>>)
HandlersFinish == []<>(handlers = <<>>)

(* Backpressure is released: whatever the engine does, every attempt of the   *)
(* agent ends and the Forwarder comes back to its channel until nothing is    *)
(* left in it, and a handler blocked on the full channel gets to push and to  *)
(* answer, since a failing insert returns by its deadline.                   *)
BackpressureReleased == AgentDrains /\ HandlersFinish

=============================================================================
