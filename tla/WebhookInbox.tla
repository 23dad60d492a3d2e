------------------------------- MODULE WebhookInbox -------------------------------
(***************************************************************************)
(* One row of the payment webhook inbox: how the notifications a provider  *)
(* sends under one event id become reconciliation runs.                    *)
(*                                                                         *)
(* Many providers reuse one event id for every status of a payment, so the *)
(* row is refreshed when a notification with another payload arrives.  The *)
(* queued job carries only the row's id: a worker reconciles whatever the  *)
(* row says when it takes the job.  Ingress handlers, workers, the retry   *)
(* cron and an operator's replay all write the row unconditionally.        *)
(*                                                                         *)
(* Payloads are numbered in the order the provider's payment went through  *)
(* them; the last one is the capture.  What a run does to the payment is   *)
(* in PaymentReconciliation; here it applies the payload or fails.         *)
(***************************************************************************)
EXTENDS Naturals, FiniteSets

CONSTANTS
    Ingress,        \* concurrent webhook requests
    Workers,        \* concurrent reconciliation workers
    LastPayload,    \* the number of the capture's payload
    Scenarios       \* the situations considered, see ScenarioAssumption

Bounds == {"deliveries", "failedRuns", "badAdds", "lostRequests", "lostWorkers", "replays"}

\* A scenario says whether the provider may deliver out of order and whether the
\* queue runs one job at a time (its concurrency is configured), and bounds the
\* webhook requests, the reconciliation runs that fail, the queue additions that
\* fail or time out, the requests and workers that die and the replays.
ASSUME InboxProcsAssumption == Ingress \cap Workers = {}
ASSUME PayloadAssumption == LastPayload \in Nat \ {0}
ASSUME ScenarioAssumption ==
    Scenarios \subseteq [reordered: BOOLEAN, alone: BOOLEAN, bound: [Bounds -> Nat]]

VARIABLES
    scenario,    \* the member of Scenarios this behaviour belongs to
    row,         \* the inbox row, see Rows; NoRow before the first delivery
    jobs,        \* waiting jobs added by ingress (their ids are fresh)
    retries,     \* retry jobs by number: "waiting", or "taken" and retained
    replay,      \* the one replay job of this row
    answered,    \* payloads the provider got a 200 for
    applied,     \* payloads a run has reconciled to the end
    latest,      \* the last payload the provider has sent
    pc,          \* the next step of each request and worker
    msg,         \* the payload a request carries, or a worker has read
    task,        \* the kind of job a worker holds
    spent        \* how much of each bound is used up

inboxVars == <<scenario, row, jobs, retries, replay, answered, applied, latest, pc, msg, task, spent>>

Payloads == 1 .. LastPayload
Procs == Ingress \cup Workers
NoTask == "none"
Lifecycle == {"RECEIVED", "ENQUEUED", "PROCESSING", "PROCESSED", "FAILED"}

\* payload stands for payloadHash, eventStatus and rawPayload; runs is
\* reconciliationAttempts.
Rows == [payload: Payloads, status: Lifecycle, runs: Nat]
NoRow == [payload |-> 0]

InboxTypeOK ==
    /\ scenario \in Scenarios
    /\ row \in Rows \cup {NoRow}
    /\ jobs \in Nat
    /\ DOMAIN retries \subseteq Nat
    /\ \A n \in DOMAIN retries : retries[n] \in {"waiting", "taken"}
    /\ replay \in {"none", "waiting", "active", "retained"}
    /\ answered \in SUBSET Payloads
    /\ applied \in SUBSET Payloads
    /\ latest \in 0 .. LastPayload
    /\ pc \in [Procs -> {"idle", "find", "create", "refresh", "duplicate", "mark", "add",
                         "addFailed", "count", "run", "ack", "fail"}]
    /\ msg \in [Procs -> 0 .. LastPayload]
    /\ task \in [Workers -> {NoTask, "plain", "retry", "replay"}]
    /\ spent \in [Bounds -> Nat]

InboxInit ==
    /\ scenario \in Scenarios
    /\ row = NoRow
    /\ jobs = 0
    /\ retries = <<>>
    /\ replay = "none"
    /\ answered = {} /\ applied = {}
    /\ latest = 0
    /\ pc = [p \in Procs |-> "idle"]
    /\ msg = [p \in Procs |-> 0]
    /\ task = [w \in Workers |-> NoTask]
    /\ spent = [b \in Bounds |-> 0]

queueVars == <<jobs, retries, replay>>
providerVars == <<answered, latest>>

Goto(p, step) == pc' = [pc EXCEPT ![p] = step]

Spend(b) == spent[b] < scenario.bound[b] /\ spent' = [spent EXCEPT ![b] = @ + 1]

Received == row # NoRow

\* The request ends; what it carried is forgotten.
Return(i) ==
    /\ Goto(i, "idle")
    /\ msg' = [msg EXCEPT ![i] = 0]

------------------------------------------------------------------------------
\* Ingress

\* In order: the next status is sent once all earlier ones were answered and no
\* request carrying one is still open; the current one may be repeated.
InOrder(m) ==
    /\ m >= latest
    /\ \A k \in Payloads : k < m => k \in answered /\ \A i \in Ingress : msg[i] # k

\* The provider delivers a payload; reordered, an old one may come late.
Notify(i, m) ==
    /\ pc[i] = "idle"
    /\ scenario.reordered \/ InOrder(m)
    /\ m <= latest + 1
    /\ Spend("deliveries")
    /\ latest' = IF m > latest THEN m ELSE latest
    /\ msg' = [msg EXCEPT ![i] = m]
    /\ Goto(i, "find")
    /\ UNCHANGED <<scenario, row, queueVars, answered, applied, task>>

\* Mutant: every notification under a known event id is a duplicate.
MutantCollision(i) == "duplicate"

\* A row holds this event id already: is the payload the same?
Collision(i) == IF row.payload = msg[i] THEN "duplicate" ELSE "refresh"

Find(i) ==
    /\ pc[i] = "find"
    /\ Goto(i, IF Received THEN Collision(i) ELSE "create")
    /\ UNCHANGED <<scenario, row, queueVars, providerVars, applied, msg, task, spent>>

FreshRow(m) == [payload |-> m, status |-> "RECEIVED", runs |-> 0]

\* Insert the row; if the insert hits the unique key, compare with the winner's
\* payload.
Create(i) ==
    /\ pc[i] = "create"
    /\ IF Received
       THEN Goto(i, Collision(i)) /\ UNCHANGED row
       ELSE row' = FreshRow(msg[i]) /\ Goto(i, "mark")
    /\ UNCHANGED <<scenario, queueVars, providerVars, applied, msg, task, spent>>

\* Another payload: refresh the row.  The run counter is not reset.
Refresh(i) ==
    /\ pc[i] = "refresh"
    /\ row' = [row EXCEPT !.payload = msg[i], !.status = "RECEIVED"]
    /\ Goto(i, "mark")
    /\ UNCHANGED <<scenario, queueVars, providerVars, applied, msg, task, spent>>

\* The same payload: answer 200 and enqueue nothing.
Duplicate(i) ==
    /\ pc[i] = "duplicate"
    /\ answered' = answered \cup {msg[i]}
    /\ Return(i)
    /\ UNCHANGED <<scenario, row, queueVars, latest, applied, task, spent>>

MarkEnqueued(i) ==
    /\ pc[i] = "mark"
    /\ row' = [row EXCEPT !.status = "ENQUEUED"]
    /\ Goto(i, "add")
    /\ UNCHANGED <<scenario, queueVars, providerVars, applied, msg, task, spent>>

Add(i) ==
    /\ pc[i] = "add"
    /\ jobs' = jobs + 1
    /\ answered' = answered \cup {msg[i]}
    /\ Return(i)
    /\ UNCHANGED <<scenario, row, retries, replay, latest, applied, task, spent>>

\* The queue errors, or does not answer in five seconds; a timed-out addition
\* may still go through.
AddFails(i) ==
    /\ pc[i] = "add"
    /\ Spend("badAdds")
    /\ jobs' \in {jobs, jobs + 1}
    /\ Goto(i, "addFailed")
    /\ UNCHANGED <<scenario, row, retries, replay, providerVars, applied, msg, task>>

\* Mark the row FAILED and answer an error: the provider will deliver again.
MarkAddFailed(i) ==
    /\ pc[i] = "addFailed"
    /\ row' = [row EXCEPT !.status = "FAILED"]
    /\ Return(i)
    /\ UNCHANGED <<scenario, queueVars, providerVars, applied, task, spent>>

IngressStep(i) ==
    \/ Find(i) \/ Create(i) \/ Refresh(i) \/ Duplicate(i)
    \/ MarkEnqueued(i) \/ Add(i) \/ AddFails(i) \/ MarkAddFailed(i)

------------------------------------------------------------------------------
\* The reconciliation worker

\* Take one of the waiting jobs and read the row.
TakeJob(w) ==
    /\ pc[w] = "idle"
    /\ scenario.alone => \A v \in Workers : pc[v] = "idle"
    /\ \/ /\ jobs > 0
          /\ jobs' = jobs - 1
          /\ task' = [task EXCEPT ![w] = "plain"]
          /\ UNCHANGED <<retries, replay>>
       \/ \E n \in DOMAIN retries :
            /\ retries[n] = "waiting"
            /\ retries' = [retries EXCEPT ![n] = "taken"]
            /\ task' = [task EXCEPT ![w] = "retry"]
            /\ UNCHANGED <<jobs, replay>>
       \/ /\ replay = "waiting"
          /\ replay' = "active"
          /\ task' = [task EXCEPT ![w] = "replay"]
          /\ UNCHANGED <<jobs, retries>>
    /\ msg' = [msg EXCEPT ![w] = row.payload]
    /\ Goto(w, "count")
    /\ UNCHANGED <<scenario, row, providerVars, applied, spent>>

\* Count the run and mark the row PROCESSING.
Count(w) ==
    /\ pc[w] = "count"
    /\ row' = [row EXCEPT !.status = "PROCESSING", !.runs = @ + 1]
    /\ Goto(w, "run")
    /\ UNCHANGED <<scenario, queueVars, providerVars, applied, msg, task, spent>>

\* The run succeeds: it has reconciled the payload it read at its start.
Run(w) ==
    /\ pc[w] = "run"
    /\ applied' = applied \cup {msg[w]}
    /\ Goto(w, "ack")
    /\ UNCHANGED <<scenario, row, queueVars, providerVars, msg, task, spent>>

RunFails(w) ==
    /\ pc[w] = "run"
    /\ Spend("failedRuns")
    /\ Goto(w, "fail")
    /\ UNCHANGED <<scenario, row, queueVars, providerVars, applied, msg, task>>

\* The job ends; a finished replay job is retained under its id.
EndJob(w) ==
    /\ replay' = IF task[w] = "replay" THEN "retained" ELSE replay
    /\ task' = [task EXCEPT ![w] = NoTask]
    /\ Return(w)

MarkProcessed(w) ==
    /\ pc[w] = "ack"
    /\ row' = [row EXCEPT !.status = "PROCESSED"]
    /\ EndJob(w)
    /\ UNCHANGED <<scenario, jobs, retries, providerVars, applied, spent>>

MarkFailed(w) ==
    /\ pc[w] = "fail"
    /\ row' = [row EXCEPT !.status = "FAILED"]
    /\ EndJob(w)
    /\ UNCHANGED <<scenario, jobs, retries, providerVars, applied, spent>>

WorkerStep(w) == Count(w) \/ Run(w) \/ RunFails(w) \/ MarkProcessed(w) \/ MarkFailed(w)

------------------------------------------------------------------------------
\* The retry cron, replays, crashes

\* Mutant: one automatic retry fewer.
MutantMaxAutoRetries == 2

MaxAutoRetries == 3

\* Mutant: the run counter does not limit the retries.
MutantRetryable == row.status = "FAILED"

Retryable == row.status = "FAILED" /\ row.runs < MaxAutoRetries

\* Re-enqueue a FAILED row.  The job id is the row and the number of the next
\* run: adding a retained id again does nothing.  (The window of two hours
\* since the last transition is taken not to have passed.)
AutoRetry ==
    /\ Received
    /\ Retryable
    /\ row.runs + 1 \notin DOMAIN retries
    /\ retries' = [n \in DOMAIN retries \cup {row.runs + 1} |->
                     IF n \in DOMAIN retries THEN retries[n] ELSE "waiting"]
    /\ UNCHANGED <<scenario, row, jobs, replay, providerVars, applied, pc, msg, task, spent>>

\* An operator replays the event (with force, whatever its status), unless the
\* replay job is queued or runs.  The addition of a retained id does nothing;
\* one that errors marks the row FAILED.
Replay ==
    /\ Received
    /\ replay \in {"none", "retained"}
    /\ Spend("replays")
    /\ \/ /\ row' = [row EXCEPT !.status = "ENQUEUED"]
          /\ replay' = IF replay = "none" THEN "waiting" ELSE replay
       \/ /\ spent["badAdds"] < scenario.bound["badAdds"]
          /\ row' = [row EXCEPT !.status = "FAILED"]
          /\ replay' = replay
    /\ UNCHANGED <<scenario, jobs, retries, providerVars, applied, pc, msg, task>>

\* A hundred later jobs have finished: the replay job is removed.
PurgeReplay ==
    /\ replay = "retained"
    /\ replay' = "none"
    /\ UNCHANGED <<scenario, row, jobs, retries, providerVars, applied, pc, msg, task, spent>>

\* A request dies without an answer.
IngressCrash(i) ==
    /\ pc[i] # "idle"
    /\ Spend("lostRequests")
    /\ Return(i)
    /\ UNCHANGED <<scenario, row, queueVars, providerVars, applied, task>>

\* A worker dies; its stalled job is run again.
WorkerCrash(w) ==
    /\ pc[w] # "idle"
    /\ Spend("lostWorkers")
    /\ IF task[w] = "replay"
       THEN replay' = "waiting" /\ UNCHANGED jobs
       ELSE jobs' = jobs + 1 /\ UNCHANGED replay
    /\ task' = [task EXCEPT ![w] = NoTask]
    /\ Return(w)
    /\ UNCHANGED <<scenario, row, retries, providerVars, applied>>

InboxNext ==
    \/ \E i \in Ingress :
         \/ \E m \in Payloads : Notify(i, m)
         \/ IngressStep(i) \/ IngressCrash(i)
    \/ \E w \in Workers : TakeJob(w) \/ WorkerStep(w) \/ WorkerCrash(w)
    \/ AutoRetry \/ Replay \/ PurgeReplay

InboxSpec == InboxInit /\ [][InboxNext]_inboxVars

\* Requests and workers that have started go on, waiting jobs are taken, and
\* the retry cron runs; nothing is assumed of failures, crashes and operators.
Fairness ==
    /\ \A i \in Ingress : WF_inboxVars(IngressStep(i))
    /\ \A w \in Workers : WF_inboxVars(TakeJob(w)) /\ WF_inboxVars(WorkerStep(w))
    /\ WF_inboxVars(AutoRetry)

FairSpec == InboxSpec /\ Fairness

------------------------------------------------------------------------------
(***************************************************************************)
(* Properties                                                              *)
(***************************************************************************)

Busy ==
    \/ \E p \in Procs : pc[p] # "idle"
    \/ jobs > 0
    \/ \E n \in DOMAIN retries : retries[n] = "waiting"
    \/ replay = "waiting"

\* Statuses arrive in order, every recorded notification has got its job (no
\* request died and no addition failed in between), and no operator interfered.
Orderly ==
    /\ ~scenario.reordered
    /\ spent["lostRequests"] + spent["badAdds"] + spent["replays"] = 0

\* A run of an older payload may say PROCESSED after the capture's run has said
\* FAILED, unless one job is run at a time; without a failure it does no harm.
Calm == scenario.alone \/ spent["failedRuns"] = 0

\* A capture the provider was answered 200 for is reconciled, or is still being
\* worked on, or stands FAILED, where the retry cron and the operator see it.
\* It is never dropped silently.  (resolveKeyCollision refreshes the row with the
\* capture; every marking of the row's status overwrites the others'.)
PaidNotLost ==
    Orderly /\ Calm /\ LastPayload \in answered \ applied => Busy \/ row.status = "FAILED"

\* However deliveries, failures, crashes and replays mix, one event gets no
\* more than three automatic retries.
AutoRetriesBounded == Cardinality(DOMAIN retries) <= MaxAutoRetries

\* A capture that was received is reconciled in the end, without an operator,
\* if at most one run of the event fails or dies.
PaidIsReconciled ==
    LastPayload \in answered ~>
        \/ LastPayload \in applied
        \/ ~Orderly \/ ~Calm
        \/ spent["failedRuns"] + spent["lostWorkers"] > 1

\* What holds of the row and its jobs in every state.
InboxConsistent == InboxTypeOK /\ AutoRetriesBounded
=============================================================================
