--------------------------- MODULE PaymentReconciliation ---------------------------
(***************************************************************************)
(* One payment transaction and everything that writes to it concurrently:  *)
(* reconciliation workers (the api and the worker container both run them, *)
(* ten at a time), the pending-expiry sweep with its provider poll, and    *)
(* the add-on recovery sweep.                                              *)
(*                                                                         *)
(* Every handler reads the transaction row once and then works from that   *)
(* snapshot through several separate database writes; the interleavings of *)
(* those writes are the subject of the module.  One action is one database *)
(* transaction (or one provider call with the write that depends on it).   *)
(* A process takes any of the handlers when it is idle, so two processes   *)
(* exercise every pair of handlers, including a handler and itself.        *)
(*                                                                         *)
(* A refund event here gives the whole payment back; partial refunds and   *)
(* the operator's own refunds are in RefundLedger.  The inbox is reduced   *)
(* to a status, a run counter and the queued jobs of each event; how       *)
(* events get there is in WebhookInbox.                                    *)
(***************************************************************************)
EXTENDS Naturals, FiniteSets

CONSTANTS
    Procs,                \* concurrent handlers
    Events,               \* webhook event rows of this payment
    Scenarios,            \* the situations considered, see ScenarioAssumption
    LeaseMayBeOvertaken,  \* may a two-minute lease expire under a live owner?
    MaxStamp              \* bound on the timestamps of claims

EventKinds == {"paid", "waiting", "canceled", "refund", "underpaid"}

\* A scenario fixes the purchase ("YOOKASSA" is polled and verified), where the
\* payment starts, what each event row says ("nothing" never arrives), how many
\* handlers may work at a time, and the bounds on failures and crashes and on
\* the replays of one event.
ASSUME ScenarioAssumption ==
    Scenarios \subseteq [kind: {"NEW", "RENEW", "ADDON"},
                         gateway: {"YOOKASSA", "OTHER"},
                         history: {"draft", "fulfilled"},
                         says: [Events -> EventKinds \cup {"nothing"}],
                         handlers: Nat, faults: Nat, replays: Nat]
ASSUME ProcsAssumption == IsFiniteSet(Procs)
ASSUME LeaseAssumption == LeaseMayBeOvertaken \in BOOLEAN
ASSUME BoundAssumption == MaxStamp \in Nat
\* An event is told apart from the sweeps and from no job at all.
ASSUME EventAssumption == Events \cap {"none", "expiry", "recovery"} = {}

VARIABLES
    scenario,     \* the member of Scenarios this behaviour belongs to
    provider,     \* the payment's status at the provider
    refunded,     \* has the provider given the money back?
    row,          \* the transaction row, see Rows
    trial,        \* the paid-trial claim bound to the transaction
    sub,          \* the subscription the purchase creates or extends
    payout,       \* are the post-fulfilment effects (partner, referral) standing?
    inbox,        \* per event: lifecycle status, runs, queued jobs, replays
    pc,           \* the next step of each process
    job,          \* the event or the sweep each process works for
    snap,         \* the row each process loaded
    claimedAt,    \* the timestamp of the claim each process wrote
    clock,        \* the next timestamp
    aged,         \* is the current claim older than the lease?
    faults,       \* failures and crashes so far
    swallowed,    \* history: a best-effort reversal step failed and was logged
    deliveredAt   \* history: the stamps of the provisionings that committed

vars == <<scenario, provider, refunded, row, trial, sub, payout, inbox,
          pc, job, snap, claimedAt, clock, aged, faults, swallowed, deliveredAt>>

\* What no database write of a handler touches.
envVars == <<scenario, provider, refunded>>
ghostVars == <<faults, swallowed>>

kind == scenario.kind
gateway == scenario.gateway
EventKind(e) == scenario.says[e]

Null == 0
NoJob == "none"

------------------------------------------------------------------------------
\* Data

\* gatewayId: a provider-create placeholder is "claim", a provider id "real".
\* hold and reversed stand for the gatewayData keys paymentNeedsManualReview
\* ("guard" when only the verification guard set it, "manual" when a verdict
\* did) and refundReversedAt.
Rows == [status: {"PENDING", "COMPLETED", "CANCELED"},
         fulfilledAt: Nat,
         linked: BOOLEAN,
         gatewayId: {"none", "claim", "real"},
         hold: {"none", "guard", "manual"},
         reversed: BOOLEAN]

NoRow == [status |-> "PENDING", fulfilledAt |-> Null, linked |-> FALSE,
          gatewayId |-> "none", hold |-> "none", reversed |-> FALSE]

InboxRows == [status: {"ABSENT", "ENQUEUED", "PROCESSING", "PROCESSED", "FAILED"},
              runs: Nat, jobs: Nat, replays: Nat]

Steps == {"idle", "hold", "clear", "dropTrial", "verify", "write", "claim",
          "provision", "release", "enqueue", "hooks", "ack", "fail",
          "ledger", "undo", "revoke", "stamp", "sweep"}

TypeOK ==
    /\ scenario \in Scenarios
    /\ provider \in {"pending", "succeeded", "canceled"}
    /\ refunded \in BOOLEAN
    /\ row \in Rows
    /\ trial \in {"NONE", "RESERVED", "CONSUMED", "RELEASED"}
    /\ sub \in {"none", "active", "expired"}
    /\ payout \in BOOLEAN
    /\ inbox \in [Events -> InboxRows]
    /\ pc \in [Procs -> Steps]
    /\ job \in [Procs -> Events \cup {NoJob, "expiry", "recovery"}]
    /\ snap \in [Procs -> Rows]
    /\ claimedAt \in [Procs -> Nat]
    /\ clock \in Nat \ {0}
    /\ aged \in BOOLEAN
    /\ faults \in 0 .. scenario.faults
    /\ swallowed \in BOOLEAN
    /\ deliveredAt \in SUBSET Nat

\* mapProviderStatusToTransactionStatus; it never answers FAILED.
NextStatus(k) ==
    CASE k = "paid"                   -> "COMPLETED"
      [] k \in {"canceled", "refund"} -> "CANCELED"
      [] OTHER                        -> "PENDING"

IsTerminal(r) == r.status \in {"COMPLETED", "CANCELED"}

\* Mutant: the patch replaces gatewayData.
MutantOverSnapshot(s) == [row EXCEPT !.hold = "none", !.reversed = FALSE]

\* mergeGatewayData(snapshot.gatewayData, patch) written over the row: the
\* keys the patch does not name come from the snapshot, not from the row.
OverSnapshot(s) == [row EXCEPT !.hold = s.hold, !.reversed = s.reversed]

\* Does some process still provision under the claim in the row?
OwnerAlive ==
    \E p \in Procs : pc[p] = "provision" /\ claimedAt[p] = row.fulfilledAt

------------------------------------------------------------------------------
\* Initial states

\* A draft that checkout left PENDING, with or without a provider id.
Draft ==
    /\ provider = "pending"
    /\ row \in [status: {"PENDING"}, fulfilledAt: {Null},
                linked: {kind = "RENEW"},
                gatewayId: IF gateway = "YOOKASSA" THEN {"none", "claim", "real"}
                           ELSE {"real"},
                hold: {"none"}, reversed: {FALSE}]
    /\ trial \in IF kind = "NEW" THEN {"NONE", "RESERVED"} ELSE {"NONE"}
    /\ sub = IF kind = "NEW" THEN "none" ELSE "active"
    /\ payout = FALSE
    /\ clock = 1
    /\ deliveredAt = {}

\* A payment captured and fulfilled long ago.
Fulfilled ==
    /\ provider = "succeeded"
    /\ row = [status |-> "COMPLETED", fulfilledAt |-> 1, linked |-> TRUE,
              gatewayId |-> "real", hold |-> "none", reversed |-> FALSE]
    /\ trial \in IF kind = "NEW" THEN {"NONE", "CONSUMED"} ELSE {"NONE"}
    /\ sub = "active"
    /\ payout = TRUE
    /\ clock = 2
    /\ deliveredAt = {1}

Init ==
    /\ scenario \in Scenarios
    /\ refunded = FALSE
    /\ IF scenario.history = "draft" THEN Draft ELSE Fulfilled
    /\ inbox = [e \in Events |->
                  [status |-> "ABSENT", runs |-> 0, jobs |-> 0, replays |-> 0]]
    /\ pc = [p \in Procs |-> "idle"]
    /\ job = [p \in Procs |-> NoJob]
    /\ snap = [p \in Procs |-> NoRow]
    /\ claimedAt = [p \in Procs |-> Null]
    /\ aged = FALSE
    /\ faults = 0
    /\ swallowed = FALSE

------------------------------------------------------------------------------
\* The provider and the inbox

\* The buyer pays, or the provider gives the payment up.
Settle ==
    /\ provider = "pending"
    /\ provider' \in {"succeeded", "canceled"}
    /\ UNCHANGED <<scenario, refunded, row, trial, sub, payout, inbox, pc, job,
                   snap, claimedAt, clock, aged, faults, swallowed, deliveredAt>>

\* A chargeback, or a refund made in the provider's dashboard.
GiveBack ==
    /\ provider = "succeeded"
    /\ ~refunded
    /\ refunded' = TRUE
    /\ UNCHANGED <<scenario, provider, row, trial, sub, payout, inbox, pc, job,
                   snap, claimedAt, clock, aged, faults, swallowed, deliveredAt>>

\* What has to be true at the provider for a notification to be sent.
\* Notifications are delayed and reordered freely.
Sendable(k) ==
    CASE k = "paid"     -> provider = "succeeded"
      [] k = "canceled" -> provider = "canceled"
      [] k = "refund"   -> refunded
      [] k = "nothing"  -> FALSE
      [] OTHER          -> TRUE

EnqueueJob(e) ==
    inbox' = [inbox EXCEPT ![e].status = "ENQUEUED", ![e].jobs = @ + 1]

\* Ingress records a notification, marks the row and adds the job.
Notify(e) ==
    /\ inbox[e].status = "ABSENT"
    /\ Sendable(EventKind(e))
    /\ EnqueueJob(e)
    /\ UNCHANGED <<envVars, row, trial, sub, payout, pc, job, snap, claimedAt,
                   clock, aged, ghostVars, deliveredAt>>

\* Mutant: the threshold is read as the number of retries.
MutantMaxAutoRetries == 2

MaxAutoRetries == 3

\* Would a claim that nobody works for still be inside its lease?
LeasePending == row.fulfilledAt # Null /\ ~aged /\ ~OwnerAlive

\* The auto-retry cron: FAILED with fewer than three runs.  The job id is
\* derived from the run count, so one run is retried by one job.  The delay of
\* at least five minutes outlasts the lease of a claim nobody works for.
AutoRetry(e) ==
    /\ inbox[e].status = "FAILED"
    /\ inbox[e].jobs = 0
    /\ inbox[e].runs < MaxAutoRetries
    /\ ~LeasePending
    /\ inbox' = [inbox EXCEPT ![e].jobs = 1]
    /\ UNCHANGED <<envVars, row, trial, sub, payout, pc, job, snap, claimedAt,
                   clock, aged, ghostVars, deliveredAt>>

\* An operator replays an event, with force when it is PROCESSED.
Replay(e) ==
    /\ inbox[e].status # "ABSENT"
    /\ inbox[e].replays < scenario.replays
    /\ inbox' = [inbox EXCEPT ![e].status = "ENQUEUED", ![e].jobs = @ + 1,
                              ![e].replays = @ + 1]
    /\ UNCHANGED <<envVars, row, trial, sub, payout, pc, job, snap, claimedAt,
                   clock, aged, ghostVars, deliveredAt>>

\* Two minutes pass over a claim.
LeaseAges ==
    /\ row.fulfilledAt # Null
    /\ ~aged
    /\ LeaseMayBeOvertaken \/ ~OwnerAlive
    /\ aged' = TRUE
    /\ UNCHANGED <<envVars, row, trial, sub, payout, inbox, pc, job, snap, claimedAt,
                   clock, ghostVars, deliveredAt>>

------------------------------------------------------------------------------
\* Loading the row

Goto(p, step) ==
    /\ pc' = [pc EXCEPT ![p] = step]
    /\ UNCHANGED <<job, snap, claimedAt>>

Finish(p) ==
    /\ pc' = [pc EXCEPT ![p] = "idle"]
    /\ job' = [job EXCEPT ![p] = NoJob]
    /\ snap' = [snap EXCEPT ![p] = NoRow]
    /\ claimedAt' = [claimedAt EXCEPT ![p] = Null]

Take(p, j, step) ==
    /\ pc[p] = "idle"
    /\ Cardinality({q \in Procs : pc[q] # "idle"}) < scenario.handlers
    /\ pc' = [pc EXCEPT ![p] = step]
    /\ job' = [job EXCEPT ![p] = j]
    /\ snap' = [snap EXCEPT ![p] = row]
    /\ UNCHANGED claimedAt

IsWebhook(p) == job[p] \in Events

\* Where a reconciliation goes once the claim of the snapshot is settled.
StepFor(k) ==
    IF IsTerminal(row) /\ NextStatus(k) # "COMPLETED"
    THEN IF NextStatus(k) = "CANCELED" THEN "dropTrial" ELSE "ack"
    ELSE IF NextStatus(k) = "COMPLETED" /\ gateway = "YOOKASSA" THEN "verify" ELSE "write"

\* Mutant: a claim in progress is acknowledged as if it were delivered.
MutantClaimedStep ==
    IF kind = "NEW" /\ ~row.linked /\ aged THEN "clear" ELSE "ack"

\* What a reconciliation does about a claim it finds on a COMPLETED row.
ClaimedStep ==
    CASE kind # "NEW" \/ row.linked -> "ack"
      [] kind = "NEW" /\ ~row.linked /\ aged -> "clear"
      [] OTHER -> "fail"

\* The branches reconcileWebhookEvent takes on the row it loads, in their order.
FirstStep(k) ==
    LET claimed == row.status = "COMPLETED" /\ row.fulfilledAt # Null
    IN  CASE k = "refund" /\ claimed -> IF row.reversed THEN "ack" ELSE "ledger"
          [] k = "underpaid" -> "hold"
          [] k \notin {"refund", "underpaid"} /\ claimed -> ClaimedStep
          [] OTHER -> StepFor(k)

\* A worker takes a job: counts the run, marks the event PROCESSING and loads
\* the transaction.
Load(p, e) ==
    /\ inbox[e].jobs > 0
    /\ inbox' = [inbox EXCEPT ![e].status = "PROCESSING", ![e].runs = @ + 1,
                              ![e].jobs = @ - 1]
    /\ Take(p, e, FirstStep(EventKind(e)))
    /\ UNCHANGED <<envVars, row, trial, sub, payout, clock, aged, ghostVars, deliveredAt>>

\* The pending-expiry sweep picks up a PENDING row past its half hour that is
\* not on an operator's desk.
SweepLoad(p) ==
    /\ row.status = "PENDING"
    /\ row.hold = "none"
    /\ Take(p, "expiry", "sweep")
    /\ UNCHANGED <<envVars, row, trial, sub, payout, inbox, clock, aged, ghostVars,
                   deliveredAt>>

\* The recovery sweep picks up a captured add-on nobody has fulfilled.
RecoveryLoad(p) ==
    /\ kind = "ADDON"
    /\ row.status = "COMPLETED"
    /\ row.fulfilledAt = Null
    /\ Take(p, "recovery", "claim")
    /\ UNCHANGED <<envVars, row, trial, sub, payout, inbox, clock, aged, ghostVars,
                   deliveredAt>>

------------------------------------------------------------------------------
\* Reconciliation up to the status write

\* flagAmountMismatchForReview: stamp the hold, keep the status.
HoldForReview(p) ==
    /\ pc[p] = "hold"
    /\ row' = [OverSnapshot(snap[p]) EXCEPT !.hold = "manual"]
    /\ Goto(p, "ack")
    /\ UNCHANGED <<envVars, trial, sub, payout, inbox, clock, aged, ghostVars, deliveredAt>>

\* Clear a claim that outlived its lease, fenced on the loaded timestamp, and
\* fall through.  The snapshot still reads COMPLETED.
ClearStale(p) ==
    /\ pc[p] = "clear"
    /\ LET k == EventKind(job[p]) IN
         /\ IF row.fulfilledAt = snap[p].fulfilledAt
            THEN row' = [row EXCEPT !.fulfilledAt = Null] /\ aged' = FALSE
            ELSE UNCHANGED <<row, aged>>
         /\ Goto(p, CASE NextStatus(k) = "CANCELED" -> "dropTrial"
                      [] NextStatus(k) = "PENDING"  -> "ack"
                      [] OTHER -> IF gateway = "YOOKASSA" THEN "verify" ELSE "write")
    /\ UNCHANGED <<envVars, trial, sub, payout, inbox, clock, ghostVars, deliveredAt>>

\* releasePaidTrialClaim gives back a reservation only.
ReleasedTrial == IF trial = "RESERVED" THEN "RELEASED" ELSE trial

\* A terminal row and a terminal notification: give the trial claim back.
DropTrial(p) ==
    /\ pc[p] = "dropTrial"
    /\ trial' = ReleasedTrial
    /\ Goto(p, "ack")
    /\ UNCHANGED <<envVars, row, sub, payout, inbox, clock, aged, ghostVars, deliveredAt>>

\* YooKassa confirms the capture.
Confirmed(p) ==
    /\ pc[p] = "verify"
    /\ provider = "succeeded"
    /\ Goto(p, "write")
    /\ UNCHANGED <<envVars, row, trial, sub, payout, inbox, clock, aged, ghostVars,
                   deliveredAt>>

\* YooKassa cannot be asked.  A row without a provider id is shielded from the
\* sweep's local timeout; the event fails and is retried.
Unavailable(p) ==
    /\ pc[p] = "verify"
    /\ faults < scenario.faults
    /\ faults' = faults + 1
    /\ row' = IF snap[p].gatewayId = "real" THEN row
              ELSE [OverSnapshot(snap[p]) EXCEPT
                      !.hold = IF @ = "none" /\ snap[p].gatewayId = "none"
                               THEN "guard" ELSE @]
    /\ Goto(p, "fail")
    /\ UNCHANGED <<envVars, trial, sub, payout, inbox, clock, aged, swallowed,
                   deliveredAt>>

\* releaseVerificationSweepGuard: a completion lifts the hold of the
\* verification guard, never that of a verdict.
Lifted(hold, next) == IF next = "COMPLETED" /\ hold = "guard" THEN "none" ELSE hold

\* The status write, whatever the row has become since it was loaded.
WriteStatus(p) ==
    /\ pc[p] = "write"
    /\ LET next == NextStatus(EventKind(job[p])) IN
         /\ row' = [OverSnapshot(snap[p]) EXCEPT
                      !.status = next,
                      !.gatewayId = IF gateway = "YOOKASSA" /\ snap[p].gatewayId # "real"
                                    THEN "real" ELSE @,
                      !.hold = Lifted(@, next)]
         /\ trial' = IF next = "CANCELED" THEN ReleasedTrial ELSE trial
         /\ Goto(p, IF next = "COMPLETED" THEN "claim" ELSE "ack")
    /\ UNCHANGED <<envVars, sub, payout, inbox, clock, aged, ghostVars, deliveredAt>>

------------------------------------------------------------------------------
\* Claiming, provisioning, releasing

\* Mutant: the claim forgets fulfilledAt IS NULL.
MutantMayClaim(p) ==
    /\ job[p] = "expiry" => row.status = "PENDING"
    /\ job[p] = "recovery" => row.status = "COMPLETED"

\* The webhook claims whatever the status; the expiry poll completes a PENDING
\* row with the claim; the recovery sweep claims a COMPLETED one.
MayClaim(p) ==
    /\ row.fulfilledAt = Null
    /\ job[p] = "expiry" => row.status = "PENDING"
    /\ job[p] = "recovery" => row.status = "COMPLETED"

Claim(p) ==
    /\ pc[p] = "claim"
    /\ MayClaim(p)
    /\ clock <= MaxStamp
    /\ row' = [row EXCEPT !.fulfilledAt = clock,
                          !.status = IF job[p] = "expiry" THEN "COMPLETED" ELSE @]
    /\ claimedAt' = [claimedAt EXCEPT ![p] = clock]
    /\ clock' = clock + 1
    /\ aged' = FALSE
    /\ pc' = [pc EXCEPT ![p] = "provision"]
    /\ UNCHANGED <<envVars, job, snap, trial, sub, payout, inbox, ghostVars, deliveredAt>>

\* A webhook that lost the claim still runs the hooks; a sweep stops.
LoseClaim(p) ==
    /\ pc[p] = "claim"
    /\ ~MayClaim(p)
    /\ IF IsWebhook(p) THEN Goto(p, "hooks") ELSE Finish(p)
    /\ UNCHANGED <<envVars, row, trial, sub, payout, inbox, clock, aged, ghostVars,
                   deliveredAt>>

\* Mutant: only a reservation that was never given back is consumed.
MutantConsumedTrial == IF trial = "RESERVED" THEN "CONSUMED" ELSE trial

\* A paid trial is consumed with the purchase, a released reservation too.
ConsumedTrial == IF trial = "NONE" THEN "NONE" ELSE "CONSUMED"

\* applyCompletedTransaction commits: the subscription is created or extended,
\* a paid trial is consumed, fulfilledAt is stamped again and all but the add-on top-up write COMPLETED.
Provision(p) ==
    /\ pc[p] = "provision"
    /\ clock <= MaxStamp
    /\ row' = [row EXCEPT !.fulfilledAt = clock, !.linked = TRUE,
                          !.status = IF kind = "ADDON" THEN @ ELSE "COMPLETED"]
    /\ sub' = "active"
    /\ trial' = ConsumedTrial
    /\ deliveredAt' = deliveredAt \cup {clock}
    /\ clock' = clock + 1
    /\ aged' = FALSE
    /\ Goto(p, "enqueue")
    /\ UNCHANGED <<envVars, payout, inbox, ghostVars>>

\* applyCompletedTransaction throws and its transaction rolls back.
ProvisionFails(p) ==
    /\ pc[p] = "provision"
    /\ faults < scenario.faults
    /\ faults' = faults + 1
    /\ Goto(p, "release")
    /\ UNCHANGED <<envVars, row, trial, sub, payout, inbox, clock, aged, swallowed,
                   deliveredAt>>

\* Does the release match the row?  It is fenced on the lease of the claimant,
\* except in the recovery sweep.
Releases(p) ==
    /\ row.fulfilledAt # Null
    /\ row.fulfilledAt = claimedAt[p] \/ job[p] = "recovery"

\* Give the claim back.
ReleaseClaim(p) ==
    /\ pc[p] = "release"
    /\ IF Releases(p)
       THEN row' = [row EXCEPT !.fulfilledAt = Null] /\ aged' = FALSE
       ELSE UNCHANGED <<row, aged>>
    /\ IF IsWebhook(p)
       THEN /\ pc' = [pc EXCEPT ![p] = "fail"]
            /\ claimedAt' = [claimedAt EXCEPT ![p] = Null]
            /\ UNCHANGED <<job, snap>>
       ELSE Finish(p)
    /\ UNCHANGED <<envVars, trial, sub, payout, inbox, clock, ghostVars, deliveredAt>>

\* Push the sync jobs to the queue; a sweep has no event to acknowledge.
EnqueueSync(p) ==
    /\ pc[p] = "enqueue"
    /\ IF job[p] = "recovery" THEN Finish(p) ELSE Goto(p, "hooks")
    /\ UNCHANGED <<envVars, row, trial, sub, payout, inbox, clock, aged, ghostVars,
                   deliveredAt>>

\* The queue refuses: the claim stays, the event fails, the hooks are skipped.
EnqueueFails(p) ==
    /\ pc[p] = "enqueue"
    /\ job[p] # "recovery"
    /\ faults < scenario.faults
    /\ faults' = faults + 1
    /\ IF IsWebhook(p) THEN Goto(p, "fail") ELSE Finish(p)
    /\ UNCHANGED <<envVars, row, trial, sub, payout, inbox, clock, aged, swallowed,
                   deliveredAt>>

\* runPostFulfillmentHooks: every effect is best-effort and idempotent while
\* it stands.
Hooks(p) ==
    /\ pc[p] = "hooks"
    /\ \/ payout' = TRUE /\ UNCHANGED faults
       \/ faults < scenario.faults /\ faults' = faults + 1 /\ UNCHANGED payout
    /\ IF IsWebhook(p) THEN Goto(p, "ack") ELSE Finish(p)
    /\ UNCHANGED <<envVars, row, trial, sub, inbox, clock, aged, swallowed, deliveredAt>>

Ack(p) ==
    /\ pc[p] = "ack"
    /\ inbox' = [inbox EXCEPT ![job[p]].status = "PROCESSED"]
    /\ Finish(p)
    /\ UNCHANGED <<envVars, row, trial, sub, payout, clock, aged, ghostVars, deliveredAt>>

FailEvent(p) ==
    /\ pc[p] = "fail"
    /\ inbox' = [inbox EXCEPT ![job[p]].status = "FAILED"]
    /\ Finish(p)
    /\ UNCHANGED <<envVars, row, trial, sub, payout, clock, aged, ghostVars, deliveredAt>>

------------------------------------------------------------------------------
\* Refund reversal

\* handleRefundReversal under the row lock: the authoritative idempotency
\* check, and the gatewayData the reversal goes on with.
LockLedger(p) ==
    /\ pc[p] = "ledger"
    /\ IF row.reversed
       THEN Goto(p, "ack")
       ELSE /\ pc' = [pc EXCEPT ![p] = "undo"]
            /\ snap' = [snap EXCEPT ![p].hold = row.hold, ![p].reversed = row.reversed]
            /\ UNCHANGED <<job, claimedAt>>
    /\ UNCHANGED <<envVars, row, trial, sub, payout, inbox, clock, aged, ghostVars,
                   deliveredAt>>

\* Partner accruals, referral, income, conversion: each reversal is
\* best-effort, an error is logged and the next one runs.
UndoPayout(p) ==
    /\ pc[p] = "undo"
    /\ \/ payout' = FALSE /\ UNCHANGED ghostVars
       \/ /\ faults < scenario.faults
          /\ faults' = faults + 1
          /\ swallowed' = TRUE
          /\ UNCHANGED payout
    /\ Goto(p, "revoke")
    /\ UNCHANGED <<envVars, row, trial, sub, inbox, clock, aged, deliveredAt>>

\* Mutant: only a subscription that was extended is revoked.
MutantRevocable(s) == kind = "RENEW" /\ s.linked

\* A refund takes the subscription only if the purchase created it.
Revocable(s) == kind = "NEW" /\ s.linked

\* Expire the subscription a NEW purchase created, as linked in the snapshot.
Revoke(p) ==
    /\ pc[p] = "revoke"
    /\ sub' = IF Revocable(snap[p]) /\ sub = "active" THEN "expired" ELSE sub
    /\ Goto(p, "stamp")
    /\ UNCHANGED <<envVars, row, trial, payout, inbox, clock, aged, ghostVars, deliveredAt>>

\* Mark CANCELED and stamp refundReversedAt.
StampReversal(p) ==
    /\ pc[p] = "stamp"
    /\ row' = [OverSnapshot(snap[p]) EXCEPT !.status = "CANCELED", !.reversed = TRUE]
    /\ Goto(p, "ack")
    /\ UNCHANGED <<envVars, trial, sub, payout, inbox, clock, aged, ghostVars, deliveredAt>>

------------------------------------------------------------------------------
\* The pending-expiry sweep

\* Is the row cancelled on our own half hour, without asking the provider?
LocalTtl(s) == gateway # "YOOKASSA" \/ s.gatewayId = "none"

\* The status condition of the sweep's updates.
StillPending == row.status = "PENDING"

\* Cancel on the local timeout or on the provider's verdict, guarded on the
\* status still being PENDING; the trial claim goes in the same transaction.
SweepCancel(p) ==
    /\ pc[p] = "sweep"
    /\ LocalTtl(snap[p]) \/ (snap[p].gatewayId = "real" /\ provider = "canceled")
    /\ IF StillPending
       THEN row' = [row EXCEPT !.status = "CANCELED"] /\ trial' = ReleasedTrial
       ELSE UNCHANGED <<row, trial>>
    /\ Finish(p)
    /\ UNCHANGED <<envVars, sub, payout, inbox, clock, aged, ghostVars, deliveredAt>>

\* The provider was polled and the payment is open or captured: stamp the poll
\* on a row that is still PENDING; a captured one goes on to the claim.
SweepPoll(p) ==
    /\ pc[p] = "sweep"
    /\ ~LocalTtl(snap[p])
    /\ snap[p].gatewayId = "real"
    /\ provider \in {"pending", "succeeded"}
    /\ row' = IF StillPending THEN OverSnapshot(snap[p]) ELSE row
    /\ IF provider = "succeeded" THEN Goto(p, "claim") ELSE Finish(p)
    /\ UNCHANGED <<envVars, trial, sub, payout, inbox, clock, aged, ghostVars, deliveredAt>>

\* A provider-create placeholder, or a poll that failed: leave the row alone.
SweepKeep(p) ==
    /\ pc[p] = "sweep"
    /\ ~LocalTtl(snap[p])
    /\ Finish(p)
    /\ UNCHANGED <<envVars, row, trial, sub, payout, inbox, clock, aged, ghostVars,
                   deliveredAt>>

------------------------------------------------------------------------------
\* The container dies in the middle of a handler.  BullMQ finds the job stalled
\* and runs it again; a sweep simply ends.
Crash(p) ==
    /\ pc[p] # "idle"
    /\ faults < scenario.faults
    /\ faults' = faults + 1
    /\ inbox' = IF IsWebhook(p) THEN [inbox EXCEPT ![job[p]].jobs = @ + 1] ELSE inbox
    /\ Finish(p)
    /\ UNCHANGED <<envVars, row, trial, sub, payout, clock, aged, swallowed, deliveredAt>>

WebhookStep(p) ==
    \/ HoldForReview(p) \/ ClearStale(p) \/ DropTrial(p)
    \/ Confirmed(p) \/ Unavailable(p) \/ WriteStatus(p)
    \/ Ack(p) \/ FailEvent(p)

FulfilStep(p) ==
    \/ Claim(p) \/ LoseClaim(p) \/ Provision(p) \/ ProvisionFails(p)
    \/ ReleaseClaim(p) \/ EnqueueSync(p) \/ EnqueueFails(p) \/ Hooks(p)

ReversalStep(p) == LockLedger(p) \/ UndoPayout(p) \/ Revoke(p) \/ StampReversal(p)

SweepStep(p) == SweepCancel(p) \/ SweepPoll(p) \/ SweepKeep(p)

Continue(p) == WebhookStep(p) \/ FulfilStep(p) \/ ReversalStep(p) \/ SweepStep(p)

Next ==
    \/ Settle \/ GiveBack \/ LeaseAges
    \/ \E e \in Events : Notify(e) \/ AutoRetry(e) \/ Replay(e)
    \/ \E p \in Procs :
         \/ SweepLoad(p) \/ RecoveryLoad(p) \/ Continue(p) \/ Crash(p)
         \/ \E e \in Events : Load(p, e)

Spec == Init /\ [][Next]_vars

\* The scheduling the code relies on: a handler that has started goes on; the
\* provider repeats a notification until ingress takes it; a queued job is
\* taken although the sweeps keep coming (their crons do not use up the slots
\* of the queue workers, hence the strong fairness); the retry cron runs every
\* five minutes; time passes.  Failures and crashes are not fair, and
\* neither are the buyer, the operator and the sweeps.
Fairness ==
    /\ \A p \in Procs : WF_vars(Continue(p))
    /\ \A e \in Events :
         /\ WF_vars(Notify(e))
         /\ SF_vars(\E p \in Procs : Load(p, e))
         /\ WF_vars(AutoRetry(e))
    /\ WF_vars(LeaseAges)

FairSpec == Spec /\ Fairness

------------------------------------------------------------------------------
(***************************************************************************)
(* Properties                                                              *)
(***************************************************************************)

\* What the claim columns do, seen as the claim protocol.
PhaseOf(p) ==
    CASE pc[p] = "provision" -> "provisioning"
      [] pc[p] = "release"   -> "failed"
      [] pc[p] = "clear"     -> "recovering"
      [] OTHER               -> "idle"

LeaseOf(p) == IF pc[p] \in {"provision", "release"} THEN claimedAt[p] ELSE Null
SeenOf(p) == IF pc[p] = "clear" THEN snap[p].fulfilledAt ELSE Null

Protocol == INSTANCE FulfilmentClaim WITH
    Claimants <- Procs,
    Kinds <- {"NEW", "RENEW", "ADDON"},
    fulfilledAt <- row.fulfilledAt,
    linked <- row.linked,
    phase <- [p \in Procs |-> PhaseOf(p)],
    lease <- [p \in Procs |-> LeaseOf(p)],
    seen <- [p \in Procs |-> SeenOf(p)]

\* Workers, poll and recovery sweep together implement the claim protocol, and
\* with it at-most-once provisioning: no status write, hold, sweep or reversal
\* ever disturbs fulfilledAt.  (A payment delivered long ago starts where the
\* protocol has already ended; its steps are still the protocol's.)
ImplementsClaim ==
    /\ scenario.history = "draft" => Protocol!Init
    /\ [][Protocol!Next]_(Protocol!vars)

Delivered == deliveredAt # {}
Idle == \A p \in Procs : pc[p] = "idle"
Paid == {e \in Events : EventKind(e) = "paid"}

\* Once every notification of the payment is PROCESSED and nobody works on it,
\* the purchase is delivered, or a human holds it, or the money is on its way
\* back: captured money is not acknowledged away.
NeverStranded ==
    Idle /\ (\E e \in Paid : inbox[e].status = "PROCESSED") =>
        \/ Delivered
        \/ row.hold = "manual"
        \/ refunded
        \/ \E e \in Paid : inbox[e].status \in {"ENQUEUED", "PROCESSING", "FAILED"}

\* Handlers that do not overlap, or that all bring the same news: captures, or
\* refunds of a payment delivered long ago.  A handler that holds an older
\* snapshot than the row can then say nothing that contradicts it.
Undisturbed ==
    \/ scenario.handlers <= 1
    \/ \A e \in Events : EventKind(e) \in {"paid", "nothing"}
    \/ /\ scenario.history = "fulfilled"
       /\ \A e \in Events : EventKind(e) \in {"refund", "nothing"}

\* The purchases the stale-claim recovery is written for keep that promise: a
\* NEW one whose claim nobody but a webhook takes, if no event is replayed while
\* another handler works.
NewNeverStranded ==
    /\ kind = "NEW" /\ gateway = "OTHER" /\ Undisturbed
    /\ scenario.handlers <= 1 \/ scenario.replays = 0
    => NeverStranded

\* A captured purchase is delivered in the end, unless the money goes back: one
\* failure or crash anywhere -- in a worker, between the claim and the
\* provisioning, at the queue, in the release of the claim -- is recovered from
\* without a human, and within the three runs an event is given.
CapturedIsDelivered == provider = "succeeded" ~> Delivered \/ refunded

\* A delivered payment leaves COMPLETED only by the reversal of a refund.
CompletedStays ==
    Delivered /\ row.status = "COMPLETED" /\ row'.status # "COMPLETED" =>
        refunded /\ row'.reversed

\* A hold that a verdict put on the row is not lost to another handler's write.
HoldStays == row.hold = "manual" => row'.hold = "manual"

\* The refundReversedAt stamp is not lost to another handler's write.
ReversalStays == row.reversed => row'.reversed

\* Once a reversal is stamped and nobody works on the payment, nothing of a
\* payment delivered before the refund stands -- up to a best-effort step that
\* failed and was logged, and unless the capture is reported once more.
RefundUndone ==
    scenario.history = "fulfilled" /\ Paid = {} /\ Idle /\ row.reversed /\ ~swallowed =>
        /\ row.status = "CANCELED"
        /\ ~payout
        /\ kind = "NEW" => sub # "active"

\* A delivered paid trial stays consumed: no late timeout or cancellation
\* returns the quota of a trial that was granted.
TrialConsumed == Delivered /\ trial # "NONE" => trial = "CONSUMED"

\* A payment that can still be paid keeps its trial reservation.
PendingKeepsTrial == Undisturbed /\ row.status = "PENDING" => trial # "RELEASED"

\* What holds of the row and its reservation in every state: their types, and
\* that the trial follows the payment.
RowConsistent == TypeOK /\ TrialConsumed /\ PendingKeepsTrial

\* No write from an old snapshot takes back what another handler decided: a
\* delivery, a hold, a reversal.
NothingTakenBack ==
    [][Undisturbed => CompletedStays /\ HoldStays /\ ReversalStays]_vars
==============================================================================
