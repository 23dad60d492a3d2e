------------------------------- MODULE RefundLedger -------------------------------
(***************************************************************************)
(* The refund bookkeeping of one captured and fulfilled YooKassa payment.  *)
(*                                                                         *)
(* Two writers see the same refund from two sides: the operator's request  *)
(* in the panel (PaymentRefundService), and the worker that reconciles the *)
(* provider's refund.succeeded notification (PaymentReconciliationService).*)
(* Each adds the refund to a ledger in gatewayData keyed by the provider's *)
(* refund id, under a row lock, and when the running total has reached the *)
(* captured amount goes on to reverse everything the payment produced --   *)
(* outside the lock, on a copy of gatewayData it writes back at the end.   *)
(*                                                                         *)
(* A refund is a member of Refunds with a fixed amount in minor units.     *)
(* The reversal of payouts is in PaymentReconciliation; here the reversal  *)
(* is the revocation of the subscription, the audit of what it overwrote,  *)
(* and the stamp.                                                          *)
(***************************************************************************)
EXTENDS Naturals, FiniteSets, Functions

CONSTANTS
    Refunds,          \* refund ids of this payment at the provider
    Amount,           \* the amount of each refund
    Paid,             \* the captured amount
    Panels,           \* operator requests that may run at once
    Workers,          \* reconciliation workers
    NamelessEvents,   \* may a notification carry no refund id?
    MaxCrashes        \* bound on crashes and failed runs

\* The amounts of a set of refunds, added up.
Sum(S) == SumFunctionOnSet(Amount, S)

ASSUME RefundsAssumption == IsFiniteSet(Refunds)
ASSUME AmountAssumption == Amount \in [Refunds -> Nat \ {0}]
ASSUME PaidAssumption == Paid \in Nat \ {0}
ASSUME ProcsAssumption == Panels \cap Workers = {}
ASSUME NamelessAssumption == NamelessEvents \in BOOLEAN
ASSUME CrashAssumption == MaxCrashes \in Nat

VARIABLES
    issued,     \* refunds that exist at the provider
    settled,    \* refunds the provider has paid out
    keyed,      \* refunds issued under an Idempotence-Key of the panel
    status,     \* Transaction.status
    data,       \* Transaction.gatewayData, see Data
    sub,        \* status of the subscription the payment created
    queued,     \* notifications (one per refund) waiting for a worker
    acked,      \* refunds with a notification marked PROCESSED
    pc,         \* the next step of each process
    want,       \* the amount a panel request asks for
    ref,        \* the refund a process works for
    counts,     \* had that refund succeeded when the provider answered?
    snap,       \* the gatewayData a reversal started from
    found,      \* the subscription status a reversal found
    crashes     \* crashes and failed runs so far

vars == <<issued, settled, keyed, status, data, sub, queued, acked, pc, want, ref,
          counts, snap, found, crashes>>

providerVars == <<issued, settled, keyed>>
inboxVars == <<queued, acked>>
localVars == <<want, ref, counts, snap, found, crashes>>

Procs == Panels \cup Workers
NoStatus == "none"
Statuses == {"active", "expired", NoStatus}

\* refunds, refundedAmountTotal, refundReversedAt and refundRevokedFromStatus.
Data == [ledger: SUBSET Refunds, total: Nat, reversed: BOOLEAN, audit: Statuses]
NoData == [ledger |-> {}, total |-> 0, reversed |-> FALSE, audit |-> NoStatus]

Steps == {"idle", "post", "record", "fresh", "lock", "revoke", "stamp", "ack"}

TypeOK ==
    /\ issued \in SUBSET Refunds
    /\ settled \in SUBSET Refunds
    /\ keyed \in SUBSET Refunds
    /\ status \in {"COMPLETED", "CANCELED"}
    /\ data \in Data
    /\ sub \in {"active", "expired"}
    /\ queued \in SUBSET Refunds
    /\ acked \in SUBSET Refunds
    /\ pc \in [Procs -> Steps]
    /\ want \in [Procs -> Nat]
    /\ ref \in [Procs -> Refunds]
    /\ counts \in [Procs -> BOOLEAN]
    /\ snap \in [Procs -> Data]
    /\ found \in [Procs -> Statuses]
    /\ crashes \in 0 .. MaxCrashes

Init ==
    /\ issued = {} /\ settled = {} /\ keyed = {}
    /\ status = "COMPLETED"
    /\ data = NoData
    /\ sub = "active"
    /\ queued = {} /\ acked = {}
    /\ pc = [p \in Procs |-> "idle"]
    /\ want = [p \in Procs |-> 0]
    /\ ref \in {[p \in Procs |-> r] : r \in Refunds}
    /\ counts = [p \in Procs |-> FALSE]
    /\ snap = [p \in Procs |-> NoData]
    /\ found = [p \in Procs |-> NoStatus]
    /\ crashes = 0

Goto(p, step) == pc' = [pc EXCEPT ![p] = step]

------------------------------------------------------------------------------
\* The provider

\* Would the provider accept this refund?  It never gives back more than it took.
Acceptable(r) == r \notin issued /\ Sum(issued \cup {r}) <= Paid

\* A refund made in the provider's own dashboard.
Dashboard(r) ==
    /\ Acceptable(r)
    /\ issued' = issued \cup {r}
    /\ UNCHANGED <<settled, keyed, status, data, sub, inboxVars, pc, localVars>>

\* A pending refund is paid out.
Settle(r) ==
    /\ r \in issued \ settled
    /\ settled' = settled \cup {r}
    /\ UNCHANGED <<issued, keyed, status, data, sub, inboxVars, pc, localVars>>

\* refund.succeeded is delivered, any number of times.
Notify(r) ==
    /\ r \in settled
    /\ r \notin queued
    /\ queued' = queued \cup {r}
    /\ UNCHANGED <<providerVars, status, data, sub, acked, pc, localVars>>

------------------------------------------------------------------------------
\* The operator's refund

\* The eligibility check: refund some of what the row says is left.
PanelStart(p) ==
    /\ pc[p] = "idle"
    /\ status = "COMPLETED"
    /\ \E a \in {Amount[r] : r \in Refunds} :
         /\ data.total + a <= Paid
         /\ want' = [want EXCEPT ![p] = a]
    /\ Goto(p, "post")
    /\ UNCHANGED <<providerVars, status, data, sub, inboxVars, ref, counts, snap, found, crashes>>

\* The Idempotence-Key is the transaction and the amount: a second request for
\* the same amount is answered with the refund of the first.
Replayed(a) == {r \in keyed : Amount[r] = a}

Answered(p, r) ==
    /\ ref' = [ref EXCEPT ![p] = r]
    /\ counts' = [counts EXCEPT ![p] = r \in settled']
    /\ Goto(p, "record")
    /\ UNCHANGED <<status, data, sub, inboxVars, want, snap, found, crashes>>

\* The provider makes a new refund, and may pay it out at once.
PostIssues(p) ==
    /\ pc[p] = "post"
    /\ Replayed(want[p]) = {}
    /\ \E r \in Refunds :
         /\ Amount[r] = want[p]
         /\ Acceptable(r)
         /\ issued' = issued \cup {r}
         /\ keyed' = keyed \cup {r}
         /\ settled' \in {settled, settled \cup {r}}
         /\ Answered(p, r)

\* The provider answers with the refund it made for the same key.
PostReplays(p) ==
    /\ pc[p] = "post"
    /\ \E r \in Replayed(want[p]) : UNCHANGED providerVars /\ Answered(p, r)

\* The provider refuses: the balance went elsewhere meanwhile.
PostRefused(p) ==
    /\ pc[p] = "post"
    /\ Replayed(want[p]) = {}
    /\ \A r \in Refunds : Amount[r] = want[p] => ~Acceptable(r)
    /\ Goto(p, "idle")
    /\ UNCHANGED <<providerVars, status, data, sub, inboxVars, localVars>>

\* Mutant: every answered refund is added to the total.
MutantNewToLedger(p) == counts[p]

\* A refund counts once, and only when the provider has paid it out.
NewToLedger(p) == counts[p] /\ ref[p] \notin data.ledger

Larger(m, n) == IF m >= n THEN m ELSE n

\* Under the row lock: record the refund.  The total only grows.
PanelRecord(p) ==
    /\ pc[p] = "record"
    /\ LET isNew  == NewToLedger(p)
           ledger == IF isNew THEN data.ledger \cup {ref[p]} ELSE data.ledger
           total  == Larger(IF isNew THEN data.total + want[p] ELSE data.total,
                            Sum(ledger))
       IN  /\ data' = [data EXCEPT !.ledger = ledger, !.total = total]
           /\ Goto(p, IF counts[p] /\ total >= Paid THEN "fresh" ELSE "idle")
    /\ UNCHANGED <<providerVars, status, sub, inboxVars, localVars>>

\* The total is reached: re-read the row for the reversal.
PanelFresh(p) ==
    /\ pc[p] = "fresh"
    /\ IF data.reversed
       THEN Goto(p, "idle") /\ UNCHANGED snap
       ELSE Goto(p, "revoke") /\ snap' = [snap EXCEPT ![p] = data]
    /\ UNCHANGED <<providerVars, status, data, sub, inboxVars, want, ref, counts, found, crashes>>

------------------------------------------------------------------------------
\* The provider's notification

\* A worker loads the transaction.  A reversed one needs nothing; CANCELED is
\* terminal for a refund.
Load(p, r) ==
    /\ pc[p] = "idle"
    /\ r \in queued
    /\ ref' = [ref EXCEPT ![p] = r]
    /\ Goto(p, IF status = "COMPLETED" /\ ~data.reversed THEN "lock" ELSE "ack")
    /\ UNCHANGED <<providerVars, status, data, sub, inboxVars, want, counts, snap, found, crashes>>

\* Mutant: a refund already in the ledger is only an echo of a finished request.
MutantFull(named, r, total) == total >= Paid /\ ~(named /\ r \in data.ledger)

\* Is everything given back, whoever has recorded it?
Full(named, r, total) == total >= Paid

\* The gatewayData the reversal goes on with: what was just written.
Carried == data'

\* The total after a notification.  Without a refund id the larger sum stands;
\* a refund that is in the ledger already adds nothing.
LockedTotal(r, named) ==
    CASE ~named                       -> Larger(data.total, Amount[r])
      [] named /\ r \in data.ledger   -> data.total
      [] named /\ r \notin data.ledger -> data.total + Amount[r]

LockedLedger(r, named) == IF named THEN data.ledger \cup {r} ELSE data.ledger

\* Under the row lock: record the refund if it is not in the ledger yet, and
\* reverse the payment if it is given back in full.
WorkerLock(p) ==
    /\ pc[p] = "lock"
    /\ IF data.reversed
       THEN Goto(p, "ack") /\ UNCHANGED <<data, snap>>
       ELSE \E named \in IF NamelessEvents THEN BOOLEAN ELSE {TRUE} :
              LET total == LockedTotal(ref[p], named) IN
                /\ data' = [data EXCEPT !.ledger = LockedLedger(ref[p], named),
                                        !.total = total]
                /\ IF Full(named, ref[p], total)
                   THEN Goto(p, "revoke") /\ snap' = [snap EXCEPT ![p] = Carried]
                   ELSE Goto(p, "ack") /\ UNCHANGED snap
    /\ UNCHANGED <<providerVars, status, sub, inboxVars, want, ref, counts, found, crashes>>

Ack(p) ==
    /\ pc[p] = "ack"
    /\ queued' = queued \ {ref[p]}
    /\ acked' = acked \cup {ref[p]}
    /\ Goto(p, "idle")
    /\ UNCHANGED <<providerVars, status, data, sub, localVars>>

------------------------------------------------------------------------------
\* reverseFulfilledPayment, on the gatewayData in snap

RevokedStatus == "expired"

\* Note what the subscription was and expire it.
Revoke(p) ==
    /\ pc[p] = "revoke"
    /\ found' = [found EXCEPT ![p] = sub]
    /\ sub' = RevokedStatus
    /\ Goto(p, "stamp")
    /\ UNCHANGED <<providerVars, status, data, inboxVars, want, ref, counts, snap, crashes>>

\* Mark CANCELED and write gatewayData back: the snapshot, the audit, the stamp.
Stamp(p) ==
    /\ pc[p] = "stamp"
    /\ status' = "CANCELED"
    /\ data' = [snap[p] EXCEPT !.reversed = TRUE, !.audit = found[p]]
    /\ Goto(p, IF p \in Workers THEN "ack" ELSE "idle")
    /\ UNCHANGED <<providerVars, sub, inboxVars, localVars>>

\* The container dies or a write errors.  A worker's job is run again; a
\* panel request is gone.
Crash(p) ==
    /\ pc[p] # "idle"
    /\ crashes < MaxCrashes
    /\ crashes' = crashes + 1
    /\ Goto(p, "idle")
    /\ UNCHANGED <<providerVars, status, data, sub, inboxVars, want, ref, counts, snap,
                   found>>

PanelStep(p) ==
    \/ PostIssues(p) \/ PostReplays(p) \/ PostRefused(p)
    \/ PanelRecord(p) \/ PanelFresh(p) \/ Revoke(p) \/ Stamp(p)

WorkerStep(p) == WorkerLock(p) \/ Revoke(p) \/ Stamp(p) \/ Ack(p)

Next ==
    \/ \E r \in Refunds : Dashboard(r) \/ Settle(r) \/ Notify(r)
    \/ \E p \in Panels : PanelStart(p) \/ PanelStep(p)
    \/ \E p \in Workers : WorkerStep(p) \/ \E r \in Refunds : Load(p, r)
    \/ \E p \in Procs : Crash(p)

Spec == Init /\ [][Next]_vars

\* The provider settles what it issued and repeats a notification until it is
\* processed; a worker goes on with a run it has begun; a queued notification
\* is taken even though those of other refunds keep coming.  Neither crashes
\* nor the panel are fair: no operator need finish.
Fairness ==
    /\ \A r \in Refunds :
         /\ WF_vars(Settle(r))
         /\ WF_vars(r \notin acked /\ Notify(r))
         /\ SF_vars(\E p \in Workers : Load(p, r))
    /\ \A p \in Workers : WF_vars(WorkerStep(p))

FairSpec == Spec /\ Fairness

------------------------------------------------------------------------------
(***************************************************************************)
(* Properties                                                              *)
(***************************************************************************)

\* Nothing is taken from the customer, the partner or the tax office before
\* the provider has really given everything back: whatever the writers
\* interleave, one refund never counts twice.
ReversedOnlyInFull ==
    data.reversed \/ (\E p \in Procs : pc[p] \in {"revoke", "stamp"})
        => Sum(settled) >= Paid

\* No writer loses what another one recorded: neither the write under the
\* lock nor the stamp, which writes back a copy taken before the reversal.
LedgerKept ==
    [][data.ledger \subseteq data'.ledger /\ data.total <= data'.total]_vars

\* Once the processed notifications say that everything was given back, the
\* payment is reversed -- also when the panel request that recorded the last
\* refund died before it reversed anything.
AckedIsReversed == Sum(acked) >= Paid => data.reversed /\ status = "CANCELED"

\* A payment that was given back in full is reversed in the end.
FullRefundReverses == Sum(settled) >= Paid ~> data.reversed

\* The accounts: only paid-out refunds are in the ledger, their sum is the
\* total, and a panel request waiting to record knows its refund.
Accounted ==
    /\ settled \subseteq issued
    /\ keyed \subseteq issued
    /\ Sum(issued) <= Paid
    /\ data.ledger \subseteq settled
    /\ data.total = Sum(data.ledger)
    /\ queued \subseteq settled
    /\ \A p \in Procs :
         /\ p \in Workers /\ pc[p] # "idle" => ref[p] \in settled
         /\ pc[p] = "record" =>
              /\ ref[p] \in issued
              /\ want[p] = Amount[ref[p]]
              /\ counts[p] => ref[p] \in settled

\* A reversal works on a copy of a complete ledger, so that writing the copy
\* back cannot undo another writer's entry.
Reversing ==
    /\ data.reversed => data.total >= Paid
    /\ \A p \in Procs :
         /\ pc[p] = "fresh" => data.total >= Paid
         /\ pc[p] \in {"revoke", "stamp"} =>
              /\ snap[p].ledger \subseteq data.ledger
              /\ snap[p].total = Sum(snap[p].ledger)
              /\ snap[p].total >= Paid

\* The refunds whose notifications need no more work.
Handled == acked \cup {ref[p] : p \in {q \in Procs : pc[q] = "ack"}}

\* As long as nothing is reversed, all that was handled is in the ledger, and
\* it does not add up to the whole payment.
Recorded ==
    /\ data.reversed <=> status = "CANCELED"
    /\ ~data.reversed => Handled \subseteq data.ledger /\ Sum(Handled) < Paid

=============================================================================
