------------------------------ MODULE TrialCheckout ------------------------------
(***************************************************************************)
(* The paid-trial quota of one user: checkouts, free grants, the expiry    *)
(* sweep, the buyer's own abandoning of a checkout, and the provider.      *)
(*                                                                         *)
(* Each paid-trial draft has one claim, which counts against maxClaims     *)
(* while it is RESERVED or CONSUMED.  Checkouts and grants count and write *)
(* claims holding the lock on the user's row; the sweep, abandoning and    *)
(* the webhooks do not take it.  How a payment is fulfilled is in          *)
(* PaymentReconciliation; here delivery is one step, and plan, price and   *)
(* channel are fixed, so that two drafts differ only in their gateway.     *)
(***************************************************************************)
EXTENDS Naturals, FiniteSets

CONSTANTS
    Requests,    \* concurrent checkout and grant requests
    Drafts,      \* transaction drafts that can be created
    Gateways,    \* gateways the buyer may choose
    NoRequest,   \* nobody holds the lock
    NoDraft,     \* a request without a draft
    Scenarios    \* the situations considered, see ScenarioAssumption

ASSUME NobodyAssumption == NoRequest \notin Requests /\ NoDraft \notin Drafts
ASSUME DraftsAssumption == IsFiniteSet(Drafts)
ASSUME GatewayAssumption == Gateways \subseteq {"YOOKASSA", "OTHER"}

Bounds == {"asks", "grants", "crashes"}

\* A scenario fixes the plan's maxClaims, whether the buyer abandons checkouts,
\* and bounds the checkouts and free grants started and the requests that die.
ASSUME ScenarioAssumption ==
    Scenarios \subseteq [maxClaims: Nat \ {0}, abandons: BOOLEAN, bound: [Bounds -> Nat]]

VARIABLES
    scenario, \* the member of Scenarios this behaviour belongs to
    tx,       \* the transaction row of each draft
    claim,    \* the status of each draft's trial claim
    invoice,  \* what the provider holds for each draft
    made,     \* calls to the provider to create each draft's payment
    grants,   \* trials granted for free (claims without a draft)
    late,     \* released claims that a late payment has consumed
    lock,     \* who holds the lock on the user's row
    pc,       \* the next step of each request
    cur,      \* the draft a request works on
    asked,    \* the gateway a request asks for
    answer,   \* the provider's answer to a request
    fresh,    \* requests at work on a draft they have created themselves
    old,      \* drafts older than the checkout lifetime (30 minutes)
    doomed,   \* the draft the sweep, or the buyer, is about to cancel
    spent     \* how much of each bound is used up

vars == <<scenario, tx, claim, invoice, made, grants, late, lock, pc, cur, asked, answer,
          fresh, old, doomed, spent>>

Cancelers == {"sweep", "abandon"}
\* handle stands for gatewayId: "claim" is the provider-creation placeholder.
Rows == [status: {"PENDING", "COMPLETED", "CANCELED", "FAILED"},
         gateway: {"YOOKASSA", "OTHER"}, handle: {"none", "claim", "id"}, url: BOOLEAN]
Absent == [status |-> "ABSENT"]

TypeOK ==
    /\ scenario \in Scenarios
    /\ tx \in [Drafts -> Rows \cup {Absent}]
    /\ claim \in [Drafts -> {"NONE", "RESERVED", "CONSUMED", "RELEASED"}]
    /\ \A d \in Drafts : claim[d] = "NONE" <=> tx[d] = Absent
    /\ invoice \in [Drafts -> {"none", "open", "paid", "dead"}]
    /\ made \in [Drafts -> Nat]
    /\ {grants, late} \subseteq Nat
    /\ lock \in Requests \cup {NoRequest}
    /\ pc \in [Requests -> {"idle", "ensure", "lock", "open", "reserve", "write", "claim",
                            "create", "fail", "record", "settle", "grant"}]
    /\ cur \in [Requests -> Drafts \cup {NoDraft}]
    /\ asked \in [Requests -> Gateways \cup {"none"}]
    /\ answer \in [Requests -> {"none", "open", "paid", "dead", "error"}]
    /\ fresh \in SUBSET Requests
    /\ old \in SUBSET Drafts
    /\ doomed \in [Cancelers -> Drafts \cup {NoDraft}]
    /\ spent \in [Bounds -> Nat]

Init ==
    /\ scenario \in Scenarios
    /\ tx = [d \in Drafts |-> Absent]
    /\ claim = [d \in Drafts |-> "NONE"]
    /\ invoice = [d \in Drafts |-> "none"]
    /\ made = [d \in Drafts |-> 0]
    /\ grants = 0 /\ late = 0
    /\ lock = NoRequest
    /\ pc = [c \in Requests |-> "idle"]
    /\ cur = [c \in Requests |-> NoDraft]
    /\ asked = [c \in Requests |-> "none"]
    /\ answer = [c \in Requests |-> "none"]
    /\ fresh = {} /\ old = {}
    /\ doomed = [k \in Cancelers |-> NoDraft]
    /\ spent = [b \in Bounds |-> 0]

ledger == <<claim, grants, late>>
provider == <<invoice, made>>
request == <<pc, cur, asked, answer, fresh>>
background == <<old, doomed, spent>>

Spend(b) == spent[b] < scenario.bound[b] /\ spent' = [spent EXCEPT ![b] = @ + 1]

Goto(c, step) == pc' = [pc EXCEPT ![c] = step]

\* The request ends.
Return(c) ==
    /\ Goto(c, "idle")
    /\ cur' = [cur EXCEPT ![c] = NoDraft]
    /\ asked' = [asked EXCEPT ![c] = "none"]
    /\ answer' = [answer EXCEPT ![c] = "none"]
    /\ fresh' = fresh \ {c}

------------------------------------------------------------------------------
\* The trial-claim ledger

\* Mutant: only finished trials count against the quota.
MutantCommitted == {"CONSUMED"}

Committed == {"RESERVED", "CONSUMED"}

\* Units that count against the quota, those of some drafts left aside.
Units(ds) == grants + Cardinality({d \in ds : claim[d] \in Committed})

Capacity == Units(Drafts) < scenario.maxClaims

Pending(d) == tx[d].status = "PENDING"

\* Reservations the buyer can still resolve.
Resumable == {d \in Drafts : claim[d] = "RESERVED" /\ Pending(d)}

\* Mutant: the row goes terminal, the claim is left as it is.
MutantRelease(d) == claim' = claim

Release(d) ==
    claim' = [claim EXCEPT ![d] = IF @ = "RESERVED" THEN "RELEASED" ELSE @]

\* A captured payment is never denied its trial.
Consumed(d) == "CONSUMED"

\* Complete the payment and provision the trial.
Deliver(d) ==
    /\ tx' = [tx EXCEPT ![d].status = "COMPLETED"]
    /\ claim' = [claim EXCEPT ![d] = Consumed(d)]
    /\ late' = IF claim[d] = "RELEASED" THEN late + 1 ELSE late

------------------------------------------------------------------------------
\* Checkout: the draft and its reservation

PendingAt(g) == {d \in Drafts : Pending(d) /\ tx[d].gateway = g}

\* Look for a draft to replay, and quote without the lock: the replayed draft's
\* own unit, or else one resumable unit, does not count.
Begin(c, g) ==
    /\ pc[c] = "idle"
    /\ Spend("asks")
    /\ \/ \E d \in PendingAt(g) :
            /\ Units(Drafts \ {d}) < scenario.maxClaims
            /\ cur' = [cur EXCEPT ![c] = d]
            /\ Goto(c, "ensure")
       \/ /\ PendingAt(g) = {}
          /\ Capacity \/ \E d \in Resumable : Units(Drafts \ {d}) < scenario.maxClaims
          /\ Goto(c, "lock")
          /\ UNCHANGED cur
    /\ asked' = [asked EXCEPT ![c] = g]
    /\ UNCHANGED <<scenario, tx, ledger, provider, lock, answer, fresh, old, doomed>>

\* The steps of a request that holds a draft and the user's lock: keep the
\* claim of draft d, or reserve it if the quota allows.
KeepOrReserve(c, d) ==
    IF claim[d] \in {"RESERVED", "CONSUMED"}
    THEN /\ cur' = [cur EXCEPT ![c] = d]
         /\ Goto(c, "claim")
         /\ UNCHANGED <<lock, asked, answer, fresh>>
    ELSE IF Capacity
    THEN /\ cur' = [cur EXCEPT ![c] = d]
         /\ lock' = c
         /\ Goto(c, "reserve")
         /\ UNCHANGED <<asked, answer, fresh>>
    ELSE Return(c) /\ UNCHANGED lock

\* The replayed draft must hold a reservation.
Ensure(c) ==
    /\ pc[c] = "ensure"
    /\ lock = NoRequest
    /\ KeepOrReserve(c, cur[c])
    /\ UNCHANGED <<scenario, tx, ledger, provider, background>>

\* No replay: under the lock, reuse a pending draft or check for room for one.
Lock(c) ==
    /\ pc[c] = "lock"
    /\ lock = NoRequest
    /\ \/ \E d \in PendingAt(asked[c]) : KeepOrReserve(c, d)
       \/ /\ PendingAt(asked[c]) = {}
          /\ IF Capacity
             THEN /\ lock' = c
                  /\ Goto(c, "open")
                  /\ UNCHANGED <<cur, asked, answer, fresh>>
             ELSE Return(c) /\ UNCHANGED lock
    /\ UNCHANGED <<scenario, tx, ledger, provider, background>>

NewRow(g) == [status |-> "PENDING", gateway |-> g, handle |-> "none", url |-> FALSE]

\* Create the draft and its reservation, and release the lock.
Open(c, d) ==
    /\ pc[c] = "open"
    /\ tx[d] = Absent
    /\ tx' = [tx EXCEPT ![d] = NewRow(asked[c])]
    /\ claim' = [claim EXCEPT ![d] = "RESERVED"]
    /\ lock' = NoRequest
    /\ cur' = [cur EXCEPT ![c] = d]
    /\ fresh' = fresh \cup {c}
    /\ Goto(c, "claim")
    /\ UNCHANGED <<scenario, grants, late, provider, asked, answer, background>>

\* reservePaidTrialClaim reads the claim again ...
Reserve(c) ==
    /\ pc[c] = "reserve"
    /\ IF claim[cur[c]] \in {"RESERVED", "CONSUMED"}
       THEN lock' = NoRequest /\ Goto(c, "claim")
       ELSE Goto(c, "write") /\ UNCHANGED lock
    /\ UNCHANGED <<scenario, tx, ledger, provider, cur, asked, answer, fresh, background>>

\* ... and then updates it by its id, whatever it has become.
Write(c) ==
    /\ pc[c] = "write"
    /\ claim' = [claim EXCEPT ![cur[c]] = "RESERVED"]
    /\ lock' = NoRequest
    /\ Goto(c, "claim")
    /\ UNCHANGED <<scenario, tx, grants, late, provider, cur, asked, answer, fresh, background>>

------------------------------------------------------------------------------
\* Checkout: the payment at the provider

\* Mutant: only the payment link tells whether the payment was created.
MutantUnclaimed(d) == Pending(d) /\ ~tx[d].url

Unclaimed(d) == Pending(d) /\ tx[d].handle = "none" /\ ~tx[d].url

\* Claim the creation at the provider with a placeholder, or answer with what
\* the row says.
ClaimCreation(c) ==
    /\ pc[c] = "claim"
    /\ IF Unclaimed(cur[c])
       THEN /\ tx' = [tx EXCEPT ![cur[c]].handle = "claim"]
            /\ Goto(c, "create")
            /\ UNCHANGED <<cur, asked, answer, fresh>>
       ELSE Return(c) /\ UNCHANGED tx
    /\ UNCHANGED <<scenario, ledger, provider, lock, background>>

\* The provider creates a payment page, or charges (or refuses) a saved method
\* at once, which only YooKassa does; or the call fails, perhaps after the page
\* was created.
Create(c, result) ==
    LET d == cur[c] IN
    /\ pc[c] = "create"
    /\ result \in {"paid", "dead"} => tx[d].gateway = "YOOKASSA"
    /\ made' = [made EXCEPT ![d] = @ + 1]
    /\ \E i \in IF result = "error" THEN {"none", "open"} ELSE {result} :
         invoice' = [invoice EXCEPT ![d] = i]
    /\ answer' = [answer EXCEPT ![c] = result]
    /\ Goto(c, IF result = "error" THEN "fail" ELSE "record")
    /\ UNCHANGED <<scenario, tx, ledger, lock, cur, asked, fresh, background>>

\* failClaimedProviderCreation: fail the draft and release its reservation.
Fail(c) ==
    LET d == cur[c] IN
    /\ pc[c] = "fail"
    /\ IF Pending(d) /\ tx[d].handle = "claim"
       THEN /\ tx' = [tx EXCEPT ![d].status = "FAILED", ![d].handle = "none"]
            /\ Release(d)
       ELSE UNCHANGED <<tx, claim>>
    /\ Return(c)
    /\ UNCHANGED <<scenario, grants, late, provider, lock, background>>

\* Record the provider's payment, whatever the row's status is by now.
Record(c) ==
    /\ pc[c] = "record"
    /\ tx' = [tx EXCEPT ![cur[c]].handle = "id", ![cur[c]].url = (answer[c] = "open")]
    /\ IF answer[c] = "open"
       THEN Return(c)
       ELSE Goto(c, "settle") /\ UNCHANGED <<cur, asked, answer, fresh>>
    /\ UNCHANGED <<scenario, ledger, provider, lock, background>>

\* Charged at once: deliver, unless someone else did.  Refused at once: cancel.
Settle(c) ==
    LET d == cur[c] IN
    /\ pc[c] = "settle"
    /\ \/ /\ answer[c] = "paid"
          /\ IF Pending(d) THEN Deliver(d) ELSE UNCHANGED <<tx, claim, late>>
       \/ /\ answer[c] = "dead"
          /\ tx' = [tx EXCEPT ![d].status = "CANCELED"]
          /\ Release(d)
          /\ UNCHANGED late
    /\ Return(c)
    /\ UNCHANGED <<scenario, grants, provider, lock, background>>

------------------------------------------------------------------------------
\* Free grants

\* Count under the lock ...
BeginGrant(c) ==
    /\ pc[c] = "idle"
    /\ Spend("grants")
    /\ lock = NoRequest
    /\ Capacity
    /\ lock' = c
    /\ Goto(c, "grant")
    /\ UNCHANGED <<scenario, tx, ledger, provider, cur, asked, answer, fresh, old, doomed>>

\* ... and create the trial and its consumed claim.
Grant(c) ==
    /\ pc[c] = "grant"
    /\ grants' = grants + 1
    /\ lock' = NoRequest
    /\ Return(c)
    /\ UNCHANGED <<scenario, tx, claim, late, provider, background>>

\* A request dies; an open database transaction of its rolls back.
Crash(c) ==
    /\ pc[c] # "idle"
    /\ Spend("crashes")
    /\ lock' = IF lock = c THEN NoRequest ELSE lock
    /\ Return(c)
    /\ UNCHANGED <<scenario, tx, ledger, provider, old, doomed>>

------------------------------------------------------------------------------
\* The sweep, abandoning, the provider and its webhooks

\* A draft reaches the checkout lifetime of 30 minutes; the request that has
\* created it is over by then.
Age(d) ==
    /\ tx[d] # Absent
    /\ d \notin old
    /\ \A c \in fresh : cur[c] # d
    /\ old' = old \cup {d}
    /\ UNCHANGED <<scenario, tx, ledger, provider, lock, request, doomed, spent>>

\* No verdict can be had from the provider.
LocalTtl(d) == tx[d].gateway # "YOOKASSA" \/ tx[d].handle = "none"

\* The sweep decides on a stale draft: poll YooKassa for a known payment, keep
\* it if it is open or the placeholder stands, deliver it if it is paid, and
\* otherwise go on to cancel it.
Sweep(d) ==
    /\ doomed["sweep"] = NoDraft
    /\ d \in old /\ Pending(d)
    /\ \/ /\ LocalTtl(d) \/ (tx[d].handle = "id" /\ invoice[d] = "dead")
          /\ doomed' = [doomed EXCEPT !["sweep"] = d]
          /\ UNCHANGED <<tx, claim, late>>
       \/ /\ ~LocalTtl(d)
          /\ tx[d].handle = "id" /\ invoice[d] = "paid"
          /\ Deliver(d)
          /\ UNCHANGED doomed
    /\ UNCHANGED <<scenario, grants, provider, lock, request, old, spent>>

\* The buyer abandons a draft: refused once the provider is involved.
Abandon(d) ==
    /\ scenario.abandons
    /\ doomed["abandon"] = NoDraft
    /\ Pending(d) /\ tx[d].handle = "none"
    /\ doomed' = [doomed EXCEPT !["abandon"] = d]
    /\ UNCHANGED <<scenario, tx, ledger, provider, lock, request, old, spent>>

\* Mutant: the row is not looked at again before it is canceled.
MutantStillPending(d) == TRUE

StillPending(d) == Pending(d)

\* Cancel the draft and release its claim in one transaction, if it is still
\* PENDING.
Cancel(k) ==
    LET d == doomed[k] IN
    /\ d # NoDraft
    /\ IF StillPending(d)
       THEN tx' = [tx EXCEPT ![d].status = "CANCELED"] /\ Release(d)
       ELSE UNCHANGED <<tx, claim>>
    /\ doomed' = [doomed EXCEPT ![k] = NoDraft]
    /\ UNCHANGED <<scenario, grants, late, provider, lock, request, old, spent>>

\* The buyer pays the provider's page, or it closes unpaid.
Decide(d) ==
    /\ invoice[d] = "open"
    /\ \E i \in {"paid", "dead"} : invoice' = [invoice EXCEPT ![d] = i]
    /\ UNCHANGED <<scenario, tx, ledger, made, lock, request, background>>

\* The provider reports the payment: a capture always delivers, a refusal
\* cancels a draft that is not terminal.
Webhook(d) ==
    /\ \/ /\ invoice[d] = "paid"
          /\ tx[d].status # "COMPLETED"
          /\ Deliver(d)
       \/ /\ invoice[d] = "dead"
          /\ tx' = IF Pending(d) THEN [tx EXCEPT ![d].status = "CANCELED"] ELSE tx
          /\ Release(d)
          /\ UNCHANGED late
    /\ UNCHANGED <<scenario, grants, provider, lock, request, background>>

------------------------------------------------------------------------------

RequestStep(c) ==
    \/ Ensure(c) \/ Lock(c) \/ \E d \in Drafts : Open(c, d)
    \/ Reserve(c) \/ Write(c) \/ ClaimCreation(c)
    \/ \E result \in {"open", "paid", "dead", "error"} : Create(c, result)
    \/ Fail(c) \/ Record(c) \/ Settle(c) \/ Grant(c)

SweepStep == \E d \in Drafts : Sweep(d)

Next ==
    \/ \E c \in Requests :
         \/ \E g \in Gateways : Begin(c, g)
         \/ RequestStep(c) \/ BeginGrant(c) \/ Crash(c)
    \/ SweepStep \/ \E k \in Cancelers : Cancel(k)
    \/ \E d \in Drafts : Age(d) \/ Abandon(d) \/ Decide(d) \/ Webhook(d)

Spec == Init /\ [][Next]_vars

\* Requests that have begun go on, drafts grow old, the sweep runs, and a page
\* is paid or closes; no webhook need arrive.
Fairness ==
    /\ \A c \in Requests : WF_vars(RequestStep(c))
    /\ \A d \in Drafts : WF_vars(Age(d)) /\ WF_vars(Decide(d))
    /\ WF_vars(SweepStep)
    /\ \A k \in Cancelers : WF_vars(Cancel(k))

FairSpec == Spec /\ Fairness

------------------------------------------------------------------------------
(***************************************************************************)
(* Properties                                                              *)
(***************************************************************************)

\* However checkouts, grants, expiry and payments interleave, the user holds no
\* more trials, reserved or delivered, than the quota allows, but for payments
\* captured after their reservation had been released (lockTrialClaimUser and
\* countCommittedTrialClaimUnits).
QuotaKept == Units(Drafts) <= scenario.maxClaims + late

\* One draft is created at the provider at most once, however often its checkout
\* is replayed (the updateMany on gatewayId and checkoutUrl in checkout).
CreatedOnce == \A d \in Drafts : made[d] <= 1

\* A delivered trial counts against the quota, even one whose reservation had
\* been released before the payment arrived.
DeliveredCounts ==
    \A d \in Drafts : tx[d].status = "COMPLETED" => claim[d] \in {"RESERVED", "CONSUMED"}

\* A delivered trial is never canceled by the sweep or by abandoning: the row's
\* status is checked again in the write.
DeliveredStays ==
    [][\A d \in Drafts :
         tx[d].status = "COMPLETED" => tx'[d].status = "COMPLETED"]_vars

\* The reservation of a pending draft is consumed or released in the end, if no
\* request died holding the placeholder of a creation.  (A replayed checkout may
\* reserve again for a draft that was canceled meanwhile: nothing releases that.)
ReservationSettles ==
    \A d \in Drafts :
        claim[d] = "RESERVED" /\ Pending(d)
            ~> claim[d] # "RESERVED" \/ spent["crashes"] > 0

\* What holds of drafts and claims in every state: their types, one creation at
\* the provider, and that a delivery counts.
DraftsConsistent == TypeOK /\ CreatedOnce /\ DeliveredCounts
=============================================================================
