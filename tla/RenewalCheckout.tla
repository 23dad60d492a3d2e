---------------------------- MODULE RenewalCheckout ----------------------------
(***************************************************************************)
(* Charging for the renewal of one subscription.                           *)
(*                                                                         *)
(* A checkout looks for the draft of its idempotency key, reuses a pending *)
(* draft of the same composition or creates one, claims it by writing a    *)
(* placeholder where the provider's id goes, and only then asks the        *)
(* provider.  What happens to the placeholder is the whole design: a       *)
(* request that may have reached the provider keeps it for good, so that   *)
(* nobody charges a second time.                                           *)
(*                                                                         *)
(* The saved card is charged off-session under a lock of its row; a user   *)
(* may also renew by hand, with the card or on the provider's page.  What  *)
(* a paid renewal does is one step here (PaymentReconciliation and         *)
(* FulfilmentClaim have its details).  Prices, add-on lines, zero totals   *)
(* and renewals of several subscriptions at once are left out.             *)
(***************************************************************************)
EXTENDS Integers, FiniteSets

CONSTANTS
    Procs,         \* cycles and requests under way
    MaxDrafts,     \* bound on the transactions
    MaxEpoch,      \* bound on the expiry dates that come near
    MaxAttempts,   \* MAX_AUTOPAY_ATTEMPTS (3)
    Scenarios      \* bounds: [crew, requests, toggles, giveups, faults, crashes, refuses]

ASSUME RenewalAssumption ==
    MaxDrafts \in Nat /\ MaxEpoch \in Nat \ {0} /\ MaxAttempts \in Nat \ {0}

VARIABLES
    scenario,      \* the bounds, chosen once
    sub,           \* Subscription: [status, epoch, phase]; the epoch stands for expiresAt,
                   \* the phase for the time left: "early", "window" (5 minutes) or "past"
    draft,         \* Transaction rows, NoDraft if not created
    charge,        \* the provider's payment of each draft
    enabled,       \* the saved card may be charged (bound, autopay on)
    lock,          \* who holds the lock of the card's row
    at,            \* where each process is
    stale,         \* drafts past their lifetime
    dropping,      \* the draft the sweep or the buyer has decided to give up, or 0
    surrendered,   \* history: drafts given up after they were claimed
    unlocked,      \* history: drafts whose lock timed out during the request
    used           \* how much of each bound is used up

checkoutVars == <<scenario, sub, draft, charge, enabled, lock, at, stale, dropping,
                  surrendered, unlocked, used>>

Drafts == 1..MaxDrafts
Nobody == "nobody"
NoDraft == [status |-> "NONE"]
NoKey == [epoch |-> 0, n |-> 0]
Epochs == 1..MaxEpoch + MaxDrafts
Keys == [epoch : 0..MaxEpoch + MaxDrafts, n : 0..MaxAttempts]
Draft == [status : {"PENDING", "COMPLETED", "CANCELED", "FAILED"}, key : Keys, saved : BOOLEAN,
          gate : {"none", "claim", "real"}, url : BOOLEAN, fulfilled : BOOLEAN]

Counters == {"requests", "toggles", "giveups", "faults", "crashes"}
Use(c) == used[c] < scenario[c] /\ used' = [used EXCEPT ![c] = @ + 1]
Fault == Use("faults")
NoFault == UNCHANGED used

Idle == [pc |-> "idle", key |-> NoKey, saved |-> FALSE, past |-> FALSE, draft |-> 0,
         answer |-> "none", result |-> "none"]
CheckoutSteps == {"lookup", "draft", "create", "claim", "lock", "submit", "persist", "void",
                  "settle", "done"}
Working(d) == \E p \in Procs : at[p].draft = d /\ at[p].pc \in CheckoutSteps \ {"done"}

Created(d) == draft[d] # NoDraft
Free == {d \in Drafts : ~Created(d)}
FirstFree == CHOOSE d \in Free : \A e \in Free : d <= e
Keyed(key) == {d \in Drafts : Created(d) /\ key # NoKey /\ draft[d].key = key}
-----------------------------------------------------------------------------
(* One checkout                                                            *)

Goto(p, pc) == at' = [at EXCEPT ![p].pc = pc]
Answer(p, result) ==      \* a user's process ends with it, a cycle goes on
    at' = [at EXCEPT ![p] = IF @.key = NoKey THEN Idle
               ELSE [@ EXCEPT !.pc = "done", !.result = result, !.draft = 0, !.answer = "none"]]
With(p, d, pc) == at' = [at EXCEPT ![p].draft = d, ![p].pc = pc]

rest == <<scenario, enabled, stale, dropping, surrendered, unlocked>>

\* A keyed draft is replayed; one that is pending without a page is unresolved.
Replay(p, d) ==
    Answer(p, IF draft[d].status = "PENDING" /\ ~draft[d].url THEN "error" ELSE draft[d].status)

\* The key is looked up before and after the price; a price may be refused (the
\* plan is gone, renewals are closed, the gateway is off).
Lookup(p) ==
    /\ at[p].pc = "lookup"
    /\ IF Keyed(at[p].key) # {} THEN \E d \in Keyed(at[p].key) : Replay(p, d)
       ELSE IF scenario.refuses THEN Answer(p, "error") ELSE Goto(p, "draft")
    /\ UNCHANGED <<rest, sub, draft, charge, lock, used>>

\* findExistingPendingDraft: the newest pending draft of the same composition,
\* whatever its key.
Reusable(saved) == {d \in Drafts : Created(d) /\ draft[d].status = "PENDING" /\ draft[d].saved = saved}

Draw(p) ==
    LET known == Keyed(at[p].key)
        same == Reusable(at[p].saved)
    IN /\ at[p].pc = "draft"
       /\ IF known # {} THEN \E d \in known : Replay(p, d)
          ELSE IF same = {} THEN Goto(p, "create")
          ELSE \E d \in same : /\ \A e \in same : e <= d
                              /\ IF draft[d].url THEN Answer(p, "PENDING") ELSE With(p, d, "claim")
       /\ UNCHANGED <<rest, sub, draft, charge, lock, used>>

\* createCombinedDraft: the key is unique for the user; who comes second replays.
Create(p) ==
    /\ at[p].pc = "create"
    /\ IF Keyed(at[p].key) # {}
       THEN (\E d \in Keyed(at[p].key) : Replay(p, d)) /\ UNCHANGED draft
       ELSE /\ Free # {}
            /\ draft' = [draft EXCEPT ![FirstFree] =
                  [status |-> "PENDING", key |-> at[p].key, saved |-> at[p].saved,
                   gate |-> "none", url |-> FALSE, fulfilled |-> FALSE]]
            /\ With(p, FirstFree, "claim")
    /\ UNCHANGED <<rest, sub, charge, lock, used>>

\* The conditional update that writes the placeholder.
Claimable(d) == d.status = "PENDING" /\ d.gate = "none" /\ ~d.url

Claim(p) ==
    LET d == at[p].draft IN
    /\ at[p].pc = "claim"
    /\ IF Claimable(draft[d])
       THEN /\ draft' = [draft EXCEPT ![d].gate = "claim"]
            /\ Goto(p, IF draft[d].saved THEN "lock" ELSE "submit")
       ELSE /\ Answer(p, IF draft[d].url \/ draft[d].gate = "real" THEN draft[d].status ELSE "error")
            /\ UNCHANGED draft
    /\ UNCHANGED <<rest, sub, charge, lock, used>>

\* assertChargeableMethod
Chargeable(on) == on

MutantReleases(started) == TRUE

\* A failure closes the attempt only if the provider was not asked.
Releases(started) == ~started

CloseAttempt(d, started) ==
    draft' = IF Releases(started) /\ draft[d].status = "PENDING" /\ draft[d].gate = "claim"
             THEN [draft EXCEPT ![d].status = "FAILED", ![d].gate = "none"] ELSE draft

\* withActiveForCharge.  Before the provider was asked a failure is certain, and
\* failClaimedProviderCreation closes the attempt.
Lock(p) ==
    LET d == at[p].draft IN
    /\ at[p].pc = "lock" /\ lock = Nobody
    /\ IF Chargeable(enabled)
       THEN lock' = p /\ Goto(p, "submit") /\ UNCHANGED draft
       ELSE CloseAttempt(d, FALSE) /\ Answer(p, "error") /\ UNCHANGED lock
    /\ UNCHANGED <<rest, sub, charge, used>>

\* The provider charges the card, refuses it or asks for a confirmation; the page
\* of an interactive payment stays open.  The payment id is the provider's
\* idempotency key.  Without a proper answer, or when the lock is gone before the
\* answer is there, nobody knows what happened.
Outcomes(d) == IF charge[d] # "none" THEN {charge[d]}
               ELSE IF draft[d].saved THEN {"paid", "open", "dead"} ELSE {"open"}
Released(p) == IF lock = p THEN Nobody ELSE lock

Submit(p) ==
    LET d == at[p].draft IN
    /\ at[p].pc = "submit"
    /\ \/ /\ draft[d].saved => lock = p
          /\ \E c \in Outcomes(d) :
               /\ charge' = [charge EXCEPT ![d] = c]
               /\ at' = [at EXCEPT ![p].pc = "persist", ![p].answer = c]
          /\ UNCHANGED <<draft, used>>
       \/ /\ \E c \in Outcomes(d) \cup {charge[d]} : charge' = [charge EXCEPT ![d] = c]
          /\ Answer(p, "error") /\ CloseAttempt(d, TRUE)
          /\ IF draft[d].saved /\ lock # p THEN UNCHANGED used ELSE Fault
    /\ lock' = Released(p)
    /\ UNCHANGED <<rest, sub>>

\* CHARGE_LOCK_TIMEOUT_MS (30 s) passes before the request is answered or given
\* up (45 s): the lock goes, the request goes on.
LockExpires(p) ==
    /\ at[p].pc = "submit" /\ lock = p
    /\ Fault
    /\ lock' = Nobody /\ unlocked' = unlocked \cup {at[p].draft}
    /\ UNCHANGED <<scenario, sub, draft, charge, enabled, at, stale, dropping, surrendered>>

\* The provider's id replaces the placeholder.
Persist(p) ==
    LET d == at[p].draft IN
    /\ at[p].pc = "persist"
    /\ draft' = [draft EXCEPT ![d].gate = "real", ![d].url = at[p].answer = "open"]
    /\ CASE at[p].answer = "dead" -> Goto(p, "void")
         [] at[p].answer = "paid" -> Goto(p, "settle")
         [] OTHER -> Answer(p, draft[d].status)
    /\ UNCHANGED <<rest, sub, charge, lock, used>>

\* A refused charge cancels the draft; a revoked permission switches autopay off.
Void(p) ==
    /\ at[p].pc = "void" /\ lock = Nobody
    /\ draft' = [draft EXCEPT ![at[p].draft].status = "CANCELED"]
    /\ enabled' \in {enabled, FALSE}
    /\ Answer(p, "CANCELED")
    /\ UNCHANGED <<scenario, stale, dropping, surrendered, unlocked, sub, charge, lock, used>>

Renewed == [status |-> "ACTIVE", epoch |-> sub.epoch + 1, phase |-> "early"]
Delivered(d) == [draft EXCEPT ![d].status = "COMPLETED", ![d].fulfilled = TRUE]

\* A charge that went through is delivered at once, if no other path claimed it;
\* provisioning may fail, which leaves the row to the webhook.
Settle(p) ==
    LET d == at[p].draft IN
    /\ at[p].pc = "settle"
    /\ \/ /\ draft[d].status = "PENDING"
          /\ draft' = Delivered(d) /\ sub' = Renewed
          /\ Answer(p, "COMPLETED") /\ UNCHANGED used
       \/ /\ draft[d].status = "PENDING" /\ Fault
          /\ draft' = [draft EXCEPT ![d].status = "COMPLETED"]
          /\ Answer(p, "error") /\ UNCHANGED sub
       \/ /\ draft[d].status # "PENDING"
          /\ Answer(p, IF draft[d].fulfilled THEN "COMPLETED" ELSE "PENDING")
          /\ UNCHANGED <<draft, sub, used>>
    /\ UNCHANGED <<rest, charge, lock>>

CheckoutStep(p) ==
    \/ Lookup(p) \/ Draw(p) \/ Create(p) \/ Claim(p) \/ Lock(p) \/ Submit(p)
    \/ Persist(p) \/ Void(p) \/ Settle(p)
-----------------------------------------------------------------------------
(* The provider, its notifications, the sweep and the user                 *)

working == <<scenario, enabled, lock, at, unlocked>>

\* The buyer confirms an open payment, or lets it expire.
Confirm(d) ==
    /\ charge[d] = "open"
    /\ \E c \in {"paid", "dead"} : charge' = [charge EXCEPT ![d] = c]
    /\ UNCHANGED <<working, sub, draft, stale, dropping, surrendered, used>>

MutantRevives(status) == status \in {"PENDING", "COMPLETED"}

\* A capture is delivered whatever became of the row (reconciliation revives it).
Revives(status) == status # "NONE"

Notify(d) ==
    /\ Created(d)
    /\ \/ /\ charge[d] = "paid" /\ ~draft[d].fulfilled /\ Revives(draft[d].status)
          /\ draft' = [Delivered(d) EXCEPT ![d].gate = "real"] /\ sub' = Renewed
       \/ /\ charge[d] = "dead" /\ draft[d].status = "PENDING"
          /\ draft' = [draft EXCEPT ![d].status = "CANCELED", ![d].gate = "real"]
          /\ UNCHANGED sub
    /\ UNCHANGED <<working, charge, stale, dropping, surrendered, used>>

\* CHECKOUT_LIFETIME passes; no request of the draft is under way that long, and a
\* placeholder's age is of no account.
Age(d) ==
    /\ Created(d) /\ draft[d].status = "PENDING" /\ draft[d].gate # "claim"
    /\ d \notin stale /\ ~Working(d)
    /\ stale' = stale \cup {d}
    /\ UNCHANGED <<working, sub, draft, charge, dropping, surrendered, used>>

\* isProviderTerminal: a placeholder is kept, an open payment too; a paid one is
\* delivered; a dead one, and a row that never met the provider, are to be dropped.
SweepRead(d) ==
    /\ d \in stale /\ draft[d].status = "PENDING" /\ dropping = 0
    /\ \/ /\ draft[d].gate = "none" \/ (draft[d].gate = "real" /\ charge[d] = "dead")
          /\ dropping' = d /\ UNCHANGED <<sub, draft>>
       \/ /\ draft[d].gate = "real" /\ charge[d] = "paid"
          /\ draft' = Delivered(d) /\ sub' = Renewed /\ UNCHANGED dropping
    /\ UNCHANGED <<working, charge, stale, surrendered, used>>

\* abandonPendingCheckout: the buyer gives up a draft that never met the provider.
Abandon(d) ==
    /\ Created(d) /\ draft[d].status = "PENDING" /\ draft[d].gate = "none" /\ dropping = 0
    /\ Use("giveups")
    /\ dropping' = d
    /\ UNCHANGED <<working, sub, draft, charge, stale, surrendered>>

\* The cancelling update looks at the status only: what was read of the
\* provider may have changed.
Drop ==
    LET d == dropping IN
    /\ d # 0
    /\ draft' = IF draft[d].status = "PENDING" THEN [draft EXCEPT ![d].status = "CANCELED"] ELSE draft
    /\ surrendered' = IF draft[d].gate = "claim" \/ charge[d] \in {"open", "paid"}
                      THEN surrendered \cup {d} ELSE surrendered
    /\ dropping' = 0
    /\ UNCHANGED <<working, sub, charge, stale, used>>

MutantDecidable == TRUE

\* Switching autopay off or on waits for the card's lock.
Decidable == lock = Nobody

Toggle ==
    /\ Decidable
    /\ Use("toggles")
    /\ enabled' = ~enabled
    /\ UNCHANGED <<scenario, lock, at, unlocked, sub, draft, charge, stale, dropping, surrendered>>

\* The user renews by hand, with the saved card or on the provider's page.
Request(p) ==
    /\ at[p] = Idle /\ sub.status = "ACTIVE" /\ Use("requests")
    /\ \E saved \in BOOLEAN : at' = [at EXCEPT ![p].pc = "lookup", ![p].saved = saved]
    /\ UNCHANGED <<scenario, enabled, lock, unlocked, sub, draft, charge, stale, dropping, surrendered>>

Crash(p) ==
    /\ at[p] # Idle /\ Use("crashes")
    /\ at' = [at EXCEPT ![p] = Idle] /\ lock' = Released(p)
    /\ UNCHANGED <<scenario, enabled, unlocked, sub, draft, charge, stale, dropping, surrendered>>

CheckoutInit ==
    /\ scenario \in Scenarios
    /\ sub = [status |-> "ACTIVE", epoch |-> 1, phase |-> "early"]
    /\ draft = [d \in Drafts |-> NoDraft] /\ charge = [d \in Drafts |-> "none"]
    /\ enabled = TRUE /\ lock = Nobody
    /\ at = [p \in Procs |-> Idle]
    /\ stale = {} /\ dropping = 0 /\ surrendered = {} /\ unlocked = {}
    /\ used = [c \in Counters |-> 0]

Environment ==
    \/ \E d \in Drafts : Confirm(d) \/ Notify(d) \/ Age(d) \/ SweepRead(d) \/ Abandon(d)
    \/ Drop \/ Toggle
    \/ \E p \in Procs : LockExpires(p) \/ Crash(p)
=============================================================================
