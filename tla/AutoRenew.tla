------------------------------- MODULE AutoRenew -------------------------------
(***************************************************************************)
(* The auto-renew cycle over one subscription: charge the saved card in    *)
(* the last minutes before the expiry, charge again once it is past due,   *)
(* and mark the subscription EXPIRED when there is nothing left to try.    *)
(*                                                                         *)
(* The attempts of an expiry date are counted from the transactions whose  *)
(* idempotency key carries that date, so nothing but those rows stands     *)
(* between a subscriber and a second charge.  Cycles may overlap: the cron *)
(* fires every minute whatever the last one does, and an operator can run  *)
(* one by hand.  Warnings and batches of several subscriptions are left    *)
(* out.                                                                    *)
(***************************************************************************)
EXTENDS RenewalCheckout

CONSTANTS Cycles, Requests      \* the processes that run each

ASSUME AutoRenewAssumption == Procs = Cycles \cup Requests /\ Nobody \notin Procs

cycleSteps == {"attempt", "scan", "judge", "retry", "after", "expire"}
-----------------------------------------------------------------------------
(* readAttemptState                                                        *)

Attempts(epoch) == {d \in Drafts : Created(d) /\ draft[d].key.epoch = epoch /\ draft[d].key # NoKey}
UsedAttempts(epoch) ==
    CHOOSE n \in 0..MaxAttempts : /\ n = 0 \/ \E d \in Attempts(epoch) : draft[d].key.n = n
                                  /\ \A d \in Attempts(epoch) : draft[d].key.n <= n

\* Any PENDING attempt of the epoch, a lost answer and a 3DS page included, blocks.
Blocks(d) == d.status = "PENDING"

MutantStanding(epoch) == Attempts(epoch) # {}

Standing(epoch) ==
    \E d \in Attempts(epoch) : draft[d].status = "COMPLETED" \/ Blocks(draft[d])

Exhausted(epoch) == UsedAttempts(epoch) >= MaxAttempts
-----------------------------------------------------------------------------
(* One cycle                                                               *)

cycleRest == <<scenario, draft, charge, enabled, lock, stale, dropping, surrendered, unlocked, used>>

At(pc, epoch) == [Idle EXCEPT !.pc = pc, !.key.epoch = epoch]
ToStep(c, pc) == at' = [at EXCEPT ![c] = At(pc, at[c].key.epoch)]
Finish(c) == at' = [at EXCEPT ![c] = Idle]
Charge(c, past) ==
    LET e == at[c].key.epoch IN
    at' = [at EXCEPT ![c] = [Idle EXCEPT !.pc = "lookup", !.saved = TRUE, !.past = past,
                                         !.key = [epoch |-> e, n |-> UsedAttempts(e) + 1]]]

\* processAutopayCharges finds the subscription in the window, or
\* markExpiredSubscriptions finds it past due.
Start(c) ==
    /\ c \in scenario.crew
    /\ at[c] = Idle /\ sub.status = "ACTIVE" /\ sub.phase \in {"window", "past"}
    /\ at' = [at EXCEPT ![c] = At(IF sub.phase = "window" THEN "attempt" ELSE "judge", sub.epoch)]
    /\ UNCHANGED <<cycleRest, sub>>

Attempt(c) ==
    LET e == at[c].key.epoch IN
    /\ at[c].pc = "attempt"
    /\ IF Standing(e) \/ Exhausted(e) \/ ~enabled THEN ToStep(c, "scan") ELSE Charge(c, FALSE)
    /\ UNCHANGED <<cycleRest, sub>>

\* markExpiredSubscriptions of the same cycle.
Scan(c) ==
    /\ at[c].pc = "scan"
    /\ IF sub.status = "ACTIVE" /\ sub.phase = "past"
       THEN at' = [at EXCEPT ![c] = At("judge", sub.epoch)]
       ELSE Finish(c)
    /\ UNCHANGED <<cycleRest, sub>>

\* First pass: nothing left to try, or left to the second pass.
Judge(c) ==
    LET e == at[c].key.epoch IN
    /\ at[c].pc = "judge"
    /\ ToStep(c, IF ~Standing(e) /\ (~enabled \/ Exhausted(e)) THEN "expire" ELSE "retry")
    /\ UNCHANGED <<cycleRest, sub>>

\* Second pass: everything is read again.
Retry(c) ==
    LET e == at[c].key.epoch IN
    /\ at[c].pc = "retry"
    /\ IF Standing(e) THEN Finish(c)
       ELSE IF Exhausted(e) \/ ~enabled THEN ToStep(c, "expire") ELSE Charge(c, TRUE)
    /\ UNCHANGED <<cycleRest, sub>>

\* What the cycle does with the answer of its checkout.
Charged(c) ==
    /\ at[c].pc = "done"
    /\ IF ~at[c].past THEN ToStep(c, "scan")
       ELSE IF at[c].result \in {"COMPLETED", "PENDING"} THEN Finish(c) ELSE ToStep(c, "after")
    /\ UNCHANGED <<cycleRest, sub>>

After(c) ==
    LET e == at[c].key.epoch IN
    /\ at[c].pc = "after"
    /\ IF ~Standing(e) /\ Exhausted(e) THEN ToStep(c, "expire") ELSE Finish(c)
    /\ UNCHANGED <<cycleRest, sub>>

\* The update asks for ACTIVE, not for the expiry date that was read.
Expire(c) ==
    /\ at[c].pc = "expire"
    /\ sub' = IF sub.status = "ACTIVE" THEN [sub EXCEPT !.status = "EXPIRED"] ELSE sub
    /\ Finish(c)
    /\ UNCHANGED cycleRest

CycleStep(c) ==
    \/ Attempt(c) \/ Scan(c) \/ Judge(c) \/ Retry(c) \/ Charged(c) \/ After(c) \/ Expire(c)

\* Time passes.
Advance ==
    /\ sub.epoch <= MaxEpoch /\ sub.phase # "past"
    /\ sub' = [sub EXCEPT !.phase = IF @ = "early" THEN "window" ELSE "past"]
    /\ UNCHANGED <<cycleRest, at>>

Next ==
    \/ \E p \in Procs : CheckoutStep(p)
    \/ \E c \in Cycles : Start(c) \/ CycleStep(c)
    \/ \E p \in Requests : Request(p)
    \/ Environment \/ Advance

Spec == CheckoutInit /\ [][Next]_checkoutVars

\* The processes run and the cron fires; notifications, the sweep, the end of an
\* open payment and the passing of time, finitely many in all, come in the end.
Fairness ==
    /\ \A p \in Procs : WF_checkoutVars(CheckoutStep(p) \/ (p \in Cycles /\ (Start(p) \/ CycleStep(p))))
    /\ WF_checkoutVars(Drop \/ Advance
           \/ \E d \in Drafts : Confirm(d) \/ Notify(d) \/ Age(d) \/ SweepRead(d))

FairSpec == Spec /\ Fairness
-----------------------------------------------------------------------------
(* Properties                                                              *)

TypeOK ==
    /\ scenario \in Scenarios
    /\ sub \in [status : {"ACTIVE", "EXPIRED"}, epoch : Epochs, phase : {"early", "window", "past"}]
    /\ draft \in [Drafts -> Draft \cup {NoDraft}]
    /\ charge \in [Drafts -> {"none", "open", "paid", "dead"}]
    /\ enabled \in BOOLEAN /\ lock \in Procs \cup {Nobody}
    /\ at \in [Procs -> [pc : CheckoutSteps \cup cycleSteps \cup {"idle"}, key : Keys, saved : BOOLEAN,
                         past : BOOLEAN, draft : 0..MaxDrafts, answer : {"none", "open", "paid", "dead"},
                         result : {"none", "error", "PENDING", "COMPLETED", "CANCELED", "FAILED"}]]
    /\ stale \subseteq Drafts /\ surrendered \subseteq Drafts /\ unlocked \subseteq Drafts
    /\ dropping \in 0..MaxDrafts /\ used \in [Counters -> Nat]

Charging(d) == charge[d] \in {"open", "paid"}

\* An expiry date is charged at most once, however many cycles overlap, crash or
\* lose the provider's answer; only an attempt that the sweep or the buyer gave
\* up while it was being claimed does not count.
ChargedOnce ==
    \A d, e \in Drafts :
        d # e /\ Charging(d) /\ Charging(e) /\ draft[d].key # NoKey /\ draft[e].key # NoKey
        /\ draft[d].key.epoch = draft[e].key.epoch
        => {d, e} \cap surrendered # {}

\* The saved card is charged while its owner has autopay on, unless the lock of
\* its row timed out under the request.
ConsentKept ==
    [][\A d \in Drafts : charge[d] = "none" /\ charge'[d] # "none" /\ draft[d].saved
                         => enabled \/ d \in unlocked]_checkoutVars

Owed == \E d \in Drafts : charge[d] = "paid" /\ Created(d) /\ ~draft[d].fulfilled

\* Money the provider took renews the subscription, even for a row that was
\* given up, failed in provisioning or lost its answer.
PaidIsRenewed == Owed ~> ~Owed

\* A placeholder whose request never reached the provider: nothing settles it.
Stuck(d) == Created(d) /\ draft[d].gate = "claim" /\ charge[d] = "none" /\ ~Working(d)

\* A subscription does not stay ACTIVE past its expiry: it is renewed or
\* expires, unless a lost request or a refused price holds it up.
PastDueSettles ==
    (sub.status = "ACTIVE" /\ sub.phase = "past")
        ~> (sub.status = "EXPIRED" \/ sub.phase # "past" \/ scenario.refuses
            \/ \E d \in Drafts : Stuck(d))
=============================================================================
