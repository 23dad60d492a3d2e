---------------------------- MODULE AutoRenew_proof ----------------------------
(***************************************************************************)
(* What holds of the auto-renew cycles and the checkouts they make for any *)
(* number of processes, drafts and attempts: an expiry date is charged     *)
(* once, and the saved card only while its owner has autopay on.           *)
(*                                                                         *)
(* The argument is about attempts that are over: given up, canceled or     *)
(* failed with no payment that may still go through.  A cycle that has     *)
(* found all attempts over takes the next number, so that two cycles that  *)
(* have read the same rows take the same one, and the second of them finds *)
(* the draft of the first.  An attempt that is over stays over: that is    *)
(* what the placeholder is for.                                            *)
(*                                                                         *)
(* First what each action does to the processes and to the drafts; then    *)
(* what each process knows of its draft, the numbering of the attempts,    *)
(* the count of the renewals and the lock of the card, one after another.  *)
(***************************************************************************)
EXTENDS AutoRenew, FiniteSetTheorems, WellFoundedInduction, TLAPS

\* Steps with a draft; the two between the placeholder and the provider; the steps
\* before there is a draft; and the steps outside a checkout.
OnDraft == {"claim", "lock", "submit", "persist", "void", "settle"}
Claiming == {"lock", "submit"}
Choosing == {"lookup", "draft", "create"}
Outside == cycleSteps \cup {"done", "idle"}

\* The records of processes.
Process == [pc : CheckoutSteps \cup cycleSteps \cup {"idle"}, key : Keys, saved : BOOLEAN,
            past : BOOLEAN, draft : 0..MaxDrafts, answer : {"none", "open", "paid", "dead"},
            result : {"none", "error", "PENDING", "COMPLETED", "CANCELED", "FAILED"}]

\* An attempt that is over lets the next one be made.
Over(d) == d \in surrendered \/ draft[d].status \in {"CANCELED", "FAILED"}

\* The attempts at an expiry date are numbered up to m.
Top(e, m) ==
    /\ m \in 0..MaxAttempts
    /\ m = 0 \/ \E d \in Attempts(e) : draft[d].key.n = m
    /\ \A d \in Attempts(e) : draft[d].key.n <= m

\* The invariant.  What holds of each draft: without a placeholder nothing was asked
\* of the provider, and an id is that of a payment; a completed draft is paid; one
\* that is over was given up, was refused or never met the provider.
DraftOf(d) ==
    /\ ~Created(d) => charge[d] = "none"
    /\ Created(d) =>
         /\ draft[d].gate = "none" => charge[d] = "none"
         /\ draft[d].gate = "real" => charge[d] # "none"
         /\ draft[d].status = "COMPLETED" => charge[d] = "paid"
         /\ draft[d].fulfilled => draft[d].status = "COMPLETED"
         /\ draft[d].status \in {"CANCELED", "FAILED"} /\ d \notin surrendered =>
              charge[d] = "dead" \/ draft[d].gate = "none"

\* What a process knows of its draft: behind the placeholder it has the draft to
\* itself, and after the answer the payment is what the provider said.
DraftKnown(p) ==
    /\ at[p].pc \in OnDraft => at[p].draft \in Drafts /\ Created(at[p].draft)
    /\ at[p].pc \in Claiming =>
         draft[at[p].draft].gate = "claim" /\ charge[at[p].draft] = "none"
    /\ at[p].pc = "persist" =>
         /\ charge[at[p].draft] # "none"
         /\ at[p].answer \in {"paid", "dead"} => charge[at[p].draft] = at[p].answer
    /\ at[p].pc = "void" => charge[at[p].draft] = "dead"
    /\ at[p].pc = "settle" => charge[at[p].draft] = "paid"

\* A cycle knows which expiry date it is about.
KeyKnown(p) ==
    /\ at[p].key # NoKey => at[p].key.epoch \in Epochs
    /\ at[p].pc \in Outside \ {"idle"} => at[p].key # NoKey

\* One request at a time is between the placeholder and the provider.
OneClaimer ==
    \A p, q \in Procs :
        at[p].pc \in Claiming /\ at[q].pc \in Claiming /\ at[p].draft = at[q].draft => p = q

Facts ==
    /\ \A d \in Drafts : DraftOf(d)
    /\ \A p \in Procs : DraftKnown(p) /\ KeyKnown(p)
    /\ OneClaimer

\* A cycle with a number nobody has used: the attempts before it are all over, and
\* it is the next number.
Fresh(p) == at[p].pc \in Choosing /\ at[p].key # NoKey /\ Keyed(at[p].key) = {}
NextNumber(p) ==
    Fresh(p) => /\ Top(at[p].key.epoch, at[p].key.n - 1)
                /\ \A d \in Attempts(at[p].key.epoch) : Over(d)

\* A draft that is an attempt at some expiry date.
Numbered(d) == Created(d) /\ draft[d].key # NoKey

\* Of two attempts at one expiry date, one is over.
OneLive ==
    \A c, d \in Drafts :
        c # d /\ Numbered(c) /\ Numbered(d) /\ draft[c].key.epoch = draft[d].key.epoch
        => Over(c) \/ Over(d)

Numbering ==
    /\ OneLive
    /\ \A e \in Epochs : \E m \in 0..MaxAttempts : Top(e, m)
    /\ \A p \in Procs : NextNumber(p)

\* Each renewal has moved the expiry date once.
Renewals == {d \in Drafts : Created(d) /\ draft[d].fulfilled}
Counted == sub.epoch = 1 + Cardinality(Renewals)

\* Whoever holds the card's lock has found autopay on, and the saved card is charged
\* under that lock.
Locked(p) ==
    at[p].pc = "submit" /\ draft[at[p].draft].saved => lock = p \/ at[p].draft \in unlocked
LockKnown ==
    /\ lock # Nobody => enabled
    /\ \A p \in Procs : Locked(p)

Inv == TypeOK /\ Facts /\ Numbering /\ Counted /\ LockKnown

------------------------------------------------------------------------------
(***************************************************************************)
(* What the actions do.                                                    *)
(***************************************************************************)

\* The processes are typed.
AtOK == at \in [Procs -> Process]

\* The drafts are typed.
DraftsOK ==
    /\ draft \in [Drafts -> Draft \cup {NoDraft}]
    /\ charge \in [Drafts -> {"none", "open", "paid", "dead"}]

\* The rest is typed, but for the subscription.
RestOK ==
    /\ scenario \in Scenarios
    /\ enabled \in BOOLEAN /\ lock \in Procs \cup {Nobody}
    /\ stale \subseteq Drafts /\ surrendered \subseteq Drafts /\ unlocked \subseteq Drafts
    /\ dropping \in 0..MaxDrafts /\ used \in [Counters -> Nat]

\* The subscription is typed.
SubOK ==
    sub \in [status : {"ACTIVE", "EXPIRED"}, epoch : Epochs, phase : {"early", "window", "past"}]

\* The type invariant in its parts.
LEMMA TypeParts == TypeOK <=> AtOK /\ DraftsOK /\ RestOK /\ SubOK
  BY DEF TypeOK, AtOK, DraftsOK, RestOK, SubOK, Process

\* The constants are numbers, and drafts are told from their absence.
LEMMA Numbers ==
  /\ MaxDrafts \in Nat /\ MaxEpoch \in Nat /\ MaxEpoch > 0 /\ MaxAttempts \in Nat
  /\ Drafts \subseteq Nat /\ 0 \notin Drafts /\ Drafts \subseteq 0..MaxDrafts /\ 0 \in 0..MaxDrafts
  /\ NoKey \in Keys /\ NoKey.epoch = 0 /\ NoDraft \notin Draft
  BY RenewalAssumption DEF Drafts, Keys, NoKey, NoDraft, Draft

\* A process that does not move; only process p moves; no process moves.
Same(q) == at'[q] = at[q]
Others(p) == AtOK' /\ \A q \in Procs : q # p => Same(q)
Quiet == AtOK' /\ \A q \in Procs : Same(q)

\* The process goes on to the step with all it had.
Goes(p, step) ==
    /\ Others(p) /\ at'[p].pc = step
    /\ at'[p].key = at[p].key /\ at'[p].draft = at[p].draft /\ at'[p].saved = at[p].saved

\* The process takes a draft and goes on to claim it.
Turns(p, d) == Others(p) /\ at'[p].pc = "claim" /\ at'[p].key = at[p].key /\ at'[p].draft = d

\* The process leaves the checkout.
Leaves(p) ==
    /\ Others(p) /\ at'[p].pc \in Outside
    /\ at'[p].key # NoKey => at'[p].key.epoch \in Epochs
    /\ at'[p].pc # "idle" => at'[p].key # NoKey

\* A process gets another record.
LEMMA Moving ==
  ASSUME AtOK, NEW p \in Procs, NEW r \in Process, at' = [at EXCEPT ![p] = r]
  PROVE  Others(p) /\ at'[p] = r
  BY DEF AtOK, Others, Same

\* A step outside the processes.
LEMMA Unmoved ==
  ASSUME AtOK, UNCHANGED at
  PROVE  Quiet
  BY DEF AtOK, Quiet, Same

\* A step by Goto.
LEMMA Going ==
  ASSUME AtOK, NEW p \in Procs, NEW step \in CheckoutSteps, Goto(p, step)
  PROVE  Goes(p, step)
<1> DEFINE r == [at[p] EXCEPT !.pc = step]
<1>1. at' = [at EXCEPT ![p] = r]
  BY DEF Goto, AtOK
<1>2. /\ r \in Process /\ r.pc = step /\ r.key = at[p].key /\ r.draft = at[p].draft
      /\ r.saved = at[p].saved
  BY DEF AtOK, Process
<1> HIDE DEF r
<1>3. QED
  BY <1>1, <1>2, Moving DEF Goes

\* A step by With.
LEMMA Turning ==
  ASSUME AtOK, NEW p \in Procs, NEW d \in Drafts, With(p, d, "claim")
  PROVE  Turns(p, d)
<1> DEFINE r == [at[p] EXCEPT !.draft = d, !.pc = "claim"]
<1>1. at' = [at EXCEPT ![p] = r]
  BY DEF With, AtOK
<1>2. r \in Process /\ r.pc = "claim" /\ r.key = at[p].key /\ r.draft = d
  BY Numbers DEF AtOK, Process, CheckoutSteps
<1> HIDE DEF r
<1>3. QED
  BY <1>1, <1>2, Moving DEF Turns

\* The record of a process that has ended.
LEMMA Resting == Idle \in Process /\ Idle.pc = "idle" /\ Idle.key = NoKey /\ "idle" \in Outside
  BY Numbers DEF Idle, Process, Outside

\* A process becomes idle.
LEMMA Ending ==
  ASSUME AtOK, NEW p \in Procs, at' = [at EXCEPT ![p] = Idle]
  PROVE  Leaves(p)
  BY Moving, Resting DEF Leaves

\* An answer ends the process of a user, and takes a cycle back to its own steps.
LEMMA Answering ==
  ASSUME AtOK, NEW p \in Procs, KeyKnown(p),
         NEW result \in {"none", "error", "PENDING", "COMPLETED", "CANCELED", "FAILED"},
         Answer(p, result)
  PROVE  Leaves(p)
<1> DEFINE r == [at[p] EXCEPT !.pc = "done", !.result = result, !.draft = 0, !.answer = "none"]
<1>1. CASE at[p].key = NoKey
  <2>1. at' = [at EXCEPT ![p] = Idle]
    BY <1>1 DEF Answer, AtOK
  <2>2. QED
    BY <2>1, Ending
<1>2. CASE at[p].key # NoKey
  <2>1. at' = [at EXCEPT ![p] = r]
    BY <1>2 DEF Answer, AtOK
  <2>2. r \in Process /\ r.pc = "done" /\ r.key = at[p].key /\ "done" \in Outside
    BY Numbers DEF AtOK, Process, CheckoutSteps, Outside
  <2> HIDE DEF r
  <2>3. QED
    BY <1>2, <2>1, <2>2, Moving DEF Leaves, KeyKnown
<1>3. QED
  BY <1>1, <1>2

\* A cycle goes on to another of its own steps.
LEMMA Stepping ==
  ASSUME AtOK, NEW p \in Procs, NEW step \in cycleSteps, NEW e \in Epochs,
         at' = [at EXCEPT ![p] = At(step, e)]
  PROVE  Leaves(p)
<1>1. /\ At(step, e) \in Process /\ At(step, e).pc = step
      /\ At(step, e).key = [epoch |-> e, n |-> 0]
  <2>1. At(step, e) = [Idle EXCEPT !.pc = step, !.key = [epoch |-> e, n |-> 0]]
    <3>1. At(step, e) = [Idle EXCEPT !.pc = step, !.key = [Idle.key EXCEPT !.epoch = e]]
      BY Resting DEF At, Process, Keys
    <3>2. [Idle.key EXCEPT !.epoch = e] = [epoch |-> e, n |-> 0]
      BY Resting DEF NoKey
    <3>3. QED
      BY <3>1, <3>2
  <2>2. [epoch |-> e, n |-> 0] \in Keys
    BY Numbers DEF Keys, Epochs
  <2>3. QED
    BY <2>1, <2>2, Resting DEF Process
<1>2. step \in Outside /\ [epoch |-> e, n |-> 0] # NoKey /\ [epoch |-> e, n |-> 0].epoch = e
  BY DEF Outside, NoKey, Epochs
<1>3. QED
  BY <1>1, <1>2, Moving DEF Leaves

\* No draft changes; no draft but d changes.
Kept == DraftsOK' /\ \A e \in Drafts : draft'[e] = draft[e] /\ charge'[e] = charge[e]
OtherDrafts(d) ==
    DraftsOK' /\ \A e \in Drafts : e # d => draft'[e] = draft[e] /\ charge'[e] = charge[e]

\* The row of a draft is written.
Writes(d, status, gate, fulfilled) ==
    /\ OtherDrafts(d) /\ Created(d) /\ draft'[d] # NoDraft
    /\ draft'[d].status = status /\ draft'[d].gate = gate /\ draft'[d].fulfilled = fulfilled
    /\ draft'[d].key = draft[d].key /\ draft'[d].saved = draft[d].saved
    /\ charge'[d] = charge[d]

\* The provider's payment of a draft changes.
Pays(d, c) ==
    /\ OtherDrafts(d) /\ Created(d) /\ draft'[d] = draft[d] /\ charge'[d] = c

\* A step that leaves the drafts alone.
LEMMA Keeping ==
  ASSUME DraftsOK, UNCHANGED <<draft, charge>>
  PROVE  Kept
  BY DEF DraftsOK, Kept

\* A draft gets another row.
LEMMA Writing ==
  ASSUME DraftsOK, NEW d \in Drafts, Created(d), NEW r \in Draft,
         draft' = [draft EXCEPT ![d] = r], charge' = charge,
         r.key = draft[d].key, r.saved = draft[d].saved
  PROVE  Writes(d, r.status, r.gate, r.fulfilled)
  BY Numbers DEF DraftsOK, OtherDrafts, Writes, Created

\* A payment changes.
LEMMA Paying ==
  ASSUME DraftsOK, NEW d \in Drafts, Created(d), NEW c \in {"none", "open", "paid", "dead"},
         charge' = [charge EXCEPT ![d] = c], draft' = draft
  PROVE  Pays(d, c)
  BY DEF DraftsOK, OtherDrafts, Pays

\* A draft that exists is a row.
LEMMA Present ==
  ASSUME DraftsOK, NEW d \in Drafts
  PROVE  /\ Created(d) <=> draft[d] \in Draft
         /\ ~Created(d) <=> draft[d] = NoDraft
         /\ ~Created(d) => draft[d].status = "NONE"
  BY Numbers DEF DraftsOK, Created, NoDraft

\* A replay answers.
LEMMA Replaying ==
  ASSUME AtOK, DraftsOK, NEW p \in Procs, KeyKnown(p), NEW d \in Drafts, Created(d), Replay(p, d)
  PROVE  Leaves(p)
<1>1. draft[d].status \in {"PENDING", "COMPLETED", "CANCELED", "FAILED"}
  BY Present DEF Draft
<1>2. QED
  BY <1>1, Answering DEF Replay

\* The key is looked up.
LEMMA LookupEffect ==
  ASSUME TypeOK, NEW p \in Procs, KeyKnown(p), Lookup(p)
  PROVE  Kept /\ at[p].pc = "lookup" /\ (Leaves(p) \/ Goes(p, "draft"))
<1>1. AtOK /\ DraftsOK /\ "draft" \in CheckoutSteps
  BY TypeParts DEF CheckoutSteps
<1>2. Kept /\ at[p].pc = "lookup"
  BY <1>1, Keeping DEF Lookup
<1>3. CASE \E d \in Drafts : Created(d) /\ Replay(p, d)
  BY <1>1, <1>2, <1>3, Replaying
<1>4. CASE Answer(p, "error")
  BY <1>1, <1>2, <1>4, Answering
<1>5. CASE Goto(p, "draft")
  BY <1>1, <1>2, <1>5, Going
<1>6. QED
  BY <1>3, <1>4, <1>5 DEF Lookup, Keyed

\* A draft to go on with, none, or nothing to do.
LEMMA DrawEffect ==
  ASSUME TypeOK, NEW p \in Procs, KeyKnown(p), Draw(p)
  PROVE  /\ Kept /\ at[p].pc = "draft"
         /\ \/ Leaves(p)
            \/ Goes(p, "create")
            \/ \E d \in Drafts : Created(d) /\ Turns(p, d)
<1>1. AtOK /\ DraftsOK /\ "create" \in CheckoutSteps
  BY TypeParts DEF CheckoutSteps
<1>2. Kept /\ at[p].pc = "draft"
  BY <1>1, Keeping DEF Draw
<1>3. CASE \E d \in Drafts : Created(d) /\ Replay(p, d)
  BY <1>1, <1>2, <1>3, Replaying
<1>4. CASE Goto(p, "create")
  BY <1>1, <1>2, <1>4, Going
<1>5. CASE Answer(p, "PENDING")
  BY <1>1, <1>2, <1>5, Answering
<1>6. CASE \E d \in Drafts : Created(d) /\ With(p, d, "claim")
  BY <1>1, <1>2, <1>6, Turning
<1>7. QED
  BY <1>3, <1>4, <1>5, <1>6 DEF Draw, Keyed, Reusable

\* The first draft that is free is one that is free.
LEMMA FirstOfFree ==
  ASSUME Free # {}
  PROVE  FirstFree \in Drafts /\ ~Created(FirstFree)
<1>1. Free \in SUBSET Nat
  BY Numbers DEF Free
<1>2. \E d \in Free : \A e \in Free : ~ (<<e, d>> \in OpToRel(<, Nat))
  BY <1>1, NatLessThanWellFounded, WFMin
<1>3. \A e, d \in Nat : <<e, d>> \in OpToRel(<, Nat) <=> e < d
  BY DEF OpToRel
<1>4. PICK d \in Free : \A e \in Free : ~(e < d)
  BY <1>1, <1>2, <1>3, Zenon
<1>5. \A e \in Free : d <= e
  BY <1>1, <1>4
<1>6. FirstFree \in Free
  BY <1>5 DEF FirstFree
<1>7. QED
  BY <1>6 DEF Free

\* A draft is created, unless its key has been taken meanwhile.
LEMMA CreateEffect ==
  ASSUME TypeOK, NEW p \in Procs, KeyKnown(p), Create(p)
  PROVE  /\ at[p].pc = "create"
         /\ \/ Kept /\ Leaves(p)
            \/ \E d \in Drafts :
                 /\ ~Created(d) /\ OtherDrafts(d) /\ Turns(p, d) /\ Keyed(at[p].key) = {}
                 /\ draft'[d] # NoDraft /\ draft'[d].status = "PENDING" /\ draft'[d].gate = "none"
                 /\ draft'[d].fulfilled = FALSE /\ draft'[d].key = at[p].key
                 /\ charge'[d] = charge[d]
<1>1. AtOK /\ DraftsOK /\ at[p].pc = "create"
  BY TypeParts DEF Create
<1>2. CASE Keyed(at[p].key) # {}
  <2>1. PICK d \in Drafts : Created(d) /\ Replay(p, d)
    BY <1>2 DEF Create, Keyed
  <2>2. Kept
    BY <1>1, <1>2, Keeping DEF Create
  <2>3. QED
    BY <1>1, <2>1, <2>2, Replaying
<1>3. CASE Keyed(at[p].key) = {}
  <2> DEFINE r == [status |-> "PENDING", key |-> at[p].key, saved |-> at[p].saved,
                   gate |-> "none", url |-> FALSE, fulfilled |-> FALSE]
  <2>1. PICK d \in Drafts : d = FirstFree /\ ~Created(d)
    BY <1>3, FirstOfFree DEF Create
  <2>2. draft' = [draft EXCEPT ![d] = r] /\ charge' = charge /\ With(p, d, "claim")
    BY <1>3, <2>1 DEF Create
  <2>3. r \in Draft /\ r # NoDraft
    <3>1. r \in Draft
      BY <1>1 DEF AtOK, Process, Draft
    <3>2. QED
      BY <3>1, Numbers
  <2>4. /\ r.status = "PENDING" /\ r.gate = "none" /\ r.fulfilled = FALSE
        /\ r.key = at[p].key
    OBVIOUS
  <2> HIDE DEF r
  <2>5. DraftsOK' /\ OtherDrafts(d) /\ draft'[d] = r /\ charge'[d] = charge[d]
    BY <1>1, <2>2, <2>3 DEF DraftsOK, OtherDrafts
  <2>6. Turns(p, d)
    BY <1>1, <2>2, Turning
  <2>7. QED
    BY <1>1, <1>3, <2>1, <2>3, <2>4, <2>5, <2>6
<1>4. QED
  BY <1>2, <1>3

\* The placeholder is written, or there is nothing to claim.
LEMMA ClaimEffect ==
  ASSUME TypeOK, NEW p \in Procs, KeyKnown(p), DraftKnown(p), Claim(p),
         NEW d \in Drafts, d = at[p].draft
  PROVE  /\ at[p].pc = "claim"
         /\ \/ Kept /\ Leaves(p)
            \/ /\ draft[d].status = "PENDING" /\ draft[d].gate = "none"
               /\ Writes(d, "PENDING", "claim", draft[d].fulfilled)
               /\ \/ Goes(p, "lock") /\ draft[d].saved
                  \/ Goes(p, "submit") /\ ~draft[d].saved
<1>1. AtOK /\ DraftsOK /\ at[p].pc = "claim" /\ {"lock", "submit"} \subseteq CheckoutSteps
  BY TypeParts DEF Claim, CheckoutSteps
<1>2. Created(d) /\ draft[d] \in Draft
  BY <1>1, Present DEF DraftKnown, OnDraft
<1>3. CASE Claimable(draft[d])
  <2> DEFINE r == [draft[d] EXCEPT !.gate = "claim"]
  <2>1. draft' = [draft EXCEPT ![d] = r] /\ charge' = charge
    BY <1>1, <1>3 DEF Claim, DraftsOK
  <2>2. /\ r \in Draft /\ r.key = draft[d].key /\ r.saved = draft[d].saved
        /\ r.status = "PENDING" /\ r.gate = "claim" /\ r.fulfilled = draft[d].fulfilled
    BY <1>2, <1>3 DEF Draft, Claimable
  <2> HIDE DEF r
  <2>3. Writes(d, "PENDING", "claim", draft[d].fulfilled)
    BY <1>1, <1>2, <2>1, <2>2, Writing
  <2>4. Goto(p, IF draft[d].saved THEN "lock" ELSE "submit")
    BY <1>3 DEF Claim
  <2>5. \/ Goes(p, "lock") /\ draft[d].saved
        \/ Goes(p, "submit") /\ ~draft[d].saved
    BY <1>1, <2>4, Going
  <2>6. QED
    BY <1>1, <1>3, <2>3, <2>5 DEF Claimable
<1>4. CASE ~Claimable(draft[d])
  <2>1. Answer(p, IF draft[d].url \/ draft[d].gate = "real" THEN draft[d].status ELSE "error")
        /\ UNCHANGED <<draft, charge>>
    BY <1>4 DEF Claim
  <2>2. (IF draft[d].url \/ draft[d].gate = "real" THEN draft[d].status ELSE "error")
          \in {"none", "error", "PENDING", "COMPLETED", "CANCELED", "FAILED"}
    BY <1>2 DEF Draft
  <2>3. QED
    BY <1>1, <2>1, <2>2, Answering, Keeping
<1>5. QED
  BY <1>3, <1>4

\* The card's lock is taken, or the attempt is closed before the provider is asked.
LEMMA LockEffect ==
  ASSUME TypeOK, NEW p \in Procs, KeyKnown(p), DraftKnown(p), Lock(p),
         NEW d \in Drafts, d = at[p].draft
  PROVE  /\ at[p].pc = "lock" /\ lock = Nobody
         /\ \/ Kept /\ Goes(p, "submit") /\ lock' = p /\ enabled
            \/ /\ Leaves(p) /\ lock' = lock
               /\ \/ Kept
                  \/ /\ Writes(d, "FAILED", "none", draft[d].fulfilled)
                     /\ draft[d].status = "PENDING"
<1>1. AtOK /\ DraftsOK /\ at[p].pc = "lock" /\ lock = Nobody /\ "submit" \in CheckoutSteps
      /\ charge' = charge
  BY TypeParts DEF Lock, CheckoutSteps
<1>2. Created(d) /\ draft[d] \in Draft
  BY <1>1, Present DEF DraftKnown, OnDraft
<1>3. CASE enabled
  BY <1>1, <1>3, Going, Keeping DEF Lock, Chargeable
<1>4. CASE ~enabled
  <2>1. Leaves(p) /\ lock' = lock /\ CloseAttempt(d, FALSE)
    BY <1>1, <1>4, Answering DEF Lock, Chargeable
  <2>2. CASE draft[d].status = "PENDING" /\ draft[d].gate = "claim"
    <3> DEFINE r == [draft[d] EXCEPT !.status = "FAILED", !.gate = "none"]
    <3>1. draft' = [draft EXCEPT ![d] = r]
      BY <1>1, <2>1, <2>2 DEF CloseAttempt, Releases, DraftsOK
    <3>2. /\ r \in Draft /\ r.key = draft[d].key /\ r.saved = draft[d].saved
          /\ r.status = "FAILED" /\ r.gate = "none" /\ r.fulfilled = draft[d].fulfilled
      BY <1>2 DEF Draft
    <3> HIDE DEF r
    <3>3. Writes(d, "FAILED", "none", draft[d].fulfilled)
      BY <1>1, <1>2, <3>1, <3>2, Writing
    <3>4. QED
      BY <1>1, <2>1, <2>2, <3>3
  <2>3. CASE ~(draft[d].status = "PENDING" /\ draft[d].gate = "claim")
    <3>1. draft' = draft
      BY <2>1, <2>3 DEF CloseAttempt
    <3>2. QED
      BY <1>1, <2>1, <3>1, Keeping
  <2>4. QED
    BY <2>2, <2>3
<1>5. QED
  BY <1>3, <1>4 DEF Lock, Chargeable

\* The provider is asked for the draft; whatever goes wrong, the row stays as it is.
LEMMA SubmitEffect ==
  ASSUME TypeOK, NEW p \in Procs, KeyKnown(p), DraftKnown(p), Submit(p),
         NEW d \in Drafts, d = at[p].draft
  PROVE  /\ at[p].pc = "submit" /\ lock' = Released(p)
         /\ \/ /\ draft[d].saved => lock = p
               /\ Others(p) /\ at'[p].pc = "persist" /\ at'[p].draft = d
               /\ at'[p].key = at[p].key
               /\ at'[p].answer \in {"open", "paid", "dead"} /\ Pays(d, at'[p].answer)
            \/ Leaves(p) /\ \E c \in {"none", "open", "paid", "dead"} : Pays(d, c)
<1>1. AtOK /\ DraftsOK /\ at[p].pc = "submit" /\ lock' = Released(p)
  BY TypeParts DEF Submit
<1>2. Created(d) /\ charge[d] = "none" /\ Outcomes(d) \subseteq {"open", "paid", "dead"}
  BY <1>1 DEF DraftKnown, OnDraft, Claiming, Outcomes
<1>3. CASE /\ draft[d].saved => lock = p
           /\ \E c \in Outcomes(d) :
               /\ charge' = [charge EXCEPT ![d] = c]
               /\ at' = [at EXCEPT ![p].pc = "persist", ![p].answer = c]
           /\ UNCHANGED <<draft, used>>
  <2>1. PICK c \in {"open", "paid", "dead"} :
          /\ charge' = [charge EXCEPT ![d] = c]
          /\ at' = [at EXCEPT ![p].pc = "persist", ![p].answer = c]
    BY <1>2, <1>3
  <2> DEFINE r == [at[p] EXCEPT !.pc = "persist", !.answer = c]
  <2>2. at' = [at EXCEPT ![p] = r]
    BY <1>1, <2>1 DEF AtOK
  <2>3. /\ r \in Process /\ r.pc = "persist" /\ r.answer = c /\ r.key = at[p].key
        /\ r.draft = d
    BY <1>1 DEF AtOK, Process, CheckoutSteps
  <2> HIDE DEF r
  <2>4. Others(p) /\ at'[p] = r
    BY <1>1, <2>2, <2>3, Moving
  <2>5. Pays(d, c)
    <3>1. draft' = draft /\ c \in {"none", "open", "paid", "dead"}
      BY <1>3
    <3>2. QED
      BY <1>1, <1>2, <2>1, <3>1, Paying
  <2>6. QED
    BY <1>1, <1>3, <2>3, <2>4, <2>5
<1>4. CASE /\ \E c \in Outcomes(d) \cup {charge[d]} : charge' = [charge EXCEPT ![d] = c]
           /\ Answer(p, "error") /\ CloseAttempt(d, TRUE)
  <2>1. PICK c \in {"none", "open", "paid", "dead"} : charge' = [charge EXCEPT ![d] = c]
    BY <1>2, <1>4
  <2>2. draft' = draft
    BY <1>4 DEF CloseAttempt, Releases
  <2>3. Pays(d, c) /\ Leaves(p)
    BY <1>1, <1>2, <1>4, <2>1, <2>2, Paying, Answering
  <2>4. QED
    BY <1>1, <2>3
<1>5. QED
  BY <1>3, <1>4 DEF Submit

\* The provider's id replaces the placeholder.
LEMMA PersistEffect ==
  ASSUME TypeOK, NEW p \in Procs, KeyKnown(p), DraftKnown(p), Persist(p),
         NEW d \in Drafts, d = at[p].draft
  PROVE  /\ at[p].pc = "persist" /\ Writes(d, draft[d].status, "real", draft[d].fulfilled)
         /\ \/ at[p].answer = "dead" /\ Goes(p, "void")
            \/ at[p].answer = "paid" /\ Goes(p, "settle")
            \/ Leaves(p)
<1>1. AtOK /\ DraftsOK /\ at[p].pc = "persist" /\ {"void", "settle"} \subseteq CheckoutSteps
  BY TypeParts DEF Persist, CheckoutSteps
<1>2. Created(d) /\ draft[d] \in Draft
  BY <1>1, Present DEF DraftKnown, OnDraft
<1>3. Writes(d, draft[d].status, "real", draft[d].fulfilled)
  <2> DEFINE r == [draft[d] EXCEPT !.gate = "real", !.url = (at[p].answer = "open")]
  <2>1. draft' = [draft EXCEPT ![d] = r] /\ charge' = charge
    BY <1>1 DEF Persist, DraftsOK
  <2>2. /\ r \in Draft /\ r.key = draft[d].key /\ r.saved = draft[d].saved
        /\ r.status = draft[d].status /\ r.gate = "real" /\ r.fulfilled = draft[d].fulfilled
    BY <1>2 DEF Draft
  <2> HIDE DEF r
  <2>3. Writes(d, r.status, r.gate, r.fulfilled)
    BY <1>1, <1>2, <2>1, <2>2, Writing
  <2>4. QED
    BY <2>2, <2>3
<1>4. CASE at[p].answer = "dead"
  BY <1>1, <1>3, <1>4, Going DEF Persist
<1>5. CASE at[p].answer = "paid"
  BY <1>1, <1>3, <1>5, Going DEF Persist
<1>6. CASE at[p].answer \notin {"dead", "paid"}
  <2>1. Answer(p, draft[d].status)
    BY <1>6 DEF Persist
  <2>2. draft[d].status \in {"PENDING", "COMPLETED", "CANCELED", "FAILED"}
    BY <1>2 DEF Draft
  <2>3. QED
    BY <1>1, <1>3, <2>1, <2>2, Answering
<1>7. QED
  BY <1>4, <1>5, <1>6

\* A refused charge cancels the draft.
LEMMA VoidEffect ==
  ASSUME TypeOK, NEW p \in Procs, KeyKnown(p), DraftKnown(p), Void(p),
         NEW d \in Drafts, d = at[p].draft
  PROVE  /\ at[p].pc = "void" /\ lock = Nobody /\ Leaves(p)
         /\ Writes(d, "CANCELED", draft[d].gate, draft[d].fulfilled)
<1>1. AtOK /\ DraftsOK /\ at[p].pc = "void" /\ lock = Nobody
  BY TypeParts DEF Void
<1>2. Created(d) /\ draft[d] \in Draft
  BY <1>1, Present DEF DraftKnown, OnDraft
<1> DEFINE r == [draft[d] EXCEPT !.status = "CANCELED"]
<1>3. draft' = [draft EXCEPT ![d] = r] /\ charge' = charge
  BY <1>1 DEF Void, DraftsOK
<1>4. /\ r \in Draft /\ r.key = draft[d].key /\ r.saved = draft[d].saved
      /\ r.status = "CANCELED" /\ r.gate = draft[d].gate /\ r.fulfilled = draft[d].fulfilled
  BY <1>2 DEF Draft
<1> HIDE DEF r
<1>5. Writes(d, r.status, r.gate, r.fulfilled)
  BY <1>1, <1>2, <1>3, <1>4, Writing
<1>6. Leaves(p)
  BY <1>1, Answering DEF Void
<1>7. QED
  BY <1>1, <1>4, <1>5, <1>6

\* A delivery completes the draft, and whatever gate is written with it.
LEMMA Delivering ==
  ASSUME DraftsOK, NEW d \in Drafts, Created(d), NEW g \in {"none", "claim", "real"},
         \/ draft' = Delivered(d) /\ g = draft[d].gate
         \/ draft' = [Delivered(d) EXCEPT ![d].gate = g],
         charge' = charge
  PROVE  Writes(d, "COMPLETED", g, TRUE)
<1> DEFINE r == [draft[d] EXCEPT !.status = "COMPLETED", !.fulfilled = TRUE, !.gate = g]
<1>1. draft[d] \in Draft
  BY Present
<1>2. /\ r \in Draft /\ r.key = draft[d].key /\ r.saved = draft[d].saved
      /\ r.status = "COMPLETED" /\ r.gate = g /\ r.fulfilled = TRUE
  BY <1>1 DEF Draft
<1>3. draft' = [draft EXCEPT ![d] = r]
  <2>1. CASE draft' = [Delivered(d) EXCEPT ![d].gate = g]
    BY <2>1 DEF Delivered, DraftsOK
  <2>2. CASE draft' = Delivered(d) /\ g = draft[d].gate
    <3>1. draft' = [draft EXCEPT ![d] =
                      [draft[d] EXCEPT !.status = "COMPLETED", !.fulfilled = TRUE]]
      BY <2>2 DEF Delivered, DraftsOK
    <3>2. [draft[d] EXCEPT !.status = "COMPLETED", !.fulfilled = TRUE] = r
      BY <1>1, <2>2 DEF Draft
    <3>3. QED
      BY <3>1, <3>2
  <2>3. QED
    BY <2>1, <2>2
<1> HIDE DEF r
<1>4. Writes(d, r.status, r.gate, r.fulfilled)
  BY <1>1, <1>2, <1>3, Writing
<1>5. QED
  BY <1>2, <1>4

\* A charge that went through is delivered, fails in provisioning, or has been seen to.
LEMMA SettleEffect ==
  ASSUME TypeOK, NEW p \in Procs, KeyKnown(p), DraftKnown(p), Settle(p),
         NEW d \in Drafts, d = at[p].draft
  PROVE  /\ at[p].pc = "settle" /\ Leaves(p)
         /\ \/ /\ draft[d].status = "PENDING" /\ sub' = Renewed
               /\ Writes(d, "COMPLETED", draft[d].gate, TRUE)
            \/ /\ draft[d].status = "PENDING" /\ sub' = sub
               /\ Writes(d, "COMPLETED", draft[d].gate, draft[d].fulfilled)
            \/ Kept /\ sub' = sub
<1>1. AtOK /\ DraftsOK /\ at[p].pc = "settle" /\ charge' = charge
  BY TypeParts DEF Settle
<1>2. Created(d) /\ draft[d] \in Draft
  BY <1>1, Present DEF DraftKnown, OnDraft
<1>3. Leaves(p)
  BY <1>1, Answering DEF Settle
<1>4. CASE draft[d].status = "PENDING" /\ draft' = Delivered(d) /\ sub' = Renewed
  <2>1. draft[d].gate \in {"none", "claim", "real"}
    BY <1>2 DEF Draft
  <2>2. QED
    BY <1>1, <1>2, <1>3, <1>4, <2>1, Delivering
<1>5. CASE /\ draft[d].status = "PENDING" /\ sub' = sub
           /\ draft' = [draft EXCEPT ![d].status = "COMPLETED"]
  <2> DEFINE r == [draft[d] EXCEPT !.status = "COMPLETED"]
  <2>1. draft' = [draft EXCEPT ![d] = r]
    BY <1>1, <1>5 DEF DraftsOK
  <2>2. /\ r \in Draft /\ r.key = draft[d].key /\ r.saved = draft[d].saved
        /\ r.status = "COMPLETED" /\ r.gate = draft[d].gate /\ r.fulfilled = draft[d].fulfilled
    BY <1>2 DEF Draft
  <2> HIDE DEF r
  <2>3. Writes(d, r.status, r.gate, r.fulfilled)
    BY <1>1, <1>2, <2>1, <2>2, Writing
  <2>4. QED
    BY <1>1, <1>3, <1>5, <2>2, <2>3
<1>6. CASE UNCHANGED <<draft, sub, used>>
  BY <1>1, <1>3, <1>6, Keeping
<1>7. QED
  BY <1>4, <1>5, <1>6 DEF Settle

\* The provider's side: a payment is decided, and the notification of it.
LEMMA ProviderEffects ==
  ASSUME TypeOK, NEW d \in Drafts, DraftOf(d)
  PROVE  /\ Confirm(d) => /\ Quiet /\ charge[d] = "open"
                          /\ \E c \in {"paid", "dead"} : Pays(d, c)
         /\ Notify(d) => /\ Quiet
                         /\ \/ /\ charge[d] = "paid" /\ ~draft[d].fulfilled /\ sub' = Renewed
                               /\ Writes(d, "COMPLETED", "real", TRUE)
                            \/ /\ charge[d] = "dead" /\ draft[d].status = "PENDING" /\ sub' = sub
                               /\ Writes(d, "CANCELED", "real", draft[d].fulfilled)
<1>1. AtOK /\ DraftsOK
  BY TypeParts
<1>2. ASSUME Confirm(d)
      PROVE  Quiet /\ charge[d] = "open" /\ \E c \in {"paid", "dead"} : Pays(d, c)
  <2>1. PICK c \in {"paid", "dead"} : charge' = [charge EXCEPT ![d] = c]
    BY <1>2 DEF Confirm
  <2>2. Created(d) /\ draft' = draft /\ Quiet /\ charge[d] = "open"
    BY <1>1, <1>2, Unmoved DEF Confirm, DraftOf, working
  <2>3. QED
    BY <1>1, <2>1, <2>2, Paying
<1>3. ASSUME Notify(d)
      PROVE  /\ Quiet
             /\ \/ /\ charge[d] = "paid" /\ ~draft[d].fulfilled /\ sub' = Renewed
                   /\ Writes(d, "COMPLETED", "real", TRUE)
                \/ /\ charge[d] = "dead" /\ draft[d].status = "PENDING" /\ sub' = sub
                   /\ Writes(d, "CANCELED", "real", draft[d].fulfilled)
  <2>1. Quiet /\ Created(d) /\ charge' = charge /\ draft[d] \in Draft
    BY <1>1, <1>3, Unmoved, Present DEF Notify, working
  <2>2. CASE charge[d] = "paid"
    BY <1>1, <1>3, <2>1, <2>2, Delivering DEF Notify
  <2>3. CASE charge[d] = "dead"
    <3> DEFINE r == [draft[d] EXCEPT !.status = "CANCELED", !.gate = "real"]
    <3>1. draft' = [draft EXCEPT ![d] = r] /\ draft[d].status = "PENDING" /\ sub' = sub
      BY <1>1, <1>3, <2>1, <2>3 DEF Notify, DraftsOK
    <3>2. /\ r \in Draft /\ r.key = draft[d].key /\ r.saved = draft[d].saved
          /\ r.status = "CANCELED" /\ r.gate = "real" /\ r.fulfilled = draft[d].fulfilled
      BY <2>1 DEF Draft
    <3> HIDE DEF r
    <3>3. Writes(d, r.status, r.gate, r.fulfilled)
      BY <1>1, <2>1, <3>1, <3>2, Writing
    <3>4. QED
      BY <2>1, <2>3, <3>1, <3>2, <3>3
  <2>4. QED
    BY <1>3, <2>2, <2>3 DEF Notify
<1>4. QED
  BY <1>2, <1>3

\* The sweep keeps, delivers, or goes on to drop; giving up is a decision only.
LEMMA SweepEffects ==
  ASSUME TypeOK, NEW d \in Drafts
  PROVE  /\ Age(d) => Quiet /\ Kept
         /\ Abandon(d) => Quiet /\ Kept
         /\ SweepRead(d) => /\ Quiet
                            /\ \/ Kept /\ sub' = sub
                               \/ /\ charge[d] = "paid" /\ draft[d].status = "PENDING"
                                  /\ sub' = Renewed
                                  /\ Writes(d, "COMPLETED", draft[d].gate, TRUE)
<1>1. AtOK /\ DraftsOK
  BY TypeParts
<1>2. ASSUME Age(d) PROVE Quiet /\ Kept
  BY <1>1, <1>2, Unmoved, Keeping DEF Age, working
<1>3. ASSUME Abandon(d) PROVE Quiet /\ Kept
  BY <1>1, <1>3, Unmoved, Keeping DEF Abandon, working
<1>4. ASSUME SweepRead(d)
      PROVE  /\ Quiet
             /\ \/ Kept /\ sub' = sub
                \/ /\ charge[d] = "paid" /\ draft[d].status = "PENDING" /\ sub' = Renewed
                   /\ Writes(d, "COMPLETED", draft[d].gate, TRUE)
  <2>1. Quiet /\ charge' = charge /\ draft[d].status = "PENDING"
    BY <1>1, <1>4, Unmoved DEF SweepRead, working
  <2>2. CASE UNCHANGED <<sub, draft>>
    BY <1>1, <2>1, <2>2, Keeping
  <2>3. CASE /\ draft[d].gate = "real" /\ charge[d] = "paid"
             /\ draft' = Delivered(d) /\ sub' = Renewed
    <3>1. Created(d)
      BY <1>1, <2>1, Present
    <3>2. QED
      BY <1>1, <2>1, <2>3, <3>1, Delivering
  <2>4. QED
    BY <1>4, <2>2, <2>3 DEF SweepRead
<1>5. QED
  BY <1>2, <1>3, <1>4

\* A draft is given up; what may still be charged is on record as surrendered.
LEMMA DropEffect ==
  ASSUME TypeOK, Drop
  PROVE  /\ Quiet /\ surrendered \subseteq surrendered'
         /\ \/ Kept
            \/ \E d \in Drafts :
                 /\ draft[d].status = "PENDING"
                 /\ Writes(d, "CANCELED", draft[d].gate, draft[d].fulfilled)
                 /\ d \notin surrendered' =>
                      draft[d].gate # "claim" /\ charge[d] \notin {"open", "paid"}
<1>1. AtOK /\ DraftsOK /\ charge' = charge
  BY TypeParts DEF Drop
<1>2. PICK d \in Drafts : d = dropping
  BY TypeParts, Numbers DEF Drop, RestOK, Drafts
<1>3. Quiet /\ surrendered \subseteq surrendered'
      /\ (d \notin surrendered' => draft[d].gate # "claim" /\ charge[d] \notin {"open", "paid"})
  BY <1>1, <1>2, Unmoved DEF Drop, working
<1>4. CASE draft[d].status = "PENDING"
  <2> DEFINE r == [draft[d] EXCEPT !.status = "CANCELED"]
  <2>1. Created(d) /\ draft[d] \in Draft
    BY <1>1, <1>4, Present
  <2>2. draft' = [draft EXCEPT ![d] = r]
    BY <1>1, <1>2, <1>4 DEF Drop, DraftsOK
  <2>3. /\ r \in Draft /\ r.key = draft[d].key /\ r.saved = draft[d].saved
        /\ r.status = "CANCELED" /\ r.gate = draft[d].gate /\ r.fulfilled = draft[d].fulfilled
    BY <2>1 DEF Draft
  <2> HIDE DEF r
  <2>4. Writes(d, r.status, r.gate, r.fulfilled)
    BY <1>1, <2>1, <2>2, <2>3, Writing
  <2>5. QED
    BY <1>3, <1>4, <2>3, <2>4
<1>5. CASE draft[d].status # "PENDING"
  <2>1. draft' = draft
    BY <1>2, <1>5 DEF Drop
  <2>2. QED
    BY <1>1, <1>3, <2>1, Keeping
<1>6. QED
  BY <1>4, <1>5

\* The user, the clock, and what goes wrong.
LEMMA OtherEffects ==
  ASSUME TypeOK
  PROVE  /\ Toggle => Quiet /\ Kept /\ lock = Nobody
         /\ Advance => Quiet /\ Kept
         /\ \A p \in Procs : /\ LockExpires(p) => Quiet /\ Kept
                             /\ Crash(p) => Leaves(p) /\ Kept
                             /\ Request(p) => /\ Others(p) /\ Kept /\ at'[p].pc = "lookup"
                                              /\ at'[p].key = NoKey
<1>1. AtOK /\ DraftsOK
  BY TypeParts
<1>2. ASSUME Toggle PROVE Quiet /\ Kept /\ lock = Nobody
  BY <1>1, <1>2, Unmoved, Keeping DEF Toggle, Decidable
<1>3. ASSUME Advance PROVE Quiet /\ Kept
  BY <1>1, <1>3, Unmoved, Keeping DEF Advance, cycleRest
<1>4. ASSUME NEW p \in Procs, LockExpires(p) PROVE Quiet /\ Kept
  BY <1>1, <1>4, Unmoved, Keeping DEF LockExpires
<1>5. ASSUME NEW p \in Procs, Crash(p) PROVE Leaves(p) /\ Kept
  BY <1>1, <1>5, Ending, Keeping DEF Crash
<1>6. ASSUME NEW p \in Procs, Request(p)
      PROVE  Others(p) /\ Kept /\ at'[p].pc = "lookup" /\ at'[p].key = NoKey
  <2>1. PICK saved \in BOOLEAN : at' = [at EXCEPT ![p].pc = "lookup", ![p].saved = saved]
    BY <1>6 DEF Request
  <2> DEFINE r == [at[p] EXCEPT !.pc = "lookup", !.saved = saved]
  <2>2. at' = [at EXCEPT ![p] = r] /\ at[p] = Idle
    BY <1>1, <1>6, <2>1 DEF AtOK, Request
  <2>3. r \in Process /\ r.pc = "lookup" /\ r.key = NoKey
    BY <1>1, <2>2, Resting DEF AtOK, Process, CheckoutSteps
  <2> HIDE DEF r
  <2>4. Kept
    BY <1>1, <1>6, Keeping DEF Request
  <2>5. QED
    BY <1>1, <2>2, <2>3, <2>4, Moving
<1>7. QED
  BY <1>2, <1>3, <1>4, <1>5, <1>6

\* The highest number is the number of attempts used.
LEMMA UsedIsTop ==
  ASSUME DraftsOK, NEW e \in Epochs, NEW m \in 0..MaxAttempts, Top(e, m)
  PROVE  UsedAttempts(e) = m
<1>1. \A d \in Attempts(e) : draft[d].key.n \in Nat
  BY Present DEF Attempts, Draft, Keys
<1>2. \A n \in 0..MaxAttempts :
         /\ n = 0 \/ \E d \in Attempts(e) : draft[d].key.n = n
         /\ \A d \in Attempts(e) : draft[d].key.n <= n
         => n = m
  BY <1>1, Numbers DEF Top
<1>3. QED
  BY <1>2 DEF UsedAttempts, Top

\* A cycle takes the next number, having found no attempt that stands.
Takes(c, e, m) ==
    /\ Others(c) /\ at'[c].pc = "lookup" /\ at'[c].key = [epoch |-> e, n |-> m + 1]
    /\ Top(e, m) /\ ~Standing(e)

\* A charge is begun.
LEMMA NextCharge ==
  ASSUME TypeOK, Numbering, NEW c \in Procs, at[c].key.epoch \in Epochs, NEW past \in BOOLEAN,
         Charge(c, past), ~Standing(at[c].key.epoch), ~Exhausted(at[c].key.epoch)
  PROVE  \E e \in Epochs : \E m \in 0..MaxAttempts : Takes(c, e, m)
<1>1. AtOK /\ DraftsOK
  BY TypeParts
<1>2. PICK e \in Epochs : e = at[c].key.epoch
  OBVIOUS
<1>3. PICK m \in 0..MaxAttempts : Top(e, m)
  BY DEF Numbering
<1>4. UsedAttempts(e) = m /\ m < MaxAttempts
  BY <1>1, <1>2, <1>3, UsedIsTop, Numbers DEF Exhausted
<1> DEFINE k == [epoch |-> e, n |-> m + 1]
           r == [Idle EXCEPT !.pc = "lookup", !.saved = TRUE, !.past = past, !.key = k]
<1>5. at' = [at EXCEPT ![c] = r]
  BY <1>2, <1>4 DEF Charge
<1>6. k \in Keys
  BY <1>4, Numbers DEF Keys, Epochs
<1>7. r \in Process /\ r.pc = "lookup" /\ r.key = k
  <2> HIDE DEF k
  <2>1. QED
    BY <1>6, Resting DEF Process, CheckoutSteps
<1> HIDE DEF r
<1>8. QED
  BY <1>1, <1>2, <1>3, <1>5, <1>7, Moving DEF Takes

\* The steps of a cycle outside its checkouts.
LEMMA CycleEffect ==
  ASSUME TypeOK, Numbering, NEW c \in Procs, KeyKnown(c), Start(c) \/ CycleStep(c)
  PROVE  /\ Kept
         /\ \/ Leaves(c)
            \/ \E e \in Epochs : \E m \in 0..MaxAttempts : Takes(c, e, m)
<1>1. AtOK /\ DraftsOK /\ sub.epoch \in Epochs
  BY TypeParts DEF SubOK
<1>2. Kept
  BY <1>1, Keeping
     DEF Start, CycleStep, Attempt, Scan, Judge, Retry, Charged, After, Expire, cycleRest
<1>3. CycleStep(c) => at[c].pc \in Outside \ {"idle"}
  BY DEF CycleStep, Attempt, Scan, Judge, Retry, Charged, After, Expire, Outside, cycleSteps
<1>4. CycleStep(c) => at[c].key.epoch \in Epochs
  BY <1>3 DEF KeyKnown
<1>5. CASE \E step \in cycleSteps : at' = [at EXCEPT ![c] = At(step, sub.epoch)]
  BY <1>1, <1>2, <1>5, Stepping
<1>6. CASE CycleStep(c) /\ \E step \in cycleSteps : ToStep(c, step)
  BY <1>1, <1>2, <1>4, <1>6, Stepping DEF ToStep
<1>7. CASE Finish(c)
  BY <1>1, <1>2, <1>7, Ending DEF Finish
<1>8. CASE /\ CycleStep(c) /\ ~Standing(at[c].key.epoch) /\ ~Exhausted(at[c].key.epoch)
           /\ \E past \in BOOLEAN : Charge(c, past)
  BY <1>2, <1>4, <1>8, NextCharge
<1>9. CASE Start(c)
  BY <1>5, <1>9 DEF Start, cycleSteps
<1>10. CASE CycleStep(c)
  <2>1. CASE Attempt(c)
    BY <1>6, <1>8, <1>10, <2>1 DEF Attempt, cycleSteps
  <2>2. CASE Scan(c)
    BY <1>5, <1>7, <2>2 DEF Scan, cycleSteps
  <2>3. CASE Judge(c)
    BY <1>6, <1>10, <2>3 DEF Judge, cycleSteps
  <2>4. CASE Retry(c)
    BY <1>6, <1>7, <1>8, <1>10, <2>4 DEF Retry, cycleSteps
  <2>5. CASE Charged(c)
    BY <1>6, <1>7, <1>10, <2>5 DEF Charged, cycleSteps
  <2>6. CASE After(c)
    BY <1>6, <1>7, <1>10, <2>6 DEF After, cycleSteps
  <2>7. CASE Expire(c)
    BY <1>7, <2>7 DEF Expire
  <2>8. QED
    BY <1>10, <2>1, <2>2, <2>3, <2>4, <2>5, <2>6, <2>7 DEF CycleStep
<1>11. QED
  BY <1>9, <1>10

------------------------------------------------------------------------------
(***************************************************************************)
(* Types, and what is known of each process and each draft.                *)
(***************************************************************************)

\* A bound that is used up by one stays a number.
LEMMA Spending ==
  ASSUME used \in [Counters -> Nat], NEW b \in Counters, Use(b)
  PROVE  used' \in [Counters -> Nat]
  BY DEF Use

\* The counters by name.
LEMMA CounterNames == {"requests", "toggles", "giveups", "faults", "crashes"} = Counters
  BY DEF Counters

\* Nothing moves.
LEMMA Stuttering ==
  ASSUME TypeOK, UNCHANGED checkoutVars
  PROVE  /\ Quiet /\ Kept /\ RestOK' /\ sub' = sub /\ lock' = lock /\ enabled' = enabled
         /\ surrendered' = surrendered /\ unlocked' = unlocked
<1>1. AtOK /\ DraftsOK /\ RestOK
  BY TypeParts
<1>2. UNCHANGED at /\ UNCHANGED <<draft, charge>>
      /\ UNCHANGED <<scenario, sub, enabled, lock, stale, dropping, surrendered, unlocked, used>>
  BY DEF checkoutVars
<1>3. QED
  BY <1>1, <1>2, Unmoved, Keeping DEF RestOK

\* The types at every step, but for the subscription.
LEMMA TypeStep ==
  ASSUME TypeOK, Facts, Numbering, [Next]_checkoutVars
  PROVE  AtOK' /\ DraftsOK' /\ RestOK'
<1>1. AtOK /\ DraftsOK /\ RestOK
  BY TypeParts
<1>2. /\ \A p \in Procs : DraftKnown(p) /\ KeyKnown(p)
      /\ \A d \in Drafts : DraftOf(d)
  BY DEF Facts
<1>3. ASSUME NEW p \in Procs, Lookup(p) PROVE AtOK' /\ DraftsOK' /\ RestOK'
  <2>1. AtOK' /\ DraftsOK'
    BY <1>1, <1>2, <1>3, LookupEffect DEF Leaves, Goes, Turns, Takes, Others,
       Quiet, Kept, OtherDrafts, Writes, Pays
  <2>2. RestOK'
    BY <1>1, <1>3 DEF RestOK, Lookup, rest
  <2>3. QED
    BY <2>2, <2>1
<1>4. ASSUME NEW p \in Procs, Draw(p) PROVE AtOK' /\ DraftsOK' /\ RestOK'
  <2>1. AtOK' /\ DraftsOK'
    BY <1>1, <1>2, <1>4, DrawEffect DEF Leaves, Goes, Turns, Takes, Others,
       Quiet, Kept, OtherDrafts, Writes, Pays
  <2>2. RestOK'
    BY <1>1, <1>4 DEF RestOK, Draw, rest
  <2>3. QED
    BY <2>2, <2>1
<1>5. ASSUME NEW p \in Procs, Create(p) PROVE AtOK' /\ DraftsOK' /\ RestOK'
  <2>1. AtOK' /\ DraftsOK'
    BY <1>1, <1>2, <1>5, CreateEffect DEF Leaves, Goes, Turns, Takes, Others,
       Quiet, Kept, OtherDrafts, Writes, Pays
  <2>2. RestOK'
    BY <1>1, <1>5 DEF RestOK, Create, rest
  <2>3. QED
    BY <2>2, <2>1
<1>6. ASSUME NEW p \in Procs, Claim(p) PROVE AtOK' /\ DraftsOK' /\ RestOK'
  <2>1. PICK d \in Drafts : d = at[p].draft /\ Created(d)
    BY <1>2, <1>6 DEF Claim, DraftKnown, OnDraft
  <2>2. AtOK' /\ DraftsOK'
    BY <1>1, <1>2, <1>6, <2>1, ClaimEffect DEF Leaves, Goes, Turns, Takes,
       Others, Quiet, Kept, OtherDrafts, Writes, Pays
  <2>3. RestOK'
    BY <1>1, <1>6, <2>1 DEF RestOK, Claim, rest
  <2>4. QED
    BY <2>3, <2>2
<1>7. ASSUME NEW p \in Procs, Lock(p) PROVE AtOK' /\ DraftsOK' /\ RestOK'
  <2>1. PICK d \in Drafts : d = at[p].draft /\ Created(d)
    BY <1>2, <1>7 DEF Lock, DraftKnown, OnDraft
  <2>2. AtOK' /\ DraftsOK'
    BY <1>1, <1>2, <1>7, <2>1, LockEffect DEF Leaves, Goes, Turns, Takes,
       Others, Quiet, Kept, OtherDrafts, Writes, Pays
  <2>3. RestOK'
    BY <1>1, <1>7, <2>1 DEF RestOK, Lock, rest
  <2>4. QED
    BY <2>3, <2>2
<1>8. ASSUME NEW p \in Procs, Submit(p) PROVE AtOK' /\ DraftsOK' /\ RestOK'
  <2>1. PICK d \in Drafts : d = at[p].draft /\ Created(d)
    BY <1>2, <1>8 DEF Submit, DraftKnown, OnDraft
  <2>2. AtOK' /\ DraftsOK'
    BY <1>1, <1>2, <1>8, <2>1, SubmitEffect DEF Leaves, Goes, Turns, Takes,
       Others, Quiet, Kept, OtherDrafts, Writes, Pays
  <2>3. used' \in [Counters -> Nat]
    BY <1>1, <1>8, Spending, CounterNames DEF Submit, Fault, RestOK
  <2>4. RestOK'
    BY <1>1, <1>8, <2>1, <2>3 DEF RestOK, Submit, rest, Released
  <2>5. QED
    BY <2>4, <2>2
<1>9. ASSUME NEW p \in Procs, Persist(p) PROVE AtOK' /\ DraftsOK' /\ RestOK'
  <2>1. PICK d \in Drafts : d = at[p].draft /\ Created(d)
    BY <1>2, <1>9 DEF Persist, DraftKnown, OnDraft
  <2>2. AtOK' /\ DraftsOK'
    BY <1>1, <1>2, <1>9, <2>1, PersistEffect DEF Leaves, Goes, Turns, Takes,
       Others, Quiet, Kept, OtherDrafts, Writes, Pays
  <2>3. RestOK'
    BY <1>1, <1>9, <2>1 DEF RestOK, Persist, rest
  <2>4. QED
    BY <2>3, <2>2
<1>10. ASSUME NEW p \in Procs, Void(p) PROVE AtOK' /\ DraftsOK' /\ RestOK'
  <2>1. PICK d \in Drafts : d = at[p].draft /\ Created(d)
    BY <1>2, <1>10 DEF Void, DraftKnown, OnDraft
  <2>2. AtOK' /\ DraftsOK'
    BY <1>1, <1>2, <1>10, <2>1, VoidEffect DEF Leaves, Goes, Turns, Takes,
       Others, Quiet, Kept, OtherDrafts, Writes, Pays
  <2>3. RestOK'
    BY <1>1, <1>10, <2>1 DEF RestOK, Void
  <2>4. QED
    BY <2>3, <2>2
<1>11. ASSUME NEW p \in Procs, Settle(p) PROVE AtOK' /\ DraftsOK' /\ RestOK'
  <2>1. PICK d \in Drafts : d = at[p].draft /\ Created(d)
    BY <1>2, <1>11 DEF Settle, DraftKnown, OnDraft
  <2>2. AtOK' /\ DraftsOK'
    BY <1>1, <1>2, <1>11, <2>1, SettleEffect DEF Leaves, Goes, Turns, Takes,
       Others, Quiet, Kept, OtherDrafts, Writes, Pays
  <2>3. used' \in [Counters -> Nat]
    BY <1>1, <1>11, Spending, CounterNames DEF Settle, Fault, RestOK
  <2>4. RestOK'
    BY <1>1, <1>11, <2>1, <2>3 DEF RestOK, Settle, rest
  <2>5. QED
    BY <2>4, <2>2
<1>12. ASSUME NEW p \in Procs, Start(p) \/ CycleStep(p)
       PROVE  AtOK' /\ DraftsOK' /\ RestOK'
  <2>1. AtOK' /\ DraftsOK'
    BY <1>1, <1>2, <1>12, CycleEffect DEF Leaves, Goes, Turns, Takes, Others,
       Quiet, Kept, OtherDrafts, Writes, Pays
  <2>2. RestOK'
    BY <1>1, <1>12 DEF RestOK, Start, CycleStep, Attempt, Scan, Judge, Retry,
       Charged, After, Expire, cycleRest
  <2>3. QED
    BY <2>2, <2>1
<1>13. ASSUME NEW p \in Procs, Request(p) PROVE AtOK' /\ DraftsOK' /\ RestOK'
  <2>1. AtOK' /\ DraftsOK'
    BY <1>1, <1>2, <1>13, OtherEffects DEF Leaves, Goes, Turns, Takes, Others,
       Quiet, Kept, OtherDrafts, Writes, Pays
  <2>2. used' \in [Counters -> Nat]
    BY <1>1, <1>13, Spending, CounterNames DEF Request, RestOK
  <2>3. RestOK'
    BY <1>1, <1>13, <2>2 DEF RestOK, Request
  <2>4. QED
    BY <2>3, <2>1
<1>14. ASSUME NEW p \in Procs, LockExpires(p)
       PROVE  AtOK' /\ DraftsOK' /\ RestOK'
  <2>1. AtOK' /\ DraftsOK'
    BY <1>1, <1>2, <1>14, OtherEffects DEF Leaves, Goes, Turns, Takes, Others,
       Quiet, Kept, OtherDrafts, Writes, Pays
  <2>2. used' \in [Counters -> Nat]
    BY <1>1, <1>14, Spending, CounterNames DEF LockExpires, Fault, RestOK
  <2>3. at[p].draft \in Drafts
    BY <1>2, <1>14 DEF LockExpires, DraftKnown, OnDraft
  <2>4. RestOK'
    BY <1>1, <1>14, <2>3, <2>2 DEF RestOK, LockExpires
  <2>5. QED
    BY <2>4, <2>1
<1>15. ASSUME NEW p \in Procs, Crash(p) PROVE AtOK' /\ DraftsOK' /\ RestOK'
  <2>1. AtOK' /\ DraftsOK'
    BY <1>1, <1>2, <1>15, OtherEffects DEF Leaves, Goes, Turns, Takes, Others,
       Quiet, Kept, OtherDrafts, Writes, Pays
  <2>2. used' \in [Counters -> Nat]
    BY <1>1, <1>15, Spending, CounterNames DEF Crash, RestOK
  <2>3. RestOK'
    BY <1>1, <1>15, <2>2 DEF RestOK, Crash, Released
  <2>4. QED
    BY <2>3, <2>1
<1>16. ASSUME NEW d \in Drafts, Confirm(d) PROVE AtOK' /\ DraftsOK' /\ RestOK'
  <2>1. AtOK' /\ DraftsOK'
    BY <1>1, <1>2, <1>16, ProviderEffects DEF Leaves, Goes, Turns, Takes,
       Others, Quiet, Kept, OtherDrafts, Writes, Pays
  <2>2. RestOK'
    BY <1>1, <1>16 DEF RestOK, Confirm, working
  <2>3. QED
    BY <2>2, <2>1
<1>17. ASSUME NEW d \in Drafts, Notify(d) PROVE AtOK' /\ DraftsOK' /\ RestOK'
  <2>1. AtOK' /\ DraftsOK'
    BY <1>1, <1>2, <1>17, ProviderEffects DEF Leaves, Goes, Turns, Takes,
       Others, Quiet, Kept, OtherDrafts, Writes, Pays
  <2>2. RestOK'
    BY <1>1, <1>17 DEF RestOK, Notify, working
  <2>3. QED
    BY <2>2, <2>1
<1>18. ASSUME NEW d \in Drafts, Age(d) PROVE AtOK' /\ DraftsOK' /\ RestOK'
  <2>1. AtOK' /\ DraftsOK'
    BY <1>1, <1>2, <1>18, SweepEffects DEF Leaves, Goes, Turns, Takes, Others,
       Quiet, Kept, OtherDrafts, Writes, Pays
  <2>2. RestOK'
    BY <1>1, <1>18 DEF RestOK, Age, working
  <2>3. QED
    BY <2>2, <2>1
<1>19. ASSUME NEW d \in Drafts, SweepRead(d) PROVE AtOK' /\ DraftsOK' /\ RestOK'
  <2>1. AtOK' /\ DraftsOK'
    BY <1>1, <1>2, <1>19, SweepEffects DEF Leaves, Goes, Turns, Takes, Others,
       Quiet, Kept, OtherDrafts, Writes, Pays
  <2>2. RestOK'
    BY <1>1, <1>19, Numbers DEF RestOK, SweepRead, working
  <2>3. QED
    BY <2>2, <2>1
<1>20. ASSUME NEW d \in Drafts, Abandon(d) PROVE AtOK' /\ DraftsOK' /\ RestOK'
  <2>1. AtOK' /\ DraftsOK'
    BY <1>1, <1>2, <1>20, SweepEffects DEF Leaves, Goes, Turns, Takes, Others,
       Quiet, Kept, OtherDrafts, Writes, Pays
  <2>2. used' \in [Counters -> Nat]
    BY <1>1, <1>20, Spending, CounterNames DEF Abandon, RestOK
  <2>3. RestOK'
    BY <1>1, <1>20, Numbers, <2>2 DEF RestOK, Abandon, working
  <2>4. QED
    BY <2>3, <2>1
<1>21. ASSUME Drop PROVE AtOK' /\ DraftsOK' /\ RestOK'
  <2>1. AtOK' /\ DraftsOK'
    BY <1>1, <1>2, <1>21, DropEffect DEF Leaves, Goes, Turns, Takes, Others,
       Quiet, Kept, OtherDrafts, Writes, Pays
  <2>2. dropping \in Drafts /\ 0 \in 0..MaxDrafts
    BY <1>1, <1>21, Numbers DEF Drop, RestOK, Drafts
  <2>3. RestOK'
    BY <1>1, <1>21, <2>2 DEF RestOK, Drop, working
  <2>4. QED
    BY <2>3, <2>1
<1>22. ASSUME Toggle PROVE AtOK' /\ DraftsOK' /\ RestOK'
  <2>1. AtOK' /\ DraftsOK'
    BY <1>1, <1>2, <1>22, OtherEffects DEF Leaves, Goes, Turns, Takes, Others,
       Quiet, Kept, OtherDrafts, Writes, Pays
  <2>2. used' \in [Counters -> Nat]
    BY <1>1, <1>22, Spending, CounterNames DEF Toggle, RestOK
  <2>3. RestOK'
    BY <1>1, <1>22, <2>2 DEF RestOK, Toggle
  <2>4. QED
    BY <2>3, <2>1
<1>23. ASSUME Advance PROVE AtOK' /\ DraftsOK' /\ RestOK'
  <2>1. AtOK' /\ DraftsOK'
    BY <1>1, <1>2, <1>23, OtherEffects DEF Leaves, Goes, Turns, Takes, Others,
       Quiet, Kept, OtherDrafts, Writes, Pays
  <2>2. RestOK'
    BY <1>1, <1>23 DEF RestOK, Advance, cycleRest
  <2>3. QED
    BY <2>2, <2>1
<1>24. ASSUME UNCHANGED checkoutVars PROVE AtOK' /\ DraftsOK' /\ RestOK'
  BY <1>24, Stuttering DEF Quiet, Kept
<1>25. QED
  BY <1>3, <1>4, <1>5, <1>6, <1>7, <1>8, <1>9, <1>10, <1>11, <1>12, <1>13,
     <1>14, <1>15, <1>16, <1>17, <1>18, <1>19, <1>20, <1>21, <1>22, <1>23,
     <1>24, AutoRenewAssumption DEF Next, CheckoutStep, Environment

\* What a step leaves of a draft that exists: its key, the card it is for, and what
\* the provider has decided.
Firm(e) ==
    Created(e) =>
      /\ draft'[e] # NoDraft /\ draft'[e].key = draft[e].key /\ draft'[e].saved = draft[e].saved
      /\ charge[e] # "none" => charge'[e] # "none"
      /\ charge[e] \in {"paid", "dead"} => charge'[e] = charge[e]

\* A draft whose provider is about to be asked is left alone.
Held(e) ==
    Created(e) /\ draft[e].gate = "claim" /\ charge[e] = "none" =>
      draft'[e].gate = "claim" /\ charge'[e] = "none"

\* A draft that a step leaves alone keeps its facts.
LEMMA DraftStays ==
  ASSUME NEW e \in Drafts, DraftOf(e), draft'[e] = draft[e], charge'[e] = charge[e],
         surrendered \subseteq surrendered'
  PROVE  DraftOf(e)' /\ Firm(e) /\ Held(e)
  BY DEF DraftOf, Firm, Held, Created

\* A process that does not move keeps what it knows.
LEMMA KnowledgeStays ==
  ASSUME NEW q \in Procs, Same(q), DraftKnown(q), KeyKnown(q), at[q].pc \in Claiming =>
           \A e \in Drafts : at[q].draft = e => Held(e),
         \A e \in Drafts : Firm(e)
  PROVE  DraftKnown(q)' /\ KeyKnown(q)'
<1>1. KeyKnown(q)'
  BY DEF KeyKnown, Same, Outside, Epochs
<1>2. CASE at[q].pc \in OnDraft
  <2>1. PICK e \in Drafts : e = at[q].draft /\ Created(e) /\ at'[q] = at[q]
    BY <1>2 DEF DraftKnown, Same
  <2>2. Firm(e) /\ (at[q].pc \in Claiming => Held(e))
    BY <2>1
  <2>3. /\ at[q].pc \in Claiming => draft[e].gate = "claim" /\ charge[e] = "none"
        /\ at[q].pc = "persist" =>
             charge[e] # "none" /\ (at[q].answer \in {"paid", "dead"} => charge[e] = at[q].answer)
        /\ at[q].pc = "void" => charge[e] = "dead"
        /\ at[q].pc = "settle" => charge[e] = "paid"
    BY <2>1 DEF DraftKnown
  <2>4. /\ draft'[e] # NoDraft
        /\ at[q].pc \in Claiming => draft'[e].gate = "claim" /\ charge'[e] = "none"
        /\ at[q].pc = "persist" =>
             charge'[e] # "none" /\ (at[q].answer \in {"paid", "dead"} => charge'[e] = at[q].answer)
        /\ at[q].pc = "void" => charge'[e] = "dead"
        /\ at[q].pc = "settle" => charge'[e] = "paid"
    BY <2>1, <2>2, <2>3 DEF Firm, Held
  <2>5. at'[q].draft = e /\ at'[q] = at[q]
    BY <2>1
  <2>6. QED
    BY <1>1, <2>4, <2>5 DEF DraftKnown, Created
<1>3. CASE at[q].pc \notin OnDraft
  <2>1. at'[q].pc \notin OnDraft
    BY <1>3 DEF Same
  <2>2. QED
    BY <1>1, <2>1 DEF DraftKnown, OnDraft, Claiming
<1>4. QED
  BY <1>2, <1>3

\* A process that leaves its checkout knows all it has to.
LEMMA LeavesKnown ==
  ASSUME NEW p \in Procs, Leaves(p)
  PROVE  /\ Others(p) /\ DraftKnown(p)' /\ KeyKnown(p)'
         /\ at'[p].pc \notin Claiming /\ at'[p].pc \notin Choosing
<1>1. at'[p].pc \in {"attempt", "scan", "judge", "retry", "after", "expire", "done", "idle"}
  BY DEF Leaves, Outside, cycleSteps
<1>2. at'[p].pc \notin OnDraft /\ at'[p].pc \notin Claiming /\ at'[p].pc \notin Choosing
  BY <1>1 DEF OnDraft, Claiming, Choosing
<1>3. DraftKnown(p)'
  BY <1>2 DEF DraftKnown, OnDraft
<1>4. KeyKnown(p)'
  BY DEF Leaves, KeyKnown, Outside, Epochs, cycleSteps
<1>5. QED
  BY <1>2, <1>3, <1>4 DEF Leaves

\* One process moves, one draft changes.
LEMMA FactsAround ==
  ASSUME Facts, surrendered \subseteq surrendered', NEW p \in Procs, Others(p),
         NEW d \in Drafts, OtherDrafts(d), DraftOf(d)', Firm(d),
         Held(d) \/ (at[p].pc \in Claiming /\ at[p].draft = d),
         DraftKnown(p)', KeyKnown(p)',
         at'[p].pc \in Claiming => at'[p].draft = d /\ draft[d].gate # "claim"
  PROVE  Facts'
<1>1. \A e \in Drafts : DraftOf(e)' /\ Firm(e)
  BY DraftStays DEF Facts, OtherDrafts
<1>2. \A e \in Drafts : e # d => Held(e)
  BY DraftStays DEF Facts, OtherDrafts
<1>3. ASSUME NEW q \in Procs PROVE DraftKnown(q)' /\ KeyKnown(q)'
  <2>1. CASE q = p
    BY <2>1
  <2>2. CASE q # p
    <3>1. Same(q) /\ DraftKnown(q) /\ KeyKnown(q)
      BY <2>2 DEF Others, Facts
    <3>2. at[q].pc \in Claiming /\ at[q].draft = d => Held(d)
      BY <2>2 DEF Facts, OneClaimer
    <3>3. QED
      BY <1>1, <1>2, <3>1, <3>2, KnowledgeStays
  <2>3. QED
    BY <2>1, <2>2
<1>4. OneClaimer'
  <2>1. \A q \in Procs : q # p => at'[q] = at[q]
    BY DEF Others, Same
  <2>2. \A q \in Procs : at[q].pc \in Claiming => draft[at[q].draft].gate = "claim"
    BY DEF Facts, DraftKnown
  <2>3. QED
    BY <2>1, <2>2 DEF Facts, OneClaimer
<1>5. QED
  BY <1>1, <1>3, <1>4 DEF Facts

\* One process moves, the drafts stay.
LEMMA FactsKept ==
  ASSUME Facts, surrendered \subseteq surrendered', Kept, NEW p \in Procs, Others(p),
         DraftKnown(p)', KeyKnown(p)',
         at'[p].pc \in Claiming => at[p].pc \in Claiming /\ at'[p].draft = at[p].draft
  PROVE  Facts'
<1>1. \A e \in Drafts : DraftOf(e)' /\ Firm(e) /\ Held(e)
  BY DraftStays DEF Facts, Kept
<1>2. ASSUME NEW q \in Procs PROVE DraftKnown(q)' /\ KeyKnown(q)'
  BY <1>1, <1>2, KnowledgeStays DEF Others, Facts
<1>3. OneClaimer'
  BY DEF Facts, OneClaimer, Others, Same
<1>4. QED
  BY <1>1, <1>2, <1>3 DEF Facts

\* No process moves, one draft changes.
LEMMA FactsOutside ==
  ASSUME Facts, surrendered \subseteq surrendered', Quiet,
         NEW d \in Drafts, OtherDrafts(d), DraftOf(d)', Firm(d), Held(d)
  PROVE  Facts'
<1>1. \A e \in Drafts : DraftOf(e)' /\ Firm(e) /\ Held(e)
  BY DraftStays DEF Facts, OtherDrafts
<1>2. ASSUME NEW q \in Procs PROVE DraftKnown(q)' /\ KeyKnown(q)'
  BY <1>1, <1>2, KnowledgeStays DEF Quiet, Facts
<1>3. OneClaimer'
  BY DEF Facts, OneClaimer, Quiet, Same
<1>4. QED
  BY <1>1, <1>2, <1>3 DEF Facts

\* Nothing moves but bookkeeping.
LEMMA FactsQuiet ==
  ASSUME Facts, surrendered \subseteq surrendered', Quiet, Kept
  PROVE  Facts'
<1>1. \A e \in Drafts : DraftOf(e)' /\ Firm(e) /\ Held(e)
  BY DraftStays DEF Facts, Kept
<1>2. ASSUME NEW q \in Procs PROVE DraftKnown(q)' /\ KeyKnown(q)'
  BY <1>1, <1>2, KnowledgeStays DEF Quiet, Facts
<1>3. OneClaimer'
  BY DEF Facts, OneClaimer, Quiet, Same
<1>4. QED
  BY <1>1, <1>2, <1>3 DEF Facts

\* A row is written, and its payment is as it was.
LEMMA RowFacts ==
  ASSUME NEW d \in Drafts, DraftOf(d), surrendered \subseteq surrendered',
         NEW s, NEW g, NEW f, Writes(d, s, g, f),
         g = "none" => charge[d] = "none",
         g = "real" => charge[d] # "none",
         s = "COMPLETED" => charge[d] = "paid",
         f => s = "COMPLETED",
         s \in {"CANCELED", "FAILED"} /\ d \notin surrendered' => charge[d] = "dead" \/ g = "none"
  PROVE  OtherDrafts(d) /\ DraftOf(d)' /\ Firm(d)
  BY DEF Writes, DraftOf, Firm, Created

\* What is known of processes and drafts, at every step.
LEMMA FactsStep ==
  ASSUME TypeOK, Facts, Numbering, [Next]_checkoutVars
  PROVE  Facts'
<1>1. DraftsOK /\ \A d \in Drafts : Created(d) => draft[d].gate \in {"none", "claim", "real"}
  BY TypeParts, Present DEF Draft
<1>2. /\ \A p \in Procs : DraftKnown(p) /\ KeyKnown(p)
      /\ \A d \in Drafts : DraftOf(d)
  BY DEF Facts
<1>3. ASSUME NEW p \in Procs, Leaves(p), Kept, surrendered' = surrendered PROVE Facts'
  BY <1>3, LeavesKnown, FactsKept
<1>4. ASSUME NEW p \in Procs, Goes(p, "draft") \/ Goes(p, "create"), Kept,
             surrendered' = surrendered
      PROVE  Facts'
  <2>1. at'[p].pc \notin OnDraft /\ at'[p].pc \notin Outside /\ at'[p].pc \notin Claiming
    BY <1>4 DEF Goes, OnDraft, Outside, Claiming, cycleSteps
  <2>2. DraftKnown(p)' /\ KeyKnown(p)' /\ Others(p)
    BY <1>2, <1>4, <2>1 DEF Goes, DraftKnown, KeyKnown, OnDraft, Claiming, Epochs
  <2>3. QED
    BY <1>4, <2>1, <2>2, FactsKept
<1>5. ASSUME NEW p \in Procs, Lookup(p) PROVE Facts'
  <2>1. surrendered' = surrendered
    BY <1>5 DEF Lookup, rest
  <2>2. QED
    BY <1>2, <1>3, <1>4, <1>5, <2>1, LookupEffect
<1>6. ASSUME NEW p \in Procs, Draw(p) PROVE Facts'
  <2>1. surrendered' = surrendered
    BY <1>6 DEF Draw, rest
  <2>2. CASE \E d \in Drafts : Created(d) /\ Turns(p, d)
    <3>1. PICK d \in Drafts : Created(d) /\ Turns(p, d)
      BY <2>2
    <3>2. Others(p) /\ Kept /\ at'[p].pc = "claim" /\ at'[p].draft = d /\ at'[p].key = at[p].key
      BY <1>2, <1>6, <3>1, DrawEffect DEF Turns
    <3>3. draft'[d] # NoDraft
      BY <3>1, <3>2 DEF Kept, Created
    <3>4. DraftKnown(p)' /\ KeyKnown(p)' /\ at'[p].pc \notin Claiming
      BY <1>2, <3>2, <3>3
         DEF DraftKnown, KeyKnown, Claiming, Outside, cycleSteps, Created, Epochs
    <3>5. QED
      BY <2>1, <3>2, <3>4, FactsKept
  <2>3. QED
    BY <1>2, <1>3, <1>4, <1>6, <2>1, <2>2, DrawEffect
<1>7. ASSUME NEW p \in Procs, Create(p) PROVE Facts'
  <2>1. surrendered' = surrendered
    BY <1>7 DEF Create, rest
  <2>2. CASE \E d \in Drafts :
               /\ ~Created(d) /\ OtherDrafts(d) /\ Turns(p, d)
               /\ draft'[d] # NoDraft /\ draft'[d].status = "PENDING" /\ draft'[d].gate = "none"
               /\ draft'[d].fulfilled = FALSE /\ charge'[d] = charge[d]
    <3>1. PICK d \in Drafts :
               /\ ~Created(d) /\ OtherDrafts(d) /\ Turns(p, d)
               /\ draft'[d] # NoDraft /\ draft'[d].status = "PENDING" /\ draft'[d].gate = "none"
               /\ draft'[d].fulfilled = FALSE /\ charge'[d] = charge[d]
      BY <2>2
    <3>2. Others(p) /\ at'[p].pc = "claim" /\ at'[p].draft = d /\ at'[p].key = at[p].key
      BY <3>1 DEF Turns
    <3>3. DraftOf(d)' /\ Firm(d) /\ Held(d)
      BY <1>2, <3>1 DEF DraftOf, Firm, Held, Created
    <3>4. DraftKnown(p)' /\ KeyKnown(p)' /\ at'[p].pc \notin Claiming
      BY <1>2, <3>1, <3>2
         DEF DraftKnown, KeyKnown, Claiming, Outside, cycleSteps, Created, Epochs
    <3>5. QED
      BY <2>1, <3>1, <3>2, <3>3, <3>4, FactsAround
  <2>3. QED
    BY <1>2, <1>3, <1>7, <2>1, <2>2, CreateEffect
<1>8. ASSUME NEW p \in Procs, Claim(p) PROVE Facts'
  <2>1. surrendered' = surrendered
    BY <1>8 DEF Claim, rest
  <2>2. PICK d \in Drafts : d = at[p].draft /\ Created(d)
    BY <1>2, <1>8 DEF Claim, DraftKnown, OnDraft
  <2>3. CASE Kept /\ Leaves(p)
    BY <1>3, <2>1, <2>3
  <2>4. CASE ~(Kept /\ Leaves(p))
    <3>1. /\ draft[d].status = "PENDING" /\ draft[d].gate = "none"
          /\ Writes(d, "PENDING", "claim", draft[d].fulfilled)
          /\ Goes(p, "lock") \/ Goes(p, "submit")
      BY <1>2, <1>8, <2>2, <2>4, ClaimEffect
    <3>2. charge[d] = "none" /\ ~draft[d].fulfilled
      BY <1>2, <2>2, <3>1 DEF DraftOf
    <3>3. OtherDrafts(d) /\ DraftOf(d)' /\ Firm(d) /\ Held(d)
      BY <1>2, <2>1, <3>1, <3>2, RowFacts DEF Held
    <3>4. draft'[d] # NoDraft /\ draft'[d].gate = "claim" /\ charge'[d] = "none"
      BY <3>1, <3>2 DEF Writes
    <3>5. /\ Others(p) /\ at'[p].pc \in Claiming /\ at'[p].draft = d
          /\ at'[p].key = at[p].key
      BY <2>2, <3>1 DEF Goes, Claiming
    <3>6. DraftKnown(p)' /\ KeyKnown(p)'
      BY <1>2, <3>4, <3>5 DEF DraftKnown, KeyKnown, Claiming, Outside, cycleSteps, Created, Epochs
    <3>7. QED
      BY <2>1, <3>1, <3>3, <3>5, <3>6, FactsAround
  <2>5. QED
    BY <2>3, <2>4
<1>9. ASSUME NEW p \in Procs, Lock(p) PROVE Facts'
  <2>1. surrendered' = surrendered
    BY <1>9 DEF Lock, rest
  <2>2. PICK d \in Drafts : d = at[p].draft /\ Created(d)
    BY <1>2, <1>9 DEF Lock, DraftKnown, OnDraft
  <2>3. CASE Kept /\ Goes(p, "submit")
    <3>1. /\ Others(p) /\ at'[p].pc = "submit" /\ at'[p].draft = d /\ at'[p].key = at[p].key
          /\ at[p].pc = "lock"
      BY <1>2, <1>9, <2>2, <2>3, LockEffect DEF Goes
    <3>2. draft'[d] # NoDraft /\ draft'[d].gate = "claim" /\ charge'[d] = "none"
      BY <1>2, <2>2, <2>3, <3>1 DEF Kept, DraftKnown, Claiming, Created
    <3>3. DraftKnown(p)' /\ KeyKnown(p)'
      BY <1>2, <3>1, <3>2 DEF DraftKnown, KeyKnown, Claiming, Outside, cycleSteps, Created, Epochs
    <3>4. QED
      BY <2>1, <2>2, <2>3, <3>1, <3>3, FactsKept DEF Claiming
  <2>4. CASE Leaves(p) /\ Kept
    BY <1>3, <2>1, <2>4
  <2>5. CASE /\ Leaves(p) /\ Writes(d, "FAILED", "none", draft[d].fulfilled)
             /\ draft[d].status = "PENDING"
    <3>1. at[p].pc \in Claiming /\ charge[d] = "none" /\ ~draft[d].fulfilled
      BY <1>2, <1>9, <2>2, <2>5 DEF Lock, DraftKnown, Claiming, DraftOf
    <3>2. OtherDrafts(d) /\ DraftOf(d)' /\ Firm(d)
      BY <1>2, <2>1, <2>5, <3>1, RowFacts
    <3>3. QED
      BY <2>1, <2>2, <2>5, <3>1, <3>2, LeavesKnown, FactsAround
  <2>6. QED
    BY <1>2, <1>9, <2>2, <2>3, <2>4, <2>5, LockEffect
<1>10. ASSUME NEW p \in Procs, Submit(p) PROVE Facts'
  <2>1. surrendered' = surrendered
    BY <1>10 DEF Submit, rest
  <2>2. PICK d \in Drafts : d = at[p].draft /\ Created(d)
    BY <1>2, <1>10 DEF Submit, DraftKnown, OnDraft
  <2>3. at[p].pc \in Claiming /\ charge[d] = "none" /\ draft[d].gate = "claim"
    BY <1>2, <1>10, <2>2 DEF Submit, DraftKnown, Claiming
  <2>4. ASSUME NEW c \in {"none", "open", "paid", "dead"}, Pays(d, c)
        PROVE  OtherDrafts(d) /\ DraftOf(d)' /\ Firm(d)
    BY <1>2, <2>1, <2>2, <2>3, <2>4 DEF Pays, DraftOf, Firm, Created
  <2>5. CASE Leaves(p) /\ \E c \in {"none", "open", "paid", "dead"} : Pays(d, c)
    BY <2>1, <2>2, <2>3, <2>4, <2>5, LeavesKnown, FactsAround
  <2>6. CASE /\ Others(p) /\ at'[p].pc = "persist" /\ at'[p].draft = d /\ at'[p].key = at[p].key
             /\ at'[p].answer \in {"open", "paid", "dead"} /\ Pays(d, at'[p].answer)
    <3>1. PICK c \in {"open", "paid", "dead"} : c = at'[p].answer /\ Pays(d, c)
      BY <2>6
    <3>2. draft'[d] # NoDraft /\ charge'[d] = c
      BY <3>1 DEF Pays, Created
    <3>3. DraftKnown(p)' /\ KeyKnown(p)' /\ at'[p].pc \notin Claiming
      BY <1>2, <2>6, <3>1, <3>2
         DEF DraftKnown, KeyKnown, Claiming, Outside, cycleSteps, Created, Epochs
    <3>4. QED
      BY <2>1, <2>2, <2>3, <2>4, <2>6, <3>1, <3>3, FactsAround
  <2>7. QED
    BY <1>2, <1>10, <2>2, <2>5, <2>6, SubmitEffect
<1>11. ASSUME NEW p \in Procs, Persist(p) PROVE Facts'
  <2>1. surrendered' = surrendered
    BY <1>11 DEF Persist, rest
  <2>2. PICK d \in Drafts : d = at[p].draft /\ Created(d)
    BY <1>2, <1>11 DEF Persist, DraftKnown, OnDraft
  <2>3. /\ charge[d] # "none" /\ at[p].pc \notin Claiming
        /\ at[p].answer \in {"paid", "dead"} => charge[d] = at[p].answer
    BY <1>2, <1>11, <2>2 DEF Persist, DraftKnown, Claiming
  <2>4. Writes(d, draft[d].status, "real", draft[d].fulfilled)
    BY <1>2, <1>11, <2>2, PersistEffect
  <2>5. draft[d].status \in {"CANCELED", "FAILED"} /\ d \notin surrendered' => charge[d] = "dead"
    BY <1>2, <2>1, <2>2, <2>3 DEF DraftOf
  <2>6. OtherDrafts(d) /\ DraftOf(d)' /\ Firm(d) /\ Held(d)
    <3>1. /\ draft[d].status = "COMPLETED" => charge[d] = "paid"
          /\ draft[d].fulfilled => draft[d].status = "COMPLETED"
      BY <1>2, <2>2 DEF DraftOf
    <3>2. QED
      BY <1>2, <2>1, <2>3, <2>4, <2>5, <3>1, RowFacts DEF Held
  <2>7. draft'[d] # NoDraft /\ charge'[d] = charge[d]
    BY <2>4 DEF Writes
  <2>8. CASE Leaves(p)
    BY <2>1, <2>6, <2>8, LeavesKnown, FactsAround
  <2>9. CASE \/ at[p].answer = "dead" /\ Goes(p, "void")
             \/ at[p].answer = "paid" /\ Goes(p, "settle")
    <3>1. /\ Others(p) /\ at'[p].draft = d /\ at'[p].key = at[p].key
          /\ \/ at'[p].pc = "void" /\ charge'[d] = "dead"
             \/ at'[p].pc = "settle" /\ charge'[d] = "paid"
      BY <2>2, <2>3, <2>7, <2>9 DEF Goes
    <3>2. DraftKnown(p)' /\ KeyKnown(p)' /\ at'[p].pc \notin Claiming
      BY <1>2, <2>7, <3>1 DEF DraftKnown, KeyKnown, Claiming, Outside, cycleSteps, Created, Epochs
    <3>3. QED
      BY <2>1, <2>6, <3>1, <3>2, FactsAround
  <2>10. QED
    BY <1>2, <1>11, <2>2, <2>8, <2>9, PersistEffect
<1>12. ASSUME NEW p \in Procs, Void(p) PROVE Facts'
  <2>1. surrendered' = surrendered
    BY <1>12 DEF Void
  <2>2. PICK d \in Drafts : d = at[p].draft /\ Created(d)
    BY <1>2, <1>12 DEF Void, DraftKnown, OnDraft
  <2>3. charge[d] = "dead" /\ Leaves(p) /\ Writes(d, "CANCELED", draft[d].gate, draft[d].fulfilled)
    BY <1>2, <1>12, <2>2, VoidEffect DEF DraftKnown
  <2>4. draft[d].gate # "none" /\ ~draft[d].fulfilled
    BY <1>2, <2>2, <2>3 DEF DraftOf
  <2>5. OtherDrafts(d) /\ DraftOf(d)' /\ Firm(d) /\ Held(d)
    BY <1>2, <2>1, <2>3, <2>4, RowFacts DEF Held
  <2>6. QED
    BY <2>1, <2>3, <2>5, LeavesKnown, FactsAround
<1>13. ASSUME NEW p \in Procs, Settle(p) PROVE Facts'
  <2>1. surrendered' = surrendered
    BY <1>13 DEF Settle, rest
  <2>2. PICK d \in Drafts : d = at[p].draft /\ Created(d)
    BY <1>2, <1>13 DEF Settle, DraftKnown, OnDraft
  <2>3. charge[d] = "paid" /\ Leaves(p)
    BY <1>2, <1>13, <2>2, SettleEffect DEF DraftKnown
  <2>4. draft[d].gate # "none"
    BY <1>2, <2>2, <2>3 DEF DraftOf
  <2>5. CASE Kept
    BY <1>3, <2>1, <2>3, <2>5
  <2>6. CASE \/ Writes(d, "COMPLETED", draft[d].gate, TRUE)
             \/ Writes(d, "COMPLETED", draft[d].gate, draft[d].fulfilled)
    <3>1. OtherDrafts(d) /\ DraftOf(d)' /\ Firm(d) /\ Held(d)
      BY <1>2, <2>1, <2>3, <2>4, <2>6, RowFacts DEF Held
    <3>2. QED
      BY <2>1, <2>3, <3>1, LeavesKnown, FactsAround
  <2>7. QED
    BY <1>2, <1>13, <2>2, <2>5, <2>6, SettleEffect
<1>14. ASSUME NEW p \in Procs, Start(p) \/ CycleStep(p) PROVE Facts'
  <2>1. surrendered' = surrendered
    BY <1>14 DEF Start, CycleStep, Attempt, Scan, Judge, Retry, Charged,
       After, Expire, cycleRest
  <2>2. CASE \E e \in Epochs : \E m \in 0..MaxAttempts : Takes(p, e, m)
    <3>1. PICK e \in Epochs, m \in 0..MaxAttempts : Takes(p, e, m)
      BY <2>2
    <3>2. Others(p) /\ at'[p].pc = "lookup" /\ at'[p].key.epoch = e
      BY <3>1 DEF Takes
    <3>3. DraftKnown(p)' /\ KeyKnown(p)' /\ at'[p].pc \notin Claiming
      BY <3>2 DEF DraftKnown, KeyKnown, OnDraft, Claiming, Outside, cycleSteps, Epochs
    <3>4. QED
      BY <1>2, <1>14, <2>1, <3>2, <3>3, CycleEffect, FactsKept
  <2>3. QED
    BY <1>2, <1>3, <1>14, <2>1, <2>2, CycleEffect
<1>15. ASSUME NEW p \in Procs, Request(p) PROVE Facts'
  <2>1. surrendered' = surrendered
    BY <1>15 DEF Request
  <2>2. Others(p) /\ Kept /\ at'[p].pc = "lookup" /\ at'[p].key = NoKey
    BY <1>15, OtherEffects
  <2>3. DraftKnown(p)' /\ KeyKnown(p)' /\ at'[p].pc \notin Claiming
    BY <2>2 DEF DraftKnown, KeyKnown, OnDraft, Claiming, Outside, cycleSteps, NoKey
  <2>4. QED
    BY <2>1, <2>2, <2>3, FactsKept
<1>16. ASSUME NEW p \in Procs, LockExpires(p) PROVE Facts'
  <2>1. surrendered' = surrendered
    BY <1>16 DEF LockExpires
  <2>2. QED
    BY <1>16, <2>1, OtherEffects, FactsQuiet
<1>17. ASSUME NEW p \in Procs, Crash(p) PROVE Facts'
  <2>1. surrendered' = surrendered
    BY <1>17 DEF Crash
  <2>2. QED
    BY <1>3, <1>17, <2>1, OtherEffects
<1>18. ASSUME NEW d \in Drafts, Confirm(d) PROVE Facts'
  <2>1. surrendered' = surrendered
    BY <1>18 DEF Confirm, working
  <2>2. PICK c \in {"paid", "dead"} : Pays(d, c) /\ Quiet /\ charge[d] = "open"
    BY <1>2, <1>18, ProviderEffects
  <2>3. OtherDrafts(d) /\ DraftOf(d)' /\ Firm(d) /\ Held(d)
    BY <1>2, <2>1, <2>2 DEF Pays, DraftOf, Firm, Held, Created
  <2>4. QED
    BY <2>1, <2>2, <2>3, FactsOutside
<1>19. ASSUME NEW d \in Drafts, Notify(d) PROVE Facts'
  <2>1. surrendered' = surrendered
    BY <1>19 DEF Notify, working
  <2>2. Quiet /\ Created(d) /\ charge[d] \in {"paid", "dead"}
    BY <1>2, <1>19, ProviderEffects DEF Writes
  <2>3. OtherDrafts(d) /\ DraftOf(d)' /\ Firm(d) /\ Held(d)
    <3>1. CASE charge[d] = "paid" /\ Writes(d, "COMPLETED", "real", TRUE)
      BY <1>2, <2>1, <3>1, RowFacts DEF Held
    <3>2. CASE /\ charge[d] = "dead" /\ draft[d].status = "PENDING"
               /\ Writes(d, "CANCELED", "real", draft[d].fulfilled)
      <4>1. ~draft[d].fulfilled
        BY <1>2, <2>2, <3>2 DEF DraftOf
      <4>2. QED
        BY <1>2, <2>1, <3>2, <4>1, RowFacts DEF Held
    <3>3. QED
      BY <1>2, <1>19, <3>1, <3>2, ProviderEffects
  <2>4. QED
    BY <2>1, <2>2, <2>3, FactsOutside
<1>20. ASSUME NEW d \in Drafts, Age(d) PROVE Facts'
  <2>1. surrendered' = surrendered
    BY <1>20 DEF Age, working
  <2>2. QED
    BY <1>20, <2>1, SweepEffects, FactsQuiet
<1>21. ASSUME NEW d \in Drafts, SweepRead(d) PROVE Facts'
  <2>1. surrendered' = surrendered
    BY <1>21 DEF SweepRead, working
  <2>2. Quiet
    BY <1>21, SweepEffects
  <2>3. CASE Kept
    BY <2>1, <2>2, <2>3, FactsQuiet
  <2>4. CASE charge[d] = "paid" /\ Writes(d, "COMPLETED", draft[d].gate, TRUE)
    <3>1. draft[d].gate # "none"
      BY <1>2, <2>4 DEF DraftOf, Writes
    <3>2. OtherDrafts(d) /\ DraftOf(d)' /\ Firm(d) /\ Held(d)
      BY <1>2, <2>1, <2>4, <3>1, RowFacts DEF Held
    <3>3. QED
      BY <2>1, <2>2, <3>2, FactsOutside
  <2>5. QED
    BY <1>21, <2>3, <2>4, SweepEffects
<1>22. ASSUME NEW d \in Drafts, Abandon(d) PROVE Facts'
  <2>1. surrendered' = surrendered
    BY <1>22 DEF Abandon, working
  <2>2. QED
    BY <1>22, <2>1, SweepEffects, FactsQuiet
<1>23. ASSUME Drop PROVE Facts'
  <2>1. Quiet /\ surrendered \subseteq surrendered'
    BY <1>23, DropEffect
  <2>2. CASE Kept
    BY <2>1, <2>2, FactsQuiet
  <2>3. ASSUME NEW d \in Drafts, draft[d].status = "PENDING",
               Writes(d, "CANCELED", draft[d].gate, draft[d].fulfilled),
               d \notin surrendered' =>
                 draft[d].gate # "claim" /\ charge[d] \notin {"open", "paid"}
        PROVE  Facts'
    <3>1. Created(d) /\ ~draft[d].fulfilled
      BY <1>2, <2>3 DEF Writes, DraftOf
    <3>2. /\ draft[d].gate \in {"none", "claim", "real"}
          /\ charge[d] \in {"none", "open", "paid", "dead"}
          /\ draft[d].gate = "none" => charge[d] = "none"
          /\ draft[d].gate = "real" => charge[d] # "none"
      BY <1>1, <1>2, <3>1 DEF DraftOf, DraftsOK
    <3>3. OtherDrafts(d) /\ DraftOf(d)' /\ Firm(d)
      BY <1>2, <2>1, <2>3, <3>1, <3>2, RowFacts
    <3>4. Held(d)
      BY <2>3 DEF Held, Writes
    <3>5. QED
      BY <2>1, <3>3, <3>4, FactsOutside
  <2>4. QED
    BY <1>23, <2>2, <2>3, DropEffect
<1>24. ASSUME Toggle PROVE Facts'
  <2>1. surrendered' = surrendered
    BY <1>24 DEF Toggle
  <2>2. QED
    BY <1>24, <2>1, OtherEffects, FactsQuiet
<1>25. ASSUME Advance PROVE Facts'
  <2>1. surrendered' = surrendered
    BY <1>25 DEF Advance, cycleRest
  <2>2. QED
    BY <1>25, <2>1, OtherEffects, FactsQuiet
<1>26. ASSUME UNCHANGED checkoutVars PROVE Facts'
  BY <1>26, Stuttering, FactsQuiet
<1>27. QED
  BY <1>5, <1>6, <1>7, <1>8, <1>9, <1>10, <1>11, <1>12, <1>13, <1>14, <1>15,
     <1>16, <1>17, <1>18, <1>19, <1>20, <1>21, <1>22, <1>23, <1>24, <1>25,
     <1>26, AutoRenewAssumption DEF Next, CheckoutStep, Environment

------------------------------------------------------------------------------
(***************************************************************************)
(* The numbers of the attempts.                                            *)
(***************************************************************************)

\* The attempts stay what they are: none is added, and what is over stays over.
Unnumbered ==
    \A d \in Drafts : /\ Numbered(d)' <=> Numbered(d)
                      /\ Numbered(d) => draft'[d].key = draft[d].key
                      /\ Numbered(d) /\ Over(d) => Over(d)'

\* Then the numbers do, too.
LEMMA NumbersStay ==
  ASSUME Unnumbered, NEW e
  PROVE  Attempts(e)' = Attempts(e) /\ \A m : Top(e, m)' <=> Top(e, m)
<1>1. Attempts(e)' = Attempts(e)
  BY DEF Unnumbered, Numbered, Attempts, Created
<1>2. \A d \in Attempts(e) : draft'[d].key = draft[d].key
  BY DEF Unnumbered, Numbered, Attempts
<1>3. ASSUME NEW m PROVE Top(e, m)' <=> Top(e, m)
  BY <1>1, <1>2 DEF Top
<1>4. QED
  BY <1>1, <1>3

\* The next number stays the next one for a process that does not move.
LEMMA NextStays ==
  ASSUME Unnumbered, NEW q \in Procs, NextNumber(q),
         at[q].pc \in Choosing, at'[q].key = at[q].key
  PROVE  NextNumber(q)'
<1>1. PICK k : k = at[q].key /\ at'[q].key = k
  OBVIOUS
<1>2. PICK e, m : e = k.epoch /\ m = k.n - 1
  OBVIOUS
<1>3. CASE ~(Fresh(q)')
  BY <1>3 DEF NextNumber
<1>4. CASE Fresh(q)'
  <2>1. k # NoKey
    BY <1>1, <1>4 DEF Fresh
  <2>2. Keyed(k) = {}
    BY <1>1, <1>4, <2>1 DEF Fresh, Keyed, Unnumbered, Numbered, Created
  <2>3. Top(e, m) /\ \A d \in Attempts(e) : Over(d)
    BY <1>1, <1>2, <2>1, <2>2 DEF NextNumber, Fresh
  <2>4. Attempts(e)' = Attempts(e) /\ Top(e, m)'
    BY <2>3, NumbersStay
  <2>5. \A d \in Attempts(e) : Over(d)'
    BY <2>3 DEF Unnumbered, Numbered, Attempts
  <2>6. at'[q].key.epoch = e /\ at'[q].key.n - 1 = m
    BY <1>1, <1>2
  <2>7. QED
    BY <2>4, <2>5, <2>6 DEF NextNumber
<1>5. QED
  BY <1>3, <1>4

\* No attempt is added, and each process still has the next number.
LEMMA NumberingStays ==
  ASSUME Numbering, Unnumbered, \A q \in Procs : NextNumber(q)'
  PROVE  Numbering'
<1>1. OneLive'
  <2>1. \A d \in Drafts : Numbered(d)' => /\ Numbered(d) /\ draft'[d].key = draft[d].key
                                          /\ (Over(d) => Over(d)')
    BY DEF Unnumbered
  <2>2. ASSUME NEW b \in Drafts, NEW c \in Drafts, b # c, Numbered(b)', Numbered(c)',
               draft'[b].key.epoch = draft'[c].key.epoch
        PROVE  Over(b)' \/ Over(c)'
    <3>1. /\ Numbered(b) /\ draft'[b].key = draft[b].key /\ (Over(b) => Over(b)')
          /\ Numbered(c) /\ draft'[c].key = draft[c].key /\ (Over(c) => Over(c)')
      BY <2>1, <2>2 DEF Numbered, Created, Over
    <3>2. draft[b].key.epoch = draft[c].key.epoch
      BY <2>2, <3>1
    <3>3. Over(b) \/ Over(c)
      BY <2>2, <3>1, <3>2 DEF OneLive, Numbering
    <3>4. QED
      BY <3>1, <3>3
  <2>3. QED
    BY <2>2 DEF OneLive
<1>2. \A e \in Epochs : \E m \in 0..MaxAttempts : Top(e, m)'
  BY NumbersStay DEF Numbering
<1>3. QED
  BY <1>1, <1>2 DEF Numbering, Epochs

\* A process that has left, or has no key, has no number to take.
LEMMA Numberless ==
  ASSUME NEW p \in Procs, at'[p].pc \notin Choosing \/ at'[p].key = NoKey
  PROVE  NextNumber(p)'
  BY DEF NextNumber, Fresh

\* One process moves.
LEMMA NumberingAround ==
  ASSUME Numbering, Unnumbered, NEW p \in Procs, Others(p),
         \/ NextNumber(p)'
         \/ at[p].pc \in Choosing /\ at'[p].key = at[p].key
  PROVE  Numbering'
<1>1. ASSUME NEW q \in Procs PROVE NextNumber(q)'
  <2>1. CASE q = p
    BY <2>1, NextStays DEF Numbering
  <2>2. CASE q # p
    <3>1. CASE at[q].pc \in Choosing
      BY <2>2, <3>1, NextStays DEF Others, Same, Numbering
    <3>2. CASE at[q].pc \notin Choosing
      BY <2>2, <3>2, Numberless DEF Others, Same, Choosing
    <3>3. QED
      BY <3>1, <3>2
  <2>3. QED
    BY <2>1, <2>2
<1>2. QED
  BY <1>1, NumberingStays

\* No process moves.
LEMMA NumberingOutside ==
  ASSUME Numbering, Unnumbered, Quiet
  PROVE  Numbering'
<1>1. ASSUME NEW q \in Procs PROVE NextNumber(q)'
  <2>1. CASE at[q].pc \in Choosing
    BY <2>1, NextStays DEF Quiet, Same, Numbering
  <2>2. CASE at[q].pc \notin Choosing
    BY <2>2, Numberless DEF Quiet, Same, Choosing
  <2>3. QED
    BY <2>1, <2>2
<1>2. QED
  BY <1>1, NumberingStays

\* The drafts stay.
LEMMA KeptUnnumbered ==
  ASSUME Kept, surrendered \subseteq surrendered'
  PROVE  Unnumbered
  BY DEF Kept, Unnumbered, Numbered, Over, Created

\* A row is written that was pending, or stays over.
LEMMA WriteUnnumbered ==
  ASSUME surrendered \subseteq surrendered', NEW d \in Drafts, NEW s, NEW g, NEW f,
         Writes(d, s, g, f), Over(d) => d \in surrendered \/ s \in {"CANCELED", "FAILED"}
  PROVE  Unnumbered
  BY DEF Writes, OtherDrafts, Unnumbered, Numbered, Over, Created

\* A payment changes.
LEMMA PaysUnnumbered ==
  ASSUME surrendered \subseteq surrendered', NEW d \in Drafts, NEW c, Pays(d, c)
  PROVE  Unnumbered
  BY DEF Pays, OtherDrafts, Unnumbered, Numbered, Over, Created

\* A draft is created without a key.
LEMMA KeylessUnnumbered ==
  ASSUME surrendered \subseteq surrendered', NEW d \in Drafts, ~Created(d), OtherDrafts(d),
         draft'[d].key = NoKey
  PROVE  Unnumbered
  BY DEF OtherDrafts, Unnumbered, Numbered, Over, Created

\* A cycle that has found every attempt over takes the next number.
LEMMA TakesNext ==
  ASSUME TypeOK, Numbering, Kept, surrendered \subseteq surrendered',
         NEW c \in Procs, NEW e \in Epochs, NEW m \in 0..MaxAttempts, Takes(c, e, m)
  PROVE  NextNumber(c)'
<1>1. Unnumbered
  BY KeptUnnumbered
<1>2. \A d \in Attempts(e) : Over(d)
  <2>1. \A d \in Attempts(e) : draft[d].status \in {"PENDING", "COMPLETED", "CANCELED", "FAILED"}
    BY TypeParts, Present DEF Attempts, Draft
  <2>2. QED
    BY <2>1 DEF Takes, Standing, Blocks, Over
<1>3. Attempts(e)' = Attempts(e) /\ Top(e, m)' /\ \A d \in Attempts(e) : Over(d)'
  <2>1. Top(e, m)
    BY DEF Takes
  <2>2. Attempts(e)' = Attempts(e) /\ Top(e, m)'
    BY <1>1, <2>1, NumbersStay
  <2>3. QED
    BY <1>1, <1>2, <2>2 DEF Unnumbered, Numbered, Attempts
<1>4. at'[c].key.epoch = e /\ at'[c].key.n - 1 = m
  BY Numbers DEF Takes
<1>5. QED
  BY <1>3, <1>4 DEF NextNumber

\* An attempt is created: it has the next number, and all before it are over.
LEMMA AttemptMade ==
  ASSUME TypeOK, Facts, Numbering, surrendered \subseteq surrendered',
         NEW p \in Procs, at[p].pc = "create", Others(p), at'[p].pc = "claim",
         NEW d \in Drafts, NEW k \in Keys, k = at[p].key, k # NoKey, Keyed(k) = {},
         ~Created(d), OtherDrafts(d), draft'[d] # NoDraft, draft'[d].key = k
  PROVE  Numbering'
<1>1. PICK e \in Epochs : e = k.epoch
  BY DEF Facts, KeyKnown
<1>2. Top(e, k.n - 1) /\ \A c \in Attempts(e) : Over(c)
  BY <1>1 DEF Numbering, NextNumber, Fresh, Choosing
<1>3. DraftsOK /\ \A c \in Drafts : c # d => draft'[c] = draft[c]
  BY TypeParts DEF OtherDrafts
<1>4. Attempts(e)' = Attempts(e) \cup {d} /\ d \notin Attempts(e)
  BY <1>1, <1>3 DEF Attempts, Created
<1>5. ASSUME NEW f \in Epochs, f # e
      PROVE  Attempts(f)' = Attempts(f) /\ \A m : Top(f, m)' <=> Top(f, m)
  <2>1. Attempts(f)' = Attempts(f)
    BY <1>1, <1>3, <1>5 DEF Attempts, Created
  <2>2. \A c \in Attempts(f) : draft'[c] = draft[c]
    BY <1>3 DEF Attempts
  <2>3. ASSUME NEW m PROVE Top(f, m)' <=> Top(f, m)
    BY <2>1, <2>2 DEF Top
  <2>4. QED
    BY <2>1, <2>3
<1>6. \A c \in Drafts : Created(c) /\ Over(c) => Over(c)'
  BY <1>3 DEF Over, Created
<1>7. \A f \in Epochs : \A c \in Attempts(f) : Over(c) => Over(c)'
  BY <1>6 DEF Attempts
<1>8. OneLive'
  <2>1. ASSUME NEW b \in Drafts, NEW c \in Drafts, b # c, Numbered(b)', Numbered(c)',
               draft'[b].key.epoch = draft'[c].key.epoch
        PROVE  Over(b)' \/ Over(c)'
    <3>1. \A f \in Drafts : f # d /\ Numbered(f)' => Numbered(f) /\ draft'[f] = draft[f]
      BY <1>3 DEF Numbered, Created
    <3>2. \A f \in Drafts : f # d /\ Numbered(f)' /\ draft'[f].key.epoch = e => Over(f)'
      BY <1>2, <1>7, <3>1 DEF Numbered, Attempts
    <3>3. draft'[d].key.epoch = e
      BY <1>1
    <3>4. CASE b = d \/ c = d
      BY <2>1, <3>2, <3>3, <3>4
    <3>5. CASE b # d /\ c # d
      <4>1. Over(b) \/ Over(c)
        BY <2>1, <3>1, <3>5 DEF Numbering, OneLive
      <4>2. QED
        BY <1>6, <2>1, <3>1, <3>5, <4>1 DEF Numbered
    <3>6. QED
      BY <3>4, <3>5
  <2>2. QED
    BY <2>1 DEF OneLive
<1>9. Top(e, k.n)'
  <2>1. k.n \in 0..MaxAttempts /\ \A c \in Attempts(e) : draft[c].key.n <= k.n - 1
    BY <1>2 DEF Keys, Top
  <2>2. \A c \in Attempts(e) : draft'[c].key.n <= k.n
    <3>1. \A c \in Attempts(e) : draft'[c] = draft[c] /\ draft[c].key.n \in Nat
      BY <1>3, <1>4, Present DEF Attempts, Draft, Keys
    <3>2. QED
      BY <2>1, <3>1, Numbers
  <2>3. QED
    BY <1>4, <2>1, <2>2, Numbers DEF Top
<1>10. \A f \in Epochs : \E m \in 0..MaxAttempts : Top(f, m)'
  <2>1. k.n \in 0..MaxAttempts
    BY DEF Keys
  <2>2. QED
    BY <1>5, <1>9, <2>1 DEF Numbering
<1>11. ASSUME NEW q \in Procs PROVE NextNumber(q)'
  <2>1. CASE q = p
    BY <2>1, Numberless DEF Choosing
  <2>2. CASE q # p
    <3>1. PICK j \in Keys : j = at[q].key /\ at'[q].key = j
      BY <2>2, TypeParts DEF Others, Same, AtOK, Process
    <3>2. CASE ~(Fresh(q)')
      BY <3>2 DEF NextNumber
    <3>3. CASE Fresh(q)'
      <4>1. at[q].pc \in Choosing /\ j # NoKey /\ Keyed(j)' = {}
        BY <2>2, <3>1, <3>3 DEF Fresh, Others, Same, Choosing
      <4>2. Keyed(j) = {} /\ j # k
        BY <1>3, <4>1 DEF Keyed, Created
      <4>3. j.epoch \in Epochs /\ Top(j.epoch, j.n - 1) /\ \A c \in Attempts(j.epoch) : Over(c)
        BY <3>1, <4>1, <4>2 DEF Facts, KeyKnown, Numbering, NextNumber, Fresh
      <4>4. j.epoch # e
        <5>1. CASE j.epoch = e
          <6>1. k.n - 1 = UsedAttempts(e) /\ j.n - 1 = UsedAttempts(e)
            BY <1>2, <1>3, <4>3, <5>1, UsedIsTop DEF Top
          <6>2. k.n = j.n
            BY <6>1, Numbers DEF Keys
          <6>3. k = j
            BY <1>1, <5>1, <6>2 DEF Keys
          <6>4. QED
            BY <4>2, <6>3
        <5>2. QED
          BY <5>1
      <4>5. PICK f \in Epochs : f = j.epoch /\ f # e
        BY <4>3, <4>4
      <4>6. PICK m : m = j.n - 1
        OBVIOUS
      <4>7. Attempts(f)' = Attempts(f) /\ Top(f, m)' /\ \A c \in Attempts(f) : Over(c)'
        BY <1>5, <1>7, <4>3, <4>5, <4>6
      <4>8. at'[q].key.epoch = f /\ at'[q].key.n - 1 = m
        BY <3>1, <4>5, <4>6
      <4>9. QED
        BY <4>7, <4>8 DEF NextNumber
    <3>4. QED
      BY <3>2, <3>3
  <2>3. QED
    BY <2>1, <2>2
<1>12. QED
  BY <1>8, <1>10, <1>11 DEF Numbering, Epochs

\* The numbers of the attempts, at every step.
LEMMA NumberingStep ==
  ASSUME TypeOK, Facts, Numbering, [Next]_checkoutVars
  PROVE  Numbering'
<1>1. AtOK /\ DraftsOK
  BY TypeParts
<1>2. /\ \A p \in Procs : DraftKnown(p) /\ KeyKnown(p)
      /\ \A d \in Drafts : DraftOf(d)
  BY DEF Facts
<1>3. ASSUME NEW p \in Procs, Leaves(p), Unnumbered PROVE Numbering'
  BY <1>3, LeavesKnown, Numberless, NumberingAround
<1>4. ASSUME NEW p \in Procs, Others(p), Unnumbered,
             at'[p].pc \in {"claim", "lock", "submit", "persist", "void", "settle"}
      PROVE  Numbering'
  BY <1>4, Numberless, NumberingAround DEF Choosing
<1>5. ASSUME NEW p \in Procs, Lookup(p) PROVE Numbering'
  <2>1. surrendered' = surrendered
    BY <1>5 DEF Lookup, rest
  <2>2. Unnumbered /\ at[p].pc \in Choosing
    BY <1>2, <1>5, <2>1, LookupEffect, KeptUnnumbered DEF Choosing
  <2>3. QED
    BY <1>2, <1>3, <1>5, <2>2, LookupEffect, NumberingAround DEF Goes
<1>6. ASSUME NEW p \in Procs, Draw(p) PROVE Numbering'
  <2>1. surrendered' = surrendered
    BY <1>6 DEF Draw, rest
  <2>2. Unnumbered /\ at[p].pc \in Choosing
    BY <1>2, <1>6, <2>1, DrawEffect, KeptUnnumbered DEF Choosing
  <2>3. QED
    BY <1>2, <1>3, <1>4, <1>6, <2>2, DrawEffect, NumberingAround DEF Goes, Turns
<1>7. ASSUME NEW p \in Procs, Create(p) PROVE Numbering'
  <2>1. surrendered' = surrendered
    BY <1>7 DEF Create, rest
  <2>2. CASE Kept /\ Leaves(p)
    BY <1>3, <2>1, <2>2, KeptUnnumbered
  <2>3. CASE ~(Kept /\ Leaves(p))
    <3>1. PICK d \in Drafts :
               /\ ~Created(d) /\ OtherDrafts(d) /\ Turns(p, d) /\ Keyed(at[p].key) = {}
               /\ draft'[d] # NoDraft /\ draft'[d].key = at[p].key
      BY <1>2, <1>7, <2>3, CreateEffect
    <3>2. PICK k \in Keys : k = at[p].key
      BY <1>1 DEF AtOK, Process
    <3>3. Others(p) /\ at'[p].pc = "claim" /\ at[p].pc = "create"
      BY <1>2, <1>7, <3>1, CreateEffect DEF Turns
    <3>4. CASE k = NoKey
      BY <1>4, <2>1, <3>1, <3>2, <3>3, <3>4, KeylessUnnumbered
    <3>5. CASE k # NoKey
      BY <2>1, <3>1, <3>2, <3>3, <3>5, AttemptMade
    <3>6. QED
      BY <3>4, <3>5
  <2>4. QED
    BY <2>2, <2>3
<1>8. ASSUME NEW p \in Procs, Claim(p) PROVE Numbering'
  <2>1. surrendered' = surrendered
    BY <1>8 DEF Claim, rest
  <2>2. PICK d \in Drafts : d = at[p].draft /\ Created(d)
    BY <1>2, <1>8 DEF Claim, DraftKnown, OnDraft
  <2>3. CASE Kept /\ Leaves(p)
    BY <1>3, <2>1, <2>3, KeptUnnumbered
  <2>4. CASE ~(Kept /\ Leaves(p))
    <3>1. /\ draft[d].status = "PENDING" /\ Writes(d, "PENDING", "claim", draft[d].fulfilled)
          /\ Goes(p, "lock") \/ Goes(p, "submit")
      BY <1>2, <1>8, <2>2, <2>4, ClaimEffect
    <3>2. Unnumbered
      BY <2>1, <3>1, WriteUnnumbered DEF Over
    <3>3. QED
      BY <1>4, <3>1, <3>2 DEF Goes
  <2>5. QED
    BY <2>3, <2>4
<1>9. ASSUME NEW p \in Procs, Lock(p) PROVE Numbering'
  <2>1. surrendered' = surrendered
    BY <1>9 DEF Lock, rest
  <2>2. PICK d \in Drafts : d = at[p].draft /\ Created(d)
    BY <1>2, <1>9 DEF Lock, DraftKnown, OnDraft
  <2>3. Unnumbered
    <3>1. CASE Kept
      BY <2>1, <3>1, KeptUnnumbered
    <3>2. CASE Writes(d, "FAILED", "none", draft[d].fulfilled)
      BY <2>1, <3>2, WriteUnnumbered
    <3>3. QED
      BY <1>2, <1>9, <2>2, <3>1, <3>2, LockEffect
  <2>4. QED
    BY <1>2, <1>3, <1>4, <1>9, <2>2, <2>3, LockEffect DEF Goes
<1>10. ASSUME NEW p \in Procs, Submit(p) PROVE Numbering'
  <2>1. surrendered' = surrendered
    BY <1>10 DEF Submit, rest
  <2>2. PICK d \in Drafts : d = at[p].draft /\ Created(d)
    BY <1>2, <1>10 DEF Submit, DraftKnown, OnDraft
  <2>3. Unnumbered
    BY <1>2, <1>10, <2>1, <2>2, SubmitEffect, PaysUnnumbered
  <2>4. QED
    BY <1>2, <1>3, <1>4, <1>10, <2>2, <2>3, SubmitEffect
<1>11. ASSUME NEW p \in Procs, Persist(p) PROVE Numbering'
  <2>1. surrendered' = surrendered
    BY <1>11 DEF Persist, rest
  <2>2. PICK d \in Drafts : d = at[p].draft /\ Created(d)
    BY <1>2, <1>11 DEF Persist, DraftKnown, OnDraft
  <2>3. Unnumbered
    BY <1>2, <1>11, <2>1, <2>2, PersistEffect, WriteUnnumbered DEF Over
  <2>4. QED
    BY <1>2, <1>3, <1>4, <1>11, <2>2, <2>3, PersistEffect DEF Goes
<1>12. ASSUME NEW p \in Procs, Void(p) PROVE Numbering'
  <2>1. surrendered' = surrendered
    BY <1>12 DEF Void
  <2>2. PICK d \in Drafts : d = at[p].draft /\ Created(d)
    BY <1>2, <1>12 DEF Void, DraftKnown, OnDraft
  <2>3. Unnumbered
    BY <1>2, <1>12, <2>1, <2>2, VoidEffect, WriteUnnumbered
  <2>4. QED
    BY <1>2, <1>3, <1>12, <2>2, <2>3, VoidEffect
<1>13. ASSUME NEW p \in Procs, Settle(p) PROVE Numbering'
  <2>1. surrendered' = surrendered
    BY <1>13 DEF Settle, rest
  <2>2. PICK d \in Drafts : d = at[p].draft /\ Created(d)
    BY <1>2, <1>13 DEF Settle, DraftKnown, OnDraft
  <2>3. Unnumbered
    BY <1>2, <1>13, <2>1, <2>2, SettleEffect, WriteUnnumbered, KeptUnnumbered DEF Over
  <2>4. QED
    BY <1>2, <1>3, <1>13, <2>2, <2>3, SettleEffect
<1>14. ASSUME NEW p \in Procs, Start(p) \/ CycleStep(p) PROVE Numbering'
  <2>1. surrendered' = surrendered
    BY <1>14 DEF Start, CycleStep, Attempt, Scan, Judge, Retry, Charged,
       After, Expire, cycleRest
  <2>2. Kept /\ Unnumbered
    BY <1>2, <1>14, <2>1, CycleEffect, KeptUnnumbered
  <2>3. CASE \E e \in Epochs : \E m \in 0..MaxAttempts : Takes(p, e, m)
    <3>1. NextNumber(p)' /\ Others(p)
      BY <2>1, <2>2, <2>3, TakesNext DEF Takes
    <3>2. QED
      BY <2>2, <3>1, NumberingAround
  <2>4. QED
    BY <1>2, <1>3, <1>14, <2>2, <2>3, CycleEffect
<1>15. ASSUME NEW p \in Procs, Request(p) PROVE Numbering'
  <2>1. surrendered' = surrendered
    BY <1>15 DEF Request
  <2>2. QED
    BY <1>15, <2>1, OtherEffects, KeptUnnumbered, Numberless, NumberingAround
<1>16. ASSUME NEW p \in Procs, LockExpires(p) PROVE Numbering'
  <2>1. surrendered' = surrendered
    BY <1>16 DEF LockExpires
  <2>2. QED
    BY <1>16, <2>1, OtherEffects, KeptUnnumbered, NumberingOutside
<1>17. ASSUME NEW p \in Procs, Crash(p) PROVE Numbering'
  <2>1. surrendered' = surrendered
    BY <1>17 DEF Crash
  <2>2. QED
    BY <1>3, <1>17, <2>1, OtherEffects, KeptUnnumbered
<1>18. ASSUME NEW d \in Drafts, Confirm(d) PROVE Numbering'
  <2>1. surrendered' = surrendered
    BY <1>18 DEF Confirm, working
  <2>2. QED
    BY <1>2, <1>18, <2>1, ProviderEffects, PaysUnnumbered, NumberingOutside
<1>19. ASSUME NEW d \in Drafts, Notify(d) PROVE Numbering'
  <2>1. surrendered' = surrendered
    BY <1>19 DEF Notify, working
  <2>2. Quiet
    BY <1>2, <1>19, ProviderEffects
  <2>3. Unnumbered
    <3>1. CASE charge[d] = "paid" /\ Writes(d, "COMPLETED", "real", TRUE)
      <4>1. Over(d) => d \in surrendered
        BY <1>2, <3>1 DEF DraftOf, Over, Writes
      <4>2. QED
        BY <2>1, <3>1, <4>1, WriteUnnumbered
    <3>2. CASE Writes(d, "CANCELED", "real", draft[d].fulfilled)
      BY <2>1, <3>2, WriteUnnumbered
    <3>3. QED
      BY <1>2, <1>19, <3>1, <3>2, ProviderEffects
  <2>4. QED
    BY <2>2, <2>3, NumberingOutside
<1>20. ASSUME NEW d \in Drafts, Age(d) PROVE Numbering'
  <2>1. surrendered' = surrendered
    BY <1>20 DEF Age, working
  <2>2. QED
    BY <1>20, <2>1, SweepEffects, KeptUnnumbered, NumberingOutside
<1>21. ASSUME NEW d \in Drafts, SweepRead(d) PROVE Numbering'
  <2>1. surrendered' = surrendered
    BY <1>21 DEF SweepRead, working
  <2>2. QED
    BY <1>21, <2>1, SweepEffects, WriteUnnumbered, KeptUnnumbered, NumberingOutside DEF Over
<1>22. ASSUME NEW d \in Drafts, Abandon(d) PROVE Numbering'
  <2>1. surrendered' = surrendered
    BY <1>22 DEF Abandon, working
  <2>2. QED
    BY <1>22, <2>1, SweepEffects, KeptUnnumbered, NumberingOutside
<1>23. ASSUME Drop PROVE Numbering'
  <2>1. QED
    BY <1>23, DropEffect, KeptUnnumbered, WriteUnnumbered, NumberingOutside
<1>24. ASSUME Toggle PROVE Numbering'
  <2>1. surrendered' = surrendered
    BY <1>24 DEF Toggle
  <2>2. QED
    BY <1>24, <2>1, OtherEffects, KeptUnnumbered, NumberingOutside
<1>25. ASSUME Advance PROVE Numbering'
  <2>1. surrendered' = surrendered
    BY <1>25 DEF Advance, cycleRest
  <2>2. QED
    BY <1>25, <2>1, OtherEffects, KeptUnnumbered, NumberingOutside
<1>26. ASSUME UNCHANGED checkoutVars PROVE Numbering'
  BY <1>26, Stuttering, KeptUnnumbered, NumberingOutside
<1>27. QED
  BY <1>5, <1>6, <1>7, <1>8, <1>9, <1>10, <1>11, <1>12, <1>13, <1>14, <1>15,
     <1>16, <1>17, <1>18, <1>19, <1>20, <1>21, <1>22, <1>23, <1>24, <1>25,
     <1>26, AutoRenewAssumption DEF Next, CheckoutStep, Environment

------------------------------------------------------------------------------
(***************************************************************************)
(* The renewals, and the subscription they move.                           *)
(***************************************************************************)

\* A step that renews nothing, and one that renews for one draft.
NoneRenewed == Renewals' = Renewals /\ sub'.epoch = sub.epoch
OneRenewed ==
    \E d \in Drafts \ Renewals : Renewals' = Renewals \cup {d} /\ sub' = Renewed

\* The drafts stay, or a row or a payment changes without a delivery.
LEMMA RenewalsKept ==
  ASSUME Kept
  PROVE  Renewals' = Renewals
  BY DEF Kept, Renewals, Created

LEMMA RenewalsWritten ==
  ASSUME NEW d \in Drafts, NEW status, NEW gate, Writes(d, status, gate, draft[d].fulfilled)
  PROVE  Renewals' = Renewals
  BY DEF Writes, OtherDrafts, Renewals, Created

LEMMA RenewalsPaid ==
  ASSUME NEW d \in Drafts, NEW c, Pays(d, c)
  PROVE  Renewals' = Renewals
  BY DEF Pays, OtherDrafts, Renewals, Created

LEMMA RenewalsCreated ==
  ASSUME NEW d \in Drafts, ~Created(d), OtherDrafts(d), draft'[d].fulfilled = FALSE
  PROVE  Renewals' = Renewals
  BY DEF OtherDrafts, Renewals, Created

\* A delivery.
LEMMA RenewalsAdded ==
  ASSUME NEW d \in Drafts, NEW gate, Writes(d, "COMPLETED", gate, TRUE), sub' = Renewed,
         DraftOf(d), draft[d].status = "PENDING" \/ ~draft[d].fulfilled
  PROVE  OneRenewed
<1>1. d \notin Renewals
  BY DEF DraftOf, Renewals
<1>2. Renewals' = Renewals \cup {d}
  BY DEF Writes, OtherDrafts, Renewals, Created
<1>3. QED
  BY <1>1, <1>2 DEF OneRenewed

\* The renewals at every step.
LEMMA RenewalsStep ==
  ASSUME TypeOK, Facts, Numbering, [Next]_checkoutVars
  PROVE  NoneRenewed \/ OneRenewed
<1>1. sub \in [status : {"ACTIVE", "EXPIRED"}, epoch : Epochs, phase : {"early", "window", "past"}]
  BY DEF TypeOK
<1>2. /\ \A p \in Procs : DraftKnown(p) /\ KeyKnown(p)
      /\ \A d \in Drafts : DraftOf(d)
  BY DEF Facts
<1>3. ASSUME NEW p \in Procs, Lookup(p) PROVE NoneRenewed \/ OneRenewed
  <2>1. sub'.epoch = sub.epoch
    BY <1>1, <1>3 DEF Lookup
  <2>2. Renewals' = Renewals
    BY <1>2, <1>3, LookupEffect, RenewalsKept
  <2>3. QED
    BY <2>1, <2>2 DEF NoneRenewed
<1>4. ASSUME NEW p \in Procs, Draw(p) PROVE NoneRenewed \/ OneRenewed
  <2>1. sub'.epoch = sub.epoch
    BY <1>1, <1>4 DEF Draw
  <2>2. Renewals' = Renewals
    BY <1>2, <1>4, DrawEffect, RenewalsKept
  <2>3. QED
    BY <2>1, <2>2 DEF NoneRenewed
<1>5. ASSUME NEW p \in Procs, Create(p) PROVE NoneRenewed \/ OneRenewed
  <2>1. sub'.epoch = sub.epoch
    BY <1>1, <1>5 DEF Create
  <2>2. Renewals' = Renewals
    BY <1>2, <1>5, CreateEffect, RenewalsKept, RenewalsCreated
  <2>3. QED
    BY <2>1, <2>2 DEF NoneRenewed
<1>6. ASSUME NEW p \in Procs, Claim(p) PROVE NoneRenewed \/ OneRenewed
  <2>1. PICK d \in Drafts : d = at[p].draft /\ Created(d)
    BY <1>2, <1>6 DEF Claim, DraftKnown, OnDraft
  <2>2. sub'.epoch = sub.epoch
    BY <1>1, <1>6 DEF Claim
  <2>3. Renewals' = Renewals
    BY <1>2, <1>6, <2>1, ClaimEffect, RenewalsKept, RenewalsWritten
  <2>4. QED
    BY <2>2, <2>3 DEF NoneRenewed
<1>7. ASSUME NEW p \in Procs, Lock(p) PROVE NoneRenewed \/ OneRenewed
  <2>1. PICK d \in Drafts : d = at[p].draft /\ Created(d)
    BY <1>2, <1>7 DEF Lock, DraftKnown, OnDraft
  <2>2. sub'.epoch = sub.epoch
    BY <1>1, <1>7 DEF Lock
  <2>3. Renewals' = Renewals
    BY <1>2, <1>7, <2>1, LockEffect, RenewalsKept, RenewalsWritten
  <2>4. QED
    BY <2>2, <2>3 DEF NoneRenewed
<1>8. ASSUME NEW p \in Procs, Submit(p) PROVE NoneRenewed \/ OneRenewed
  <2>1. PICK d \in Drafts : d = at[p].draft /\ Created(d)
    BY <1>2, <1>8 DEF Submit, DraftKnown, OnDraft
  <2>2. sub'.epoch = sub.epoch
    BY <1>1, <1>8 DEF Submit
  <2>3. Renewals' = Renewals
    BY <1>2, <1>8, <2>1, SubmitEffect, RenewalsPaid
  <2>4. QED
    BY <2>2, <2>3 DEF NoneRenewed
<1>9. ASSUME NEW p \in Procs, Persist(p) PROVE NoneRenewed \/ OneRenewed
  <2>1. PICK d \in Drafts : d = at[p].draft /\ Created(d)
    BY <1>2, <1>9 DEF Persist, DraftKnown, OnDraft
  <2>2. sub'.epoch = sub.epoch
    BY <1>1, <1>9 DEF Persist
  <2>3. Renewals' = Renewals
    BY <1>2, <1>9, <2>1, PersistEffect, RenewalsWritten
  <2>4. QED
    BY <2>2, <2>3 DEF NoneRenewed
<1>10. ASSUME NEW p \in Procs, Void(p) PROVE NoneRenewed \/ OneRenewed
  <2>1. PICK d \in Drafts : d = at[p].draft /\ Created(d)
    BY <1>2, <1>10 DEF Void, DraftKnown, OnDraft
  <2>2. sub'.epoch = sub.epoch
    BY <1>1, <1>10 DEF Void
  <2>3. Renewals' = Renewals
    BY <1>2, <1>10, <2>1, VoidEffect, RenewalsWritten
  <2>4. QED
    BY <2>2, <2>3 DEF NoneRenewed
<1>11. ASSUME NEW p \in Procs, Settle(p) PROVE NoneRenewed \/ OneRenewed
  <2>1. PICK d \in Drafts : d = at[p].draft /\ Created(d)
    BY <1>2, <1>11 DEF Settle, DraftKnown, OnDraft
  <2>2. CASE /\ sub' = Renewed /\ draft[d].status = "PENDING"
             /\ Writes(d, "COMPLETED", draft[d].gate, TRUE)
    BY <1>2, <2>2, RenewalsAdded
  <2>3. CASE sub' = sub /\ Renewals' = Renewals
    BY <2>3 DEF NoneRenewed
  <2>4. QED
    BY <1>2, <1>11, <2>1, <2>2, <2>3, SettleEffect, RenewalsKept, RenewalsWritten
<1>12. ASSUME NEW p \in Procs, Start(p) \/ CycleStep(p)
       PROVE  NoneRenewed \/ OneRenewed
  <2>1. sub'.epoch = sub.epoch
    BY <1>1, <1>12 DEF Start, CycleStep, Attempt, Scan, Judge, Retry, Charged,
       After, Expire, cycleRest
  <2>2. Renewals' = Renewals
    BY <1>2, <1>12, CycleEffect, RenewalsKept
  <2>3. QED
    BY <2>1, <2>2 DEF NoneRenewed
<1>13. ASSUME NEW p \in Procs, Request(p) PROVE NoneRenewed \/ OneRenewed
  <2>1. sub'.epoch = sub.epoch
    BY <1>1, <1>13 DEF Request
  <2>2. Renewals' = Renewals
    BY <1>2, <1>13, OtherEffects, RenewalsKept
  <2>3. QED
    BY <2>1, <2>2 DEF NoneRenewed
<1>14. ASSUME NEW p \in Procs, LockExpires(p) PROVE NoneRenewed \/ OneRenewed
  <2>1. sub'.epoch = sub.epoch
    BY <1>1, <1>14 DEF LockExpires
  <2>2. Renewals' = Renewals
    BY <1>2, <1>14, OtherEffects, RenewalsKept
  <2>3. QED
    BY <2>1, <2>2 DEF NoneRenewed
<1>15. ASSUME NEW p \in Procs, Crash(p) PROVE NoneRenewed \/ OneRenewed
  <2>1. sub'.epoch = sub.epoch
    BY <1>1, <1>15 DEF Crash
  <2>2. Renewals' = Renewals
    BY <1>2, <1>15, OtherEffects, RenewalsKept
  <2>3. QED
    BY <2>1, <2>2 DEF NoneRenewed
<1>16. ASSUME NEW d \in Drafts, Confirm(d) PROVE NoneRenewed \/ OneRenewed
  <2>1. sub'.epoch = sub.epoch
    BY <1>1, <1>16 DEF Confirm, working
  <2>2. Renewals' = Renewals
    BY <1>2, <1>16, ProviderEffects, RenewalsPaid
  <2>3. QED
    BY <2>1, <2>2 DEF NoneRenewed
<1>17. ASSUME NEW d \in Drafts, Notify(d) PROVE NoneRenewed \/ OneRenewed
  <2>1. CASE sub' = Renewed /\ ~draft[d].fulfilled /\ Writes(d, "COMPLETED", "real", TRUE)
    BY <1>2, <2>1, RenewalsAdded
  <2>2. CASE sub' = sub /\ Renewals' = Renewals
    BY <2>2 DEF NoneRenewed
  <2>3. QED
    BY <1>2, <1>17, <2>1, <2>2, ProviderEffects, RenewalsWritten
<1>18. ASSUME NEW d \in Drafts, Age(d) PROVE NoneRenewed \/ OneRenewed
  <2>1. sub'.epoch = sub.epoch
    BY <1>1, <1>18 DEF Age, working
  <2>2. Renewals' = Renewals
    BY <1>2, <1>18, SweepEffects, RenewalsKept
  <2>3. QED
    BY <2>1, <2>2 DEF NoneRenewed
<1>19. ASSUME NEW d \in Drafts, SweepRead(d) PROVE NoneRenewed \/ OneRenewed
  <2>1. CASE /\ sub' = Renewed /\ draft[d].status = "PENDING"
             /\ Writes(d, "COMPLETED", draft[d].gate, TRUE)
    BY <1>2, <2>1, RenewalsAdded
  <2>2. CASE sub' = sub /\ Renewals' = Renewals
    BY <2>2 DEF NoneRenewed
  <2>3. QED
    BY <1>19, <2>1, <2>2, SweepEffects, RenewalsKept
<1>20. ASSUME NEW d \in Drafts, Abandon(d) PROVE NoneRenewed \/ OneRenewed
  <2>1. sub'.epoch = sub.epoch
    BY <1>1, <1>20 DEF Abandon, working
  <2>2. Renewals' = Renewals
    BY <1>2, <1>20, SweepEffects, RenewalsKept
  <2>3. QED
    BY <2>1, <2>2 DEF NoneRenewed
<1>21. ASSUME Drop PROVE NoneRenewed \/ OneRenewed
  <2>1. sub'.epoch = sub.epoch
    BY <1>1, <1>21 DEF Drop
  <2>2. Renewals' = Renewals
    BY <1>2, <1>21, DropEffect, RenewalsKept, RenewalsWritten
  <2>3. QED
    BY <2>1, <2>2 DEF NoneRenewed
<1>22. ASSUME Toggle PROVE NoneRenewed \/ OneRenewed
  <2>1. sub'.epoch = sub.epoch
    BY <1>1, <1>22 DEF Toggle
  <2>2. Renewals' = Renewals
    BY <1>2, <1>22, OtherEffects, RenewalsKept
  <2>3. QED
    BY <2>1, <2>2 DEF NoneRenewed
<1>23. ASSUME Advance PROVE NoneRenewed \/ OneRenewed
  <2>1. sub'.epoch = sub.epoch
    BY <1>1, <1>23 DEF Advance
  <2>2. Renewals' = Renewals
    BY <1>2, <1>23, OtherEffects, RenewalsKept
  <2>3. QED
    BY <2>1, <2>2 DEF NoneRenewed
<1>24. ASSUME UNCHANGED checkoutVars PROVE NoneRenewed \/ OneRenewed
  BY <1>24, Stuttering, RenewalsKept DEF NoneRenewed
<1>25. QED
  BY <1>3, <1>4, <1>5, <1>6, <1>7, <1>8, <1>9, <1>10, <1>11, <1>12, <1>13,
     <1>14, <1>15, <1>16, <1>17, <1>18, <1>19, <1>20, <1>21, <1>22, <1>23,
     <1>24, AutoRenewAssumption DEF Next, CheckoutStep, Environment

\* The renewals are counted in the epoch.
LEMMA CountedStep ==
  ASSUME TypeOK, Facts, Numbering, Counted, [Next]_checkoutVars
  PROVE  Counted'
<1>1. IsFiniteSet(Renewals) /\ Cardinality(Renewals) \in Nat
  <2>1. IsFiniteSet(Drafts) /\ Renewals \subseteq Drafts
    BY FS_Interval, RenewalAssumption DEF Drafts, Renewals
  <2>2. QED
    BY <2>1, FS_Subset, FS_CardinalityType
<1>2. CASE NoneRenewed
  BY <1>2 DEF NoneRenewed, Counted
<1>3. CASE OneRenewed
  <2>1. PICK d \in Drafts \ Renewals : Renewals' = Renewals \cup {d} /\ sub' = Renewed
    BY <1>3 DEF OneRenewed
  <2>2. Cardinality(Renewals') = Cardinality(Renewals) + 1
    BY <1>1, <2>1, FS_AddElement
  <2>3. sub'.epoch = sub.epoch + 1
    BY <2>1 DEF Renewed
  <2>4. QED
    BY <1>1, <2>2, <2>3 DEF Counted
<1>4. QED
  BY <1>2, <1>3, RenewalsStep

\* So there are no more of them than drafts.
LEMMA EpochBoundNext ==
  ASSUME Counted'
  PROVE  sub'.epoch \in Epochs
<1>1. /\ IsFiniteSet(Drafts) /\ Cardinality(Drafts) = MaxDrafts /\ Renewals' \subseteq Drafts
  BY FS_Interval, RenewalAssumption DEF Drafts, Renewals
<1>2. Cardinality(Renewals') \in Nat /\ Cardinality(Renewals') <= MaxDrafts
  BY <1>1, FS_Subset, FS_CardinalityType
<1>3. QED
  BY <1>2, Numbers DEF Counted, Epochs

\* The forms the subscription takes.
LEMMA SubStep ==
  ASSUME SubOK, [Next]_checkoutVars
  PROVE  \/ sub' = sub
         \/ sub' = Renewed
         \/ sub' = [sub EXCEPT !.status = "EXPIRED"]
         \/ \E phase \in {"window", "past"} : sub' = [sub EXCEPT !.phase = phase]
<1>1. ASSUME NEW p \in Procs, CheckoutStep(p) PROVE sub' = sub \/ sub' = Renewed
  BY <1>1 DEF CheckoutStep, Lookup, Draw, Create, Claim, Lock, Submit, Persist, Void, Settle, rest
<1>2. ASSUME NEW c \in Cycles, Start(c) \/ CycleStep(c)
      PROVE  sub' = sub \/ sub' = [sub EXCEPT !.status = "EXPIRED"]
  BY <1>2 DEF Start, CycleStep, Attempt, Scan, Judge, Retry, Charged, After, Expire
<1>3. ASSUME NEW p \in Requests, Request(p) PROVE sub' = sub
  BY <1>3 DEF Request
<1>4. ASSUME Environment PROVE sub' = sub \/ sub' = Renewed
  BY <1>4 DEF Environment, Confirm, Notify, Age, SweepRead, Abandon, Drop, Toggle,
              LockExpires, Crash
<1>5. ASSUME Advance
      PROVE  \E phase \in {"window", "past"} : sub' = [sub EXCEPT !.phase = phase]
  <2>1. sub' = [sub EXCEPT !.phase = "window"] \/ sub' = [sub EXCEPT !.phase = "past"]
    BY <1>5 DEF Advance, SubOK
  <2>2. QED
    BY <2>1
<1>6. CASE UNCHANGED checkoutVars
  BY <1>6 DEF checkoutVars
<1>7. QED
  BY <1>1, <1>2, <1>3, <1>4, <1>5, <1>6 DEF Next

\* The subscription is typed at every step.
LEMMA SubTyped ==
  ASSUME TypeOK, Facts, Numbering, Counted, [Next]_checkoutVars
  PROVE  SubOK'
<1>1. SubOK
  BY TypeParts
<1>2. sub'.epoch \in Epochs
  BY CountedStep, EpochBoundNext
<1>3. QED
  BY <1>1, <1>2, SubStep DEF SubOK, Renewed


------------------------------------------------------------------------------
(***************************************************************************)
(* The lock of the card.                                                   *)
(***************************************************************************)

\* The card a draft is for does not change.
SameCards == \A d \in Drafts : Created(d) => draft'[d].saved = draft[d].saved

LEMMA CardsKept ==
  ASSUME Kept
  PROVE  SameCards
  BY DEF Kept, SameCards

LEMMA CardsWritten ==
  ASSUME NEW d \in Drafts, NEW status, NEW gate, NEW fulfilled, Writes(d, status, gate, fulfilled)
  PROVE  SameCards
  BY DEF Writes, OtherDrafts, SameCards

LEMMA CardsPaid ==
  ASSUME NEW d \in Drafts, NEW c, Pays(d, c)
  PROVE  SameCards
  BY DEF Pays, OtherDrafts, SameCards

LEMMA CardsCreated ==
  ASSUME NEW d \in Drafts, ~Created(d), OtherDrafts(d)
  PROVE  SameCards
  BY DEF OtherDrafts, SameCards

\* A process that does not move still charges under the lock, unless it times out.
LEMMA LockedStays ==
  ASSUME NEW q \in Procs, Same(q), DraftKnown(q), Locked(q), SameCards,
         unlocked \subseteq unlocked',
         at[q].pc = "submit" /\ lock = q => lock' = q \/ at[q].draft \in unlocked'
  PROVE  Locked(q)'
<1>1. PICK r : r = at[q] /\ at'[q] = r
  BY DEF Same
<1>2. CASE r.pc = "submit"
  <2>1. PICK d \in Drafts : d = r.draft /\ Created(d)
    BY <1>1, <1>2 DEF DraftKnown, OnDraft
  <2>2. draft'[d].saved = draft[d].saved
    BY <2>1 DEF SameCards
  <2>3. draft[d].saved => lock' = q \/ d \in unlocked'
    BY <1>1, <1>2, <2>1 DEF Locked
  <2>4. at'[q].draft = d
    BY <1>1, <2>1
  <2>5. QED
    BY <2>2, <2>3, <2>4 DEF Locked
<1>3. CASE r.pc # "submit"
  BY <1>1, <1>3 DEF Locked
<1>4. QED
  BY <1>2, <1>3

\* One process moves and takes the lock from nobody else.
LEMMA LockAround ==
  ASSUME Facts, LockKnown, SameCards, unlocked \subseteq unlocked', lock' # Nobody => enabled',
         NEW p \in Procs, Others(p), Locked(p)',
         \A q \in Procs : q # p /\ lock = q => lock' = q
  PROVE  LockKnown'
<1>1. ASSUME NEW q \in Procs PROVE Locked(q)'
  <2>1. CASE q = p
    BY <2>1
  <2>2. CASE q # p
    BY <2>2, LockedStays DEF Others, Facts, LockKnown
  <2>3. QED
    BY <2>1, <2>2
<1>2. QED
  BY <1>1 DEF LockKnown

\* No process moves.
LEMMA LockOutside ==
  ASSUME Facts, LockKnown, SameCards, unlocked \subseteq unlocked', lock' # Nobody => enabled',
         Quiet,
         \A q \in Procs : at[q].pc = "submit" /\ lock = q => lock' = q \/ at[q].draft \in unlocked'
  PROVE  LockKnown'
<1>1. ASSUME NEW q \in Procs PROVE Locked(q)'
  BY LockedStays DEF Quiet, Facts, LockKnown
<1>2. QED
  BY <1>1 DEF LockKnown

\* The process that moves is not about to ask the provider.
LEMMA NotAsking ==
  ASSUME NEW p \in Procs, at'[p].pc # "submit"
  PROVE  Locked(p)'
  BY DEF Locked

LEMMA LeftLocked ==
  ASSUME NEW p \in Procs, Leaves(p)
  PROVE  Others(p) /\ Locked(p)'
<1>1. at'[p].pc \in {"attempt", "scan", "judge", "retry", "after", "expire", "done", "idle"}
  BY DEF Leaves, Outside, cycleSteps
<1>2. QED
  BY <1>1, NotAsking DEF Leaves

\* The lock at every step.
LEMMA LockStep ==
  ASSUME TypeOK, Facts, Numbering, LockKnown, [Next]_checkoutVars
  PROVE  LockKnown'
<1>1. lock # Nobody => enabled
  BY DEF LockKnown
<1>2. /\ \A p \in Procs : DraftKnown(p) /\ KeyKnown(p)
      /\ \A d \in Drafts : DraftOf(d)
  BY DEF Facts
<1>3. \A p \in Procs : p # Nobody
  BY AutoRenewAssumption
<1>4. ASSUME NEW p \in Procs, Leaves(p) \/ (Others(p) /\ at'[p].pc # "submit"), SameCards,
             UNCHANGED <<lock, enabled, unlocked>>
      PROVE  LockKnown'
  BY <1>1, <1>4, LeftLocked, NotAsking, LockAround
<1>5. ASSUME Quiet, SameCards, UNCHANGED <<lock, enabled, unlocked>>
      PROVE  LockKnown'
  BY <1>1, <1>5, LockOutside
<1>6. ASSUME NEW p \in Procs, Lookup(p) PROVE LockKnown'
  <2>1. UNCHANGED <<lock, enabled, unlocked>>
    BY <1>6 DEF Lookup, rest
  <2>2. SameCards
    BY <1>2, <1>6, LookupEffect, CardsKept
  <2>3. Leaves(p) \/ (Others(p) /\ at'[p].pc # "submit")
    BY <1>2, <1>6, LookupEffect DEF Goes
  <2>4. QED
    BY <1>4, <2>1, <2>2, <2>3
<1>7. ASSUME NEW p \in Procs, Draw(p) PROVE LockKnown'
  <2>1. UNCHANGED <<lock, enabled, unlocked>>
    BY <1>7 DEF Draw, rest
  <2>2. SameCards
    BY <1>2, <1>7, DrawEffect, CardsKept
  <2>3. Leaves(p) \/ (Others(p) /\ at'[p].pc # "submit")
    BY <1>2, <1>7, DrawEffect DEF Goes, Turns
  <2>4. QED
    BY <1>4, <2>1, <2>2, <2>3
<1>8. ASSUME NEW p \in Procs, Create(p) PROVE LockKnown'
  <2>1. UNCHANGED <<lock, enabled, unlocked>>
    BY <1>8 DEF Create, rest
  <2>2. SameCards
    BY <1>2, <1>8, CreateEffect, CardsKept, CardsCreated
  <2>3. Leaves(p) \/ (Others(p) /\ at'[p].pc # "submit")
    BY <1>2, <1>8, CreateEffect DEF Turns
  <2>4. QED
    BY <1>4, <2>1, <2>2, <2>3
<1>9. ASSUME NEW p \in Procs, Claim(p) PROVE LockKnown'
  <2>1. UNCHANGED <<lock, enabled, unlocked>>
    BY <1>9 DEF Claim, rest
  <2>2. PICK d \in Drafts : d = at[p].draft /\ Created(d)
    BY <1>2, <1>9 DEF Claim, DraftKnown, OnDraft
  <2>3. SameCards
    BY <1>2, <1>9, <2>2, ClaimEffect, CardsKept, CardsWritten
  <2>4. CASE Leaves(p) \/ Goes(p, "lock")
    BY <1>4, <2>1, <2>3, <2>4 DEF Goes
  <2>5. CASE Goes(p, "submit") /\ ~draft[d].saved
    <3>1. Others(p) /\ at'[p].draft = d /\ ~draft'[d].saved
      BY <2>2, <2>3, <2>5 DEF Goes, SameCards
    <3>2. Locked(p)'
      BY <3>1 DEF Locked
    <3>3. QED
      BY <1>1, <2>1, <2>3, <3>1, <3>2, LockAround
  <2>6. QED
    BY <1>2, <1>9, <2>2, <2>4, <2>5, ClaimEffect
<1>10. ASSUME NEW p \in Procs, Lock(p) PROVE LockKnown'
  <2>1. UNCHANGED <<enabled, unlocked>>
    BY <1>10 DEF Lock, rest
  <2>2. PICK d \in Drafts : d = at[p].draft /\ Created(d)
    BY <1>2, <1>10 DEF Lock, DraftKnown, OnDraft
  <2>3. SameCards
    BY <1>2, <1>10, <2>2, LockEffect, CardsKept, CardsWritten
  <2>4. CASE Leaves(p) /\ lock' = lock
    BY <1>4, <2>1, <2>3, <2>4
  <2>5. CASE Goes(p, "submit") /\ lock' = p /\ enabled /\ lock = Nobody
    <3>1. Others(p) /\ Locked(p)'
      BY <2>5 DEF Goes, Locked
    <3>2. QED
      BY <1>3, <2>1, <2>3, <2>5, <3>1, LockAround
  <2>6. QED
    BY <1>2, <1>10, <2>2, <2>4, <2>5, LockEffect
<1>11. ASSUME NEW p \in Procs, Submit(p) PROVE LockKnown'
  <2>1. UNCHANGED <<enabled, unlocked>> /\ lock' = Released(p)
    BY <1>11 DEF Submit, rest
  <2>2. PICK d \in Drafts : d = at[p].draft /\ Created(d)
    BY <1>2, <1>11 DEF Submit, DraftKnown, OnDraft
  <2>3. SameCards
    BY <1>2, <1>11, <2>2, SubmitEffect, CardsPaid
  <2>4. Others(p) /\ Locked(p)'
    BY <1>2, <1>11, <2>2, SubmitEffect, LeftLocked, NotAsking
  <2>5. /\ lock' # Nobody => enabled'
        /\ \A q \in Procs : q # p /\ lock = q => lock' = q
    BY <1>1, <2>1 DEF Released
  <2>6. QED
    BY <2>1, <2>3, <2>4, <2>5, LockAround
<1>12. ASSUME NEW p \in Procs, Persist(p) PROVE LockKnown'
  <2>1. UNCHANGED <<lock, enabled, unlocked>>
    BY <1>12 DEF Persist, rest
  <2>2. PICK d \in Drafts : d = at[p].draft /\ Created(d)
    BY <1>2, <1>12 DEF Persist, DraftKnown, OnDraft
  <2>3. SameCards
    BY <1>2, <1>12, <2>2, PersistEffect, CardsWritten
  <2>4. Leaves(p) \/ (Others(p) /\ at'[p].pc # "submit")
    BY <1>2, <1>12, <2>2, PersistEffect DEF Goes
  <2>5. QED
    BY <1>4, <2>1, <2>3, <2>4
<1>13. ASSUME NEW p \in Procs, Void(p) PROVE LockKnown'
  <2>1. UNCHANGED <<lock, unlocked>> /\ lock = Nobody
    BY <1>13 DEF Void
  <2>2. PICK d \in Drafts : d = at[p].draft /\ Created(d)
    BY <1>2, <1>13 DEF Void, DraftKnown, OnDraft
  <2>3. SameCards
    BY <1>2, <1>13, <2>2, VoidEffect, CardsWritten
  <2>4. Others(p) /\ Locked(p)'
    BY <1>2, <1>13, <2>2, VoidEffect, LeftLocked
  <2>5. QED
    BY <2>1, <2>3, <2>4, LockAround
<1>14. ASSUME NEW p \in Procs, Settle(p) PROVE LockKnown'
  <2>1. UNCHANGED <<lock, enabled, unlocked>>
    BY <1>14 DEF Settle, rest
  <2>2. PICK d \in Drafts : d = at[p].draft /\ Created(d)
    BY <1>2, <1>14 DEF Settle, DraftKnown, OnDraft
  <2>3. SameCards
    BY <1>2, <1>14, <2>2, SettleEffect, CardsKept, CardsWritten
  <2>4. Leaves(p) \/ (Others(p) /\ at'[p].pc # "submit")
    BY <1>2, <1>14, <2>2, SettleEffect
  <2>5. QED
    BY <1>4, <2>1, <2>3, <2>4
<1>15. ASSUME NEW p \in Procs, Start(p) \/ CycleStep(p) PROVE LockKnown'
  <2>1. UNCHANGED <<lock, enabled, unlocked>>
    BY <1>15 DEF Start, CycleStep, Attempt, Scan, Judge, Retry, Charged,
       After, Expire, cycleRest
  <2>2. SameCards
    BY <1>2, <1>15, CycleEffect, CardsKept
  <2>3. Leaves(p) \/ (Others(p) /\ at'[p].pc # "submit")
    BY <1>2, <1>15, CycleEffect DEF Takes
  <2>4. QED
    BY <1>4, <2>1, <2>2, <2>3
<1>16. ASSUME NEW p \in Procs, Request(p) PROVE LockKnown'
  <2>1. UNCHANGED <<lock, enabled, unlocked>>
    BY <1>16 DEF Request
  <2>2. SameCards
    BY <1>2, <1>16, OtherEffects, CardsKept
  <2>3. Leaves(p) \/ (Others(p) /\ at'[p].pc # "submit")
    BY <1>2, <1>16, OtherEffects
  <2>4. QED
    BY <1>4, <2>1, <2>2, <2>3
<1>17. ASSUME NEW p \in Procs, LockExpires(p) PROVE LockKnown'
  <2>1. /\ lock = p /\ lock' = Nobody /\ unlocked' = unlocked \cup {at[p].draft}
        /\ Quiet /\ SameCards
    BY <1>17, OtherEffects, CardsKept DEF LockExpires
  <2>2. QED
    BY <2>1, LockOutside
<1>18. ASSUME NEW p \in Procs, Crash(p) PROVE LockKnown'
  <2>1. UNCHANGED <<enabled, unlocked>> /\ lock' = Released(p)
    BY <1>18 DEF Crash
  <2>2. SameCards /\ Others(p) /\ Locked(p)'
    BY <1>18, OtherEffects, CardsKept, LeftLocked
  <2>3. /\ lock' # Nobody => enabled'
        /\ \A q \in Procs : q # p /\ lock = q => lock' = q
    BY <1>1, <2>1 DEF Released
  <2>4. QED
    BY <2>1, <2>2, <2>3, LockAround
<1>19. ASSUME NEW d \in Drafts, Confirm(d) PROVE LockKnown'
  <2>1. UNCHANGED <<lock, enabled, unlocked>>
    BY <1>19 DEF Confirm, working
  <2>2. SameCards
    BY <1>2, <1>19, ProviderEffects, CardsPaid
  <2>3. Quiet
    BY <1>2, <1>19, ProviderEffects
  <2>4. QED
    BY <1>5, <2>1, <2>2, <2>3
<1>20. ASSUME NEW d \in Drafts, Notify(d) PROVE LockKnown'
  <2>1. UNCHANGED <<lock, enabled, unlocked>>
    BY <1>20 DEF Notify, working
  <2>2. SameCards
    BY <1>2, <1>20, ProviderEffects, CardsWritten
  <2>3. Quiet
    BY <1>2, <1>20, ProviderEffects
  <2>4. QED
    BY <1>5, <2>1, <2>2, <2>3
<1>21. ASSUME NEW d \in Drafts, Age(d) PROVE LockKnown'
  <2>1. UNCHANGED <<lock, enabled, unlocked>>
    BY <1>21 DEF Age, working
  <2>2. SameCards
    BY <1>2, <1>21, SweepEffects, CardsKept
  <2>3. Quiet
    BY <1>2, <1>21, SweepEffects
  <2>4. QED
    BY <1>5, <2>1, <2>2, <2>3
<1>22. ASSUME NEW d \in Drafts, SweepRead(d) PROVE LockKnown'
  <2>1. UNCHANGED <<lock, enabled, unlocked>>
    BY <1>22 DEF SweepRead, working
  <2>2. SameCards
    BY <1>2, <1>22, SweepEffects, CardsKept, CardsWritten
  <2>3. Quiet
    BY <1>2, <1>22, SweepEffects
  <2>4. QED
    BY <1>5, <2>1, <2>2, <2>3
<1>23. ASSUME NEW d \in Drafts, Abandon(d) PROVE LockKnown'
  <2>1. UNCHANGED <<lock, enabled, unlocked>>
    BY <1>23 DEF Abandon, working
  <2>2. SameCards
    BY <1>2, <1>23, SweepEffects, CardsKept
  <2>3. Quiet
    BY <1>2, <1>23, SweepEffects
  <2>4. QED
    BY <1>5, <2>1, <2>2, <2>3
<1>24. ASSUME Drop PROVE LockKnown'
  <2>1. UNCHANGED <<lock, enabled, unlocked>>
    BY <1>24 DEF Drop, working
  <2>2. SameCards
    BY <1>2, <1>24, DropEffect, CardsKept, CardsWritten
  <2>3. Quiet
    BY <1>2, <1>24, DropEffect
  <2>4. QED
    BY <1>5, <2>1, <2>2, <2>3
<1>25. ASSUME Toggle PROVE LockKnown'
  <2>1. UNCHANGED <<lock, unlocked>> /\ lock = Nobody /\ Quiet /\ SameCards
    BY <1>25, OtherEffects, CardsKept DEF Toggle
  <2>2. QED
    BY <2>1, LockOutside
<1>26. ASSUME Advance PROVE LockKnown'
  <2>1. UNCHANGED <<lock, enabled, unlocked>>
    BY <1>26 DEF Advance, cycleRest
  <2>2. SameCards
    BY <1>2, <1>26, OtherEffects, CardsKept
  <2>3. Quiet
    BY <1>2, <1>26, OtherEffects
  <2>4. QED
    BY <1>5, <2>1, <2>2, <2>3
<1>27. ASSUME UNCHANGED checkoutVars PROVE LockKnown'
  BY <1>5, <1>27, Stuttering, CardsKept
<1>28. QED
  BY <1>6, <1>7, <1>8, <1>9, <1>10, <1>11, <1>12, <1>13, <1>14, <1>15, <1>16,
     <1>17, <1>18, <1>19, <1>20, <1>21, <1>22, <1>23, <1>24, <1>25, <1>26,
     <1>27, AutoRenewAssumption DEF Next, CheckoutStep, Environment

------------------------------------------------------------------------------
(***************************************************************************)
(* The theorems.                                                           *)
(***************************************************************************)

\* It holds at the start: there are no drafts, no process runs, nobody has the lock.
LEMMA InitInv == CheckoutInit => Inv
<1> SUFFICES ASSUME CheckoutInit PROVE Inv
  OBVIOUS
<1>1. /\ \A d \in Drafts : draft[d] = NoDraft /\ charge[d] = "none"
      /\ \A p \in Procs : at[p] = Idle
      /\ lock = Nobody /\ sub.epoch = 1
  BY DEF CheckoutInit
<1>2. TypeOK
  <2>1. AtOK
    BY Resting DEF CheckoutInit, AtOK
  <2>2. DraftsOK
    BY DEF CheckoutInit, DraftsOK
  <2>3. RestOK
    BY Numbers DEF CheckoutInit, RestOK
  <2>4. 1 \in Epochs
    BY Numbers DEF Epochs
  <2>5. SubOK
    BY <2>4 DEF CheckoutInit, SubOK
  <2>6. QED
    BY <2>1, <2>2, <2>3, <2>5, TypeParts
<1>3. \A d \in Drafts : ~Created(d)
  BY <1>1 DEF Created
<1>4. \A p \in Procs : at[p].pc = "idle" /\ at[p].key = NoKey
  BY <1>1, Resting
<1>5. Facts
  BY <1>1, <1>3, <1>4
     DEF Facts, DraftOf, DraftKnown, KeyKnown, OneClaimer, OnDraft, Claiming, Outside
<1>6. Numbering
  <2>1. \A e : Attempts(e) = {}
    BY <1>3 DEF Attempts
  <2>2. \A e : Top(e, 0)
    BY <2>1, Numbers DEF Top
  <2>3. 0 \in 0..MaxAttempts
    BY Numbers
  <2>4. \A p \in Procs : NextNumber(p)
    BY <1>4 DEF NextNumber, Fresh
  <2>5. OneLive
    BY <1>3 DEF OneLive, Numbered
  <2>6. QED
    BY <2>2, <2>3, <2>4, <2>5 DEF Numbering
<1>7. Counted
  <2>1. Renewals = {}
    BY <1>3 DEF Renewals
  <2>2. QED
    BY <1>1, <2>1, FS_EmptySet DEF Counted
<1>8. LockKnown
  BY <1>1, <1>4 DEF LockKnown, Locked
<1>9. QED
  BY <1>2, <1>5, <1>6, <1>7, <1>8 DEF Inv

\* The types in the next state, from their parts.
LEMMA TypePartsNext ==
  ASSUME AtOK', DraftsOK', RestOK', SubOK'
  PROVE  TypeOK'
  BY DEF TypeOK, AtOK, DraftsOK, RestOK, SubOK, Process, Drafts, Draft, Keys, NoDraft, Epochs,
         Counters, Nobody, CheckoutSteps, cycleSteps

\* Every step preserves it.
LEMMA NextInv == Inv /\ [Next]_checkoutVars => Inv'
<1> SUFFICES ASSUME Inv, [Next]_checkoutVars PROVE Inv'
  OBVIOUS
<1>1. TypeOK /\ Facts /\ Numbering /\ Counted /\ LockKnown
  BY DEF Inv
<1>2. TypeOK'
  BY <1>1, TypeStep, SubTyped, TypePartsNext
<1>3. Facts' /\ Numbering' /\ Counted' /\ LockKnown'
  BY <1>1, FactsStep, NumberingStep, CountedStep, LockStep
<1>4. QED
  BY <1>2, <1>3 DEF Inv

\* The invariant holds of every run: in particular the next number is free and all
\* attempts before it are over whenever a cycle is about to create a draft.
THEOREM Inductive == Spec => []Inv
<1>1. CheckoutInit => Inv
  BY InitInv
<1>2. Inv /\ [Next]_checkoutVars => Inv'
  BY NextInv
<1>3. QED
  BY <1>1, <1>2, PTL DEF Spec

\* The variables keep their types; the expiry dates are bounded by the renewals.
THEOREM TypeCorrect == Spec => []TypeOK
<1>1. Inv => TypeOK
  BY DEF Inv
<1>2. QED
  BY <1>1, Inductive, PTL

\* An expiry date is charged once: a second attempt is made only when the first is
\* over, and one that is over has no payment that went through, unless it was given
\* up while it was claimed (createCombinedDraft, readAttemptState).
THEOREM ChargedOnceHolds == Spec => []ChargedOnce
<1>1. Inv => ChargedOnce
  <2> SUFFICES ASSUME Inv, NEW d \in Drafts, NEW e \in Drafts,
                      d # e, Charging(d), Charging(e), draft[d].key # NoKey, draft[e].key # NoKey,
                      draft[d].key.epoch = draft[e].key.epoch
               PROVE  {d, e} \cap surrendered # {}
    BY DEF ChargedOnce
  <2>1. ASSUME NEW f \in Drafts, Charging(f)
        PROVE  Created(f) /\ (Over(f) => f \in surrendered)
    BY <2>1 DEF Inv, Facts, DraftOf, Charging, Over
  <2>2. Over(d) \/ Over(e)
    BY <2>1 DEF Inv, Numbering, OneLive, Numbered
  <2>3. QED
    BY <2>1, <2>2
<1>2. QED
  BY <1>1, Inductive, PTL

\* The saved card is charged while its owner has autopay on, unless the lock of its
\* row timed out under the request (withActiveForCharge).
THEOREM ConsentHolds == Spec => ConsentKept
<1> DEFINE Consent == \A d \in Drafts : charge[d] = "none" /\ charge'[d] # "none" /\ draft[d].saved
                                         => enabled \/ d \in unlocked
<1>1. ASSUME Inv, [Next]_checkoutVars PROVE Consent
  <2>1. TypeOK /\ DraftsOK /\ Facts /\ LockKnown
    BY <1>1, TypeParts DEF Inv
  <2>2. /\ \A p \in Procs : DraftKnown(p) /\ KeyKnown(p)
        /\ \A d \in Drafts : DraftOf(d)
    BY <2>1 DEF Facts
  <2>3. CASE UNCHANGED charge
    BY <2>3
  <2>4. ASSUME NEW p \in Procs, Submit(p) PROVE Consent
    <3>1. PICK d \in Drafts : d = at[p].draft /\ at[p].pc = "submit" /\ Created(d)
      BY <2>2, <2>4 DEF Submit, DraftKnown, OnDraft
    <3>2. OtherDrafts(d)
      BY <2>1, <2>2, <2>4, <3>1, SubmitEffect DEF Pays
    <3>3. draft[d].saved => enabled \/ d \in unlocked
      BY <2>1, <3>1, AutoRenewAssumption DEF LockKnown, Locked
    <3>4. QED
      BY <3>2, <3>3 DEF OtherDrafts
  <2>5. ASSUME NEW d \in Drafts, Confirm(d) PROVE Consent
    <3>1. charge[d] = "open" /\ OtherDrafts(d)
      BY <2>1, <2>2, <2>5, ProviderEffects DEF Pays
    <3>2. QED
      BY <3>1 DEF OtherDrafts
  <2>6. ASSUME NEW p \in Procs, CheckoutStep(p), ~Submit(p) PROVE UNCHANGED charge
    BY <2>6 DEF CheckoutStep, Lookup, Draw, Create, Claim, Lock, Persist, Void, Settle
  <2>7. ASSUME NEW c \in Cycles, Start(c) \/ CycleStep(c) PROVE UNCHANGED charge
    BY <2>7 DEF Start, CycleStep, Attempt, Scan, Judge, Retry, Charged, After, Expire, cycleRest
  <2>8. ASSUME NEW p \in Requests, Request(p) PROVE UNCHANGED charge
    BY <2>8 DEF Request
  <2>9. ASSUME Environment, ~ \E d \in Drafts : Confirm(d) PROVE UNCHANGED charge
    BY <2>9 DEF Environment, Notify, Age, SweepRead, Abandon, Drop, Toggle, LockExpires, Crash
  <2>10. ASSUME Advance \/ UNCHANGED checkoutVars PROVE UNCHANGED charge
    BY <2>10 DEF Advance, cycleRest, checkoutVars
  <2>11. QED
    BY <1>1, <2>3, <2>4, <2>5, <2>6, <2>7, <2>8, <2>9, <2>10 DEF Next
<1>2. QED
  BY <1>1, Inductive, PTL DEF Spec, ConsentKept
=============================================================================
