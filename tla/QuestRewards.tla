------------------------------ MODULE QuestRewards ------------------------------
(***************************************************************************)
(* Quests: detecting that a user did what a quest asks, claiming the reward *)
(* from a limited budget, paying it once, and the two crons that make up   *)
(* for what was missed.  A reward may be a promotional code, which lives on *)
(* in Promocodes.                                                          *)
(*                                                                         *)
(* Detection reads the completion and then writes it by id, whatever it    *)
(* holds by then; the claim and the payout write under a condition.        *)
(***************************************************************************)
EXTENDS Promocodes

CONSTANTS
    Workers,       \* requests, jobs and bot callbacks at work at a time
    Batch,         \* what the reconciler takes in one run (50)
    Scenarios      \* [type, reward, fallback, budget, hopeless, codes, starts, faults, crashes]

QuestTypes == {"CHANNEL", "PARTNER", "LINK", "INVITE"}

ASSUME QuestAssumption ==
    /\ Batch \in Nat \ {0}
    /\ \A s \in Scenarios :
          /\ s.codes \in [Codes -> {NoCode, NewCode(1, FALSE), NewCode(Unlimited, FALSE)}]
          /\ s.type \in QuestTypes
          /\ {s.budget, s.starts, s.faults, s.crashes} \subseteq Nat
          /\ s.hopeless \subseteq Users

VARIABLES
    scenario,      \* the quest and the bounds, chosen once
    completion,    \* QuestCompletion of each user, Absent if there is none
    claimedAt,     \* when each user claimed last: the count of claims then, 0 if never
    issuedCount,   \* Quest.issuedCount
    bounded,       \* users with an active subscription that ends
    at,            \* where each worker is
    todo,          \* whom the reconciler has still to drive
    left,          \* users the bot last wrote down as having left the channel
    reopened,      \* history: users whose claimed completion was reopened
    stranded,      \* history: users whose reward is behind a stamp nobody releases
    unacked,       \* history: users whose trial was granted and reported as failed
    paid,          \* history: rewards each user was given
    minted,        \* history: the codes minted, [user, code]
    starts, faults, crashes      \* how much has been started and gone wrong

questVars == <<scenario, completion, claimedAt, issuedCount, bounded, at, todo, left,
               reopened, stranded, unacked, paid, minted, starts, faults, crashes>>
vars == <<questVars, promoVars>>

Completion == [status : {"IN_PROGRESS", "COMPLETED", "CLAIMED"}, fresh : BOOLEAN, issued : BOOLEAN]
Absent == [status |-> "ABSENT", fresh |-> FALSE, issued |-> FALSE]
Resting == [pc |-> "idle"]
AllKinds == {"verify", "recheck", "left", "reached", "short"}

QuestTypeOK ==
    /\ scenario \in Scenarios
    /\ completion \in [Users -> Completion \cup {Absent}]
    /\ issuedCount \in Nat
    /\ claimedAt \in [Users -> 0..issuedCount]
    /\ bounded \subseteq Users
    /\ at \in [Workers -> {Resting}
                \cup [pc : {"detect"}, user : Users, kind : AllKinds, saw : Completion \cup {Absent}]
                \cup [pc : {"reserve", "issue", "pay", "stamp", "grant", "release"}, user : Users]]
    /\ todo \cup left \cup reopened \cup stranded \cup unacked \subseteq Users
    /\ paid \in [Users -> Nat]
    /\ minted \subseteq [user : Users, code : Codes]
    /\ starts \in 0..scenario.starts /\ faults \in 0..scenario.faults
    /\ crashes \in 0..scenario.crashes

TypeOK == PromoTypeOK /\ QuestTypeOK

Goto(w, s) == at' = [at EXCEPT ![w] = s]
Step(w, pc) == Goto(w, [at[w] EXCEPT !.pc = pc])
Rest(w) == Goto(w, Resting)

Fault == faults < scenario.faults /\ faults' = faults + 1
NoFault == UNCHANGED faults
-----------------------------------------------------------------------------
(* Detection                                                               *)

Kinds ==
    CASE scenario.type = "CHANNEL" -> {"verify", "recheck", "left"}
      [] scenario.type = "PARTNER" -> {"verify"}
      [] scenario.type = "LINK" -> {"reached"}
      [] scenario.type = "INVITE" -> {"reached", "short"}

\* The handlers that only answer leave no trace: CLAIMED was read, or a
\* recheck found no completion.
Worth(u, kind) ==
    /\ completion[u].status # "CLAIMED"
    /\ kind \in {"recheck", "left"} => completion[u] # Absent

Detect(w, u, kind) ==
    /\ at[w] = Resting
    /\ starts < scenario.starts /\ starts' = starts + 1
    /\ kind \in Kinds /\ Worth(u, kind)
    /\ Goto(w, [pc |-> "detect", user |-> u, kind |-> kind, saw |-> completion[u]])
    /\ UNCHANGED <<promoVars, scenario, completion, claimedAt, issuedCount, bounded, todo, left,
                   reopened, stranded, unacked, paid, minted, faults, crashes>>

Created(kind) ==
    CASE kind = "verify" -> [status |-> "COMPLETED", fresh |-> TRUE, issued |-> FALSE]
      [] kind = "short" -> [status |-> "IN_PROGRESS", fresh |-> FALSE, issued |-> FALSE]
      [] OTHER -> [status |-> "COMPLETED", fresh |-> FALSE, issued |-> FALSE]

\* Leaving is written down only over something it takes back.
Revokes(kind, saw) == kind = "left" /\ (saw.status = "COMPLETED" \/ saw.fresh)

\* What the handler writes over the row, given what it had read.
Written(row, kind, saw) ==
    CASE kind \in {"verify", "recheck"} -> [row EXCEPT !.status = "COMPLETED", !.fresh = TRUE]
      [] Revokes(kind, saw) -> [row EXCEPT !.status = "IN_PROGRESS", !.fresh = FALSE]
      [] kind = "reached" /\ saw.status # "COMPLETED" -> [row EXCEPT !.status = "COMPLETED"]
      [] OTHER -> row

\* The row is created unless someone was faster (P2002), or written by id.
Record(w) ==
    LET u == at[w].user
        row == IF at[w].saw # Absent THEN Written(completion[u], at[w].kind, at[w].saw)
               ELSE IF completion[u] = Absent THEN Created(at[w].kind) ELSE completion[u]
    IN /\ at[w].pc = "detect"
       /\ completion' = [completion EXCEPT ![u] = row]
       /\ reopened' = IF completion[u].status = "CLAIMED" /\ row.status # "CLAIMED"
                      THEN reopened \cup {u} ELSE reopened
       /\ left' = IF Revokes(at[w].kind, at[w].saw) THEN left \cup {u}
                  ELSE IF row.fresh THEN left \ {u} ELSE left
       /\ Rest(w)
       /\ UNCHANGED <<promoVars, scenario, claimedAt, issuedCount, bounded, todo, stranded,
                      unacked, paid, minted, starts, faults, crashes>>

\* Fifteen minutes since the last proof of membership.
ProofExpires(u) ==
    /\ scenario.type = "CHANNEL" /\ completion[u].fresh
    /\ completion' = [completion EXCEPT ![u].fresh = FALSE]
    /\ UNCHANGED <<promoVars, scenario, claimedAt, issuedCount, bounded, at, todo, left, reopened,
                   stranded, unacked, paid, minted, starts, faults, crashes>>
-----------------------------------------------------------------------------
(* Claim and payout                                                        *)

Proven(row) == scenario.type = "CHANNEL" => row.fresh

\* claim() reads the completion; one that was paid is answered from the record.
Claim(w, u) ==
    /\ at[w] = Resting
    /\ starts < scenario.starts /\ starts' = starts + 1
    /\ \/ /\ completion[u].status = "COMPLETED" /\ Proven(completion[u])
          /\ Goto(w, [pc |-> "reserve", user |-> u])
       \/ /\ completion[u].status = "CLAIMED" /\ ~completion[u].issued
          /\ Goto(w, [pc |-> "issue", user |-> u])
    /\ UNCHANGED <<promoVars, scenario, completion, claimedAt, issuedCount, bounded, todo, left,
                   reopened, stranded, unacked, paid, minted, faults, crashes>>

MutantClaimable(u) == completion[u].status # "CLAIMED"

Claimable(u) == completion[u].status = "COMPLETED" /\ Proven(completion[u])

MutantInBudget == issuedCount <= scenario.budget

InBudget == issuedCount < scenario.budget

\* reserveAndClaim: both conditional updates, or neither.
Reserve(w) ==
    LET u == at[w].user IN
    /\ at[w].pc = "reserve"
    /\ \/ /\ Claimable(u) /\ InBudget
          /\ completion' = [completion EXCEPT ![u].status = "CLAIMED"]
          /\ issuedCount' = issuedCount + 1
          /\ claimedAt' = [claimedAt EXCEPT ![u] = issuedCount']
          /\ Step(w, "issue")
       \/ /\ ~(Claimable(u) /\ InBudget)
          /\ Rest(w)
          /\ UNCHANGED <<completion, claimedAt, issuedCount>>
    /\ UNCHANGED <<promoVars, scenario, bounded, todo, left, reopened, stranded, unacked, paid,
                   minted, starts, faults, crashes>>

\* issueReward looks at the stamp and at the user's subscription.
Issue(w) ==
    LET u == at[w].user IN
    /\ at[w].pc = "issue"
    /\ IF completion[u].issued THEN Rest(w)
       ELSE Step(w, IF scenario.reward = "DAYS" /\ u \notin bounded /\ scenario.fallback = "GRANT_TRIAL"
                    THEN "stamp" ELSE "pay")
    /\ UNCHANGED <<promoVars, scenario, completion, claimedAt, issuedCount, bounded, todo, left,
                   reopened, stranded, unacked, paid, minted, starts, faults, crashes>>

MutantUnissued(u) == TRUE

Unissued(u) == ~completion[u].issued

\* A reward that is not credited to the account is a code.
PaysWithCode(u) == scenario.reward = "PROMOCODE" \/ (scenario.reward = "DAYS" /\ u \notin bounded)

\* generateQuestPromoCode
FreshCodes == {c \in Codes : ~Exists(c)}

\* One transaction: the stamp, the payout and the snapshot.  What fails in it
\* (for a hopeless user always: the plan of the reward is gone) undoes the stamp.
Pay(w) ==
    LET u == at[w].user IN
    /\ at[w].pc = "pay"
    /\ Rest(w)
    /\ \/ /\ Unissued(u) /\ u \notin scenario.hopeless
          /\ completion' = [completion EXCEPT ![u].issued = TRUE]
          /\ paid' = [paid EXCEPT ![u] = @ + 1]
          /\ IF PaysWithCode(u)
             THEN \E c \in FreshCodes :
                     Mint(c) /\ minted' = minted \cup {[user |-> u, code |-> c]}
             ELSE UNCHANGED <<promoVars, minted>>
          /\ NoFault
       \/ /\ Unissued(u)
          /\ IF u \in scenario.hopeless THEN NoFault ELSE Fault
          /\ UNCHANGED <<promoVars, completion, paid, minted>>
       \/ /\ ~Unissued(u)
          /\ NoFault
          /\ UNCHANGED <<promoVars, completion, paid, minted>>
    /\ UNCHANGED <<scenario, claimedAt, issuedCount, bounded, todo, left, reopened, stranded,
                   unacked, starts, crashes>>

\* The trial is granted in a transaction of its own: the stamp comes first.
Stamp(w) ==
    LET u == at[w].user IN
    /\ at[w].pc = "stamp"
    /\ IF Unissued(u)
       THEN completion' = [completion EXCEPT ![u].issued = TRUE] /\ Step(w, "grant")
       ELSE UNCHANGED completion /\ Rest(w)
    /\ UNCHANGED <<promoVars, scenario, claimedAt, issuedCount, bounded, todo, left, reopened,
                   stranded, unacked, paid, minted, starts, faults, crashes>>

\* grantTrial; its claim limit lets a user have one.
Grant(w) ==
    LET u == at[w].user IN
    /\ at[w].pc = "grant"
    /\ \/ /\ u \notin scenario.hopeless \cup bounded
          /\ paid' = [paid EXCEPT ![u] = @ + 1]
          /\ bounded' = bounded \cup {u}
          /\ \/ Rest(w) /\ NoFault /\ UNCHANGED unacked
             \/ Step(w, "release") /\ Fault /\ unacked' = unacked \cup {u}
       \/ /\ IF u \in scenario.hopeless \cup bounded THEN NoFault ELSE Fault
          /\ Step(w, "release")
          /\ UNCHANGED <<paid, bounded, unacked>>
    /\ UNCHANGED <<promoVars, scenario, completion, claimedAt, issuedCount, todo, left, reopened,
                   stranded, minted, starts, crashes>>

Released(u) == [completion[u] EXCEPT !.issued = FALSE]

Release(w) ==
    LET u == at[w].user IN
    /\ at[w].pc = "release"
    /\ \/ NoFault /\ completion' = [completion EXCEPT ![u] = Released(u)] /\ UNCHANGED stranded
       \/ Fault /\ stranded' = stranded \cup {u} /\ UNCHANGED completion
    /\ Rest(w)
    /\ UNCHANGED <<promoVars, scenario, claimedAt, issuedCount, bounded, todo, left, reopened,
                   unacked, paid, minted, starts, crashes>>
-----------------------------------------------------------------------------
(* The reconciler, and crashes                                             *)

Stuck(u) == completion[u].status = "CLAIMED" /\ ~completion[u].issued

Older(u) == {v \in Users : Stuck(v) /\ claimedAt[v] < claimedAt[u]}

MutantNextBatch == {u \in Users : Stuck(u) /\ Older(u) = {}}

\* The oldest claims first (claimedAt); the order within a batch matters to nobody.
NextBatch == {u \in Users : Stuck(u) /\ Cardinality(Older(u)) < Batch}

Reconcile ==
    /\ todo = {} /\ NextBatch # {}
    /\ todo' = NextBatch
    /\ UNCHANGED <<promoVars, scenario, completion, claimedAt, issuedCount, bounded, at, left,
                   reopened, stranded, unacked, paid, minted, starts, faults, crashes>>

\* reissue of the next one, by whichever worker is free.
Redrive(w) ==
    /\ at[w] = Resting
    /\ \E u \in todo : Goto(w, [pc |-> "issue", user |-> u]) /\ todo' = todo \ {u}
    /\ UNCHANGED <<promoVars, scenario, completion, claimedAt, issuedCount, bounded, left,
                   reopened, stranded, unacked, paid, minted, starts, faults, crashes>>

\* The process dies: its requests and the reconciler's list are gone.
Crash ==
    /\ crashes < scenario.crashes /\ crashes' = crashes + 1
    /\ at' = [w \in Workers |-> Resting]
    /\ todo' = {}
    /\ stranded' = stranded \cup {at[w].user : w \in {v \in Workers : at[v].pc \in {"grant", "release"}}}
    /\ activating' = [r \in Requests |-> Idle]
    /\ UNCHANGED <<promo, activations, granted, scenario, completion, claimedAt, issuedCount,
                   bounded, left, reopened, unacked, paid, minted, starts, faults>>

Init ==
    /\ scenario \in Scenarios
    /\ promo = scenario.codes
    /\ activations = {} /\ granted = {} /\ activating = [r \in Requests |-> Idle]
    /\ completion = [u \in Users |-> Absent]
    /\ claimedAt = [u \in Users |-> 0] /\ issuedCount = 0
    /\ bounded \in IF scenario.reward = "DAYS" THEN SUBSET Users ELSE {{}}
    /\ at = [w \in Workers |-> Resting] /\ todo = {}
    /\ left = {} /\ reopened = {} /\ stranded = {} /\ unacked = {}
    /\ paid = [u \in Users |-> 0] /\ minted = {}
    /\ starts = 0 /\ faults = 0 /\ crashes = 0

WorkerStep(w) ==
    Record(w) \/ Reserve(w) \/ Issue(w) \/ Pay(w) \/ Stamp(w) \/ Grant(w) \/ Release(w)

Next ==
    \/ \E w \in Workers :
          \/ \E u \in Users : (\E k \in Kinds : Detect(w, u, k)) \/ Claim(w, u)
          \/ Redrive(w) \/ WorkerStep(w)
    \/ \E u \in Users : ProofExpires(u)
    \/ Reconcile \/ Crash
    \/ PromoNext /\ UNCHANGED questVars

Spec == Init /\ [][Next]_vars

\* Workers go on unless they die; the cron fires every five minutes and a
\* process that has nothing to do takes the next of its list.
Fairness ==
    /\ WF_vars(Reconcile)
    /\ WF_vars(\E w \in Workers : Redrive(w))
    /\ \A w \in Workers : WF_vars(WorkerStep(w))

FairSpec == Spec /\ Fairness
-----------------------------------------------------------------------------
(* Properties                                                              *)

\* However many requests, callbacks and cron runs drive a claim, it is paid at
\* most once: whoever stamps it pays.  Only a trial whose grant was committed
\* and reported as failed is followed by a second reward.
PaidOnce == \A u \in Users : paid[u] <= (IF u \in unacked THEN 2 ELSE 1)

\* Nothing is paid that was not reserved, and nothing reserved beyond the
\* budget; as long as no completion was reopened, the counter is the number
\* of claims.
BudgetKept ==
    /\ issuedCount <= scenario.budget
    /\ Cardinality({u \in Users : paid[u] > 0}) <= issuedCount
    /\ reopened = {} => issuedCount = Cardinality({u \in Users : completion[u].status = "CLAIMED"})

\* A reward paid with a code is one code of one use, whoever uses it.
CodeUsedOnce ==
    /\ \A m, n \in minted : m.user = n.user \/ m.code = n.code => m = n
    /\ \A m \in minted : promo[m.code].minted /\ (promo[m.code].version = 0 => Used(m.code) <= 1)

\* Whoever the bot last wrote down as having left does not become a claimant,
\* though the claim began before.
NoClaimAfterLeaving ==
    [][\A u \in left : completion[u].status # "CLAIMED" => completion'[u].status # "CLAIMED"]_vars

\* What is claimed is paid in the end, by the request or by the reconciler,
\* crashes or not; except what was reopened, what is behind a stamp whose
\* owner died, and what can never be paid.
ClaimIsPaid ==
    \A u \in Users :
        (Stuck(u) /\ u \notin scenario.hopeless) ~>
            (paid[u] > 0 \/ u \in reopened \cup stranded)

\* What holds of codes and completions in every state: their types, the limits and
\* terms of the codes, and that a reward's code is used once.
CodesConsistent == TypeOK /\ MaxKept /\ GrantedOnce /\ TermsHold /\ CodeUsedOnce
=============================================================================
