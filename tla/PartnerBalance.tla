------------------------------ MODULE PartnerBalance ------------------------------
(***************************************************************************)
(* The balance of a partner and everything that moves it: accruals for the *)
(* payments of a referred payer and their reversal, withdrawals, manual    *)
(* corrections, purchases paid from the balance, and the sweep that pays   *)
(* back what a failed purchase still owes.                                 *)
(*                                                                         *)
(* Nothing here takes a lock.  An action is one database transaction or    *)
(* the read a later transaction relies on.  An interactive transaction     *)
(* that reads and then writes is two actions, because READ COMMITTED lets  *)
(* others commit in between; what it writes is still all or nothing.       *)
(***************************************************************************)
EXTENDS Integers, FiniteSets, Functions

CONSTANTS
    Partners,     \* the active partners above the payer, one per level
    Payments,     \* captured payments of the payer
    Withdrawals,  \* withdrawal requests
    Purchases,    \* purchases paid from a balance
    Workers,      \* handlers that can run at a time
    Earn,         \* what a partner earns from a payment
    Amount,       \* what a withdrawal or a purchase takes
    Owner,        \* the partner who makes a withdrawal or a purchase
    OncePerUser,  \* the partners paid for the payer's first payment only
    Scenarios,    \* the situations to explore
    MaxRows       \* bound on ledger rows ever written

ASSUME PartnerAssumption ==
    /\ Earn \in [Partners -> Nat \ {0}]
    /\ Amount \in [Withdrawals \cup Purchases -> Nat \ {0}]
    /\ Owner \in [Withdrawals \cup Purchases -> Partners]
    /\ OncePerUser \subseteq Partners
    /\ Withdrawals \cap Purchases = {}
    /\ IsFiniteSet(Workers) /\ IsFiniteSet(Withdrawals \cup Purchases)
    /\ MaxRows \in Nat

\* What a set of withdrawals and purchases takes.
Total(S) == SumFunctionOnSet(Amount, S)

Kinds == {"earn", "reverse", "request", "process", "adjust", "pay"}

\* opening: the balances at first; workers: handlers at work at a time; starts:
\* how often each kind may begin; faults, crashes: steps that fail, handlers that die.
ASSUME ScenarioAssumption ==
    \A s \in Scenarios : /\ s.starts \in [Kinds -> Nat]
                         /\ {s.opening, s.workers, s.faults, s.crashes} \subseteq Nat

VARIABLES
    scenario,    \* the situation, chosen once
    balance,     \* Partner.balance
    withdrawn,   \* Partner.totalWithdrawn
    ledger,      \* PartnerTransaction rows
    rows,        \* how many ledger rows were ever written
    request,     \* the status of each withdrawal
    status,      \* the status of each purchase's transaction
    owed,        \* gatewayData.partnerBalanceRefund.state of each purchase
    alerted,     \* purchases reported as PARTNER_BALANCE_REFUND_FAILED
    debited,     \* history: purchases whose amount was taken
    corrected,   \* history: the sum of manual corrections of each balance
    clawed,      \* history: what reversals took from each balance
    pc,          \* the next step of each worker
    work,        \* what a worker is at: its subject and what it has read
    spent        \* how much of each bound is used up

vars == <<scenario, balance, withdrawn, ledger, rows, request, status, owed, alerted,
          debited, corrected, clawed, pc, work, spent>>

money == <<balance, withdrawn, ledger, rows>>
purchase == <<status, owed, alerted, debited>>
history == <<corrected, clawed>>

Nothing == [left |-> {}, on |-> "nothing", read |-> 0]
Row(p, t, n) == [partner |-> p, source |-> t, id |-> n]

TypeOK ==
    /\ scenario \in Scenarios
    /\ balance \in [Partners -> Int]
    /\ withdrawn \in [Partners -> Nat]
    /\ ledger \subseteq [partner : Partners, source : Payments, id : 1..MaxRows]
    /\ rows \in 0..MaxRows
    /\ request \in [Withdrawals -> {"ABSENT", "PENDING", "COMPLETED", "REJECTED"}]
    /\ status \in [Purchases -> {"ABSENT", "PENDING", "COMPLETED"}]
    /\ owed \in [Purchases -> {"NONE", "OWED", "RESTORED"}]
    /\ alerted \subseteq Purchases /\ debited \subseteq Purchases
    /\ corrected \in [Partners -> Int] /\ clawed \in [Partners -> Nat]
    /\ pc \in [Workers -> {"idle", "check", "credit", "reverse", "deduct", "approve", "reject",
                           "adjust", "debit", "provision", "restore", "record", "settle"}]
    /\ spent \in [Kinds \cup {"faults", "crashes"} -> Nat]
-----------------------------------------------------------------------------
(* Who may begin, fail or die                                              *)

Goto(w, step) == pc' = [pc EXCEPT ![w] = step]
Done(w) == /\ Goto(w, "idle")
           /\ work' = [work EXCEPT ![w] = Nothing]

Take(w, step, what) ==
    /\ pc[w] = "idle"
    /\ Cardinality({v \in Workers : pc[v] # "idle"}) < scenario.workers
    /\ Goto(w, step)
    /\ work' = [work EXCEPT ![w] = what]
    /\ UNCHANGED scenario

Begin(w, kind, step, what) ==
    /\ spent[kind] < scenario.starts[kind]
    /\ spent' = [spent EXCEPT ![kind] = @ + 1]
    /\ Take(w, step, what)

MayFail == /\ spent["faults"] < scenario.faults
           /\ spent' = [spent EXCEPT !["faults"] = @ + 1]

-----------------------------------------------------------------------------
(* Accruals                                                                *)

Earned(p, t) == \E r \in ledger : r.partner = p /\ r.source = t
EarnedOnce(p) == \E r \in ledger : r.partner = p

\* The checks before a credit: the payment's own row, then the strategy.
Skipped(p, t) == Earned(p, t) \/ (p \in OncePerUser /\ EarnedOnce(p))

\* @@unique on sourceKey, checked by the database when the row is written.
Collides(p, t) == Earned(p, t)

\* The hooks of a captured payment; they run again when its event is retried.
EarnBegin(w, t) ==
    /\ Begin(w, "earn", "check", [left |-> Partners, on |-> t, read |-> 0])
    /\ UNCHANGED <<money, request, purchase, history>>

\* The chain is walked level by level; the order of the levels matters to nobody.
EarnCheck(w) ==
    /\ pc[w] = "check"
    /\ LET left == work[w].left IN
       \/ /\ left = {}
          /\ Done(w)
       \/ \E p \in left :
             IF Skipped(p, work[w].on)
             THEN /\ work' = [work EXCEPT ![w].left = @ \ {p}]
                  /\ UNCHANGED pc
             ELSE /\ Goto(w, "credit")
                  /\ work' = [work EXCEPT ![w].read = p]
    /\ UNCHANGED <<scenario, money, request, purchase, history, spent>>

\* Ledger row and increment in one transaction; a collision rolls both back.
EarnCredit(w) ==
    LET p == work[w].read
        t == work[w].on
    IN  /\ pc[w] = "credit"
        /\ IF Collides(p, t)
           THEN UNCHANGED money
           ELSE /\ rows < MaxRows
                /\ rows' = rows + 1
                /\ ledger' = ledger \cup {Row(p, t, rows')}
                /\ balance' = [balance EXCEPT ![p] = @ + Earn[p]]
                /\ UNCHANGED withdrawn
        /\ Goto(w, "check")
        /\ work' = [work EXCEPT ![w].left = @ \ {p}, ![w].read = 0]
        /\ UNCHANGED <<scenario, request, purchase, history, spent>>

\* Any other error leaves the loop: the levels not yet paid wait for a retry.
EarnFail(w) ==
    /\ pc[w] \in {"check", "credit"}
    /\ MayFail
    /\ Done(w)
    /\ UNCHANGED <<scenario, money, request, purchase, history>>

\* A refund: the rows to reverse are read first, then undone one by one.
ReverseBegin(w, t) ==
    /\ Begin(w, "reverse", "reverse",
             [left |-> {r \in ledger : r.source = t}, on |-> t, read |-> 0])
    /\ UNCHANGED <<money, request, purchase, history>>

MutantStillThere(r) == TRUE

\* The delete is fenced on the row's id; only its winner takes the money back.
StillThere(r) == r \in ledger

ReverseOne(w) ==
    /\ pc[w] = "reverse"
    /\ \/ /\ work[w].left = {}
          /\ Done(w)
          /\ UNCHANGED <<money, clawed>>
       \/ \E r \in work[w].left :
            /\ work' = [work EXCEPT ![w].left = @ \ {r}]
            /\ IF StillThere(r)
               THEN /\ ledger' = ledger \ {r}
                    /\ balance' = [balance EXCEPT ![r.partner] = @ - Earn[r.partner]]
                    /\ clawed' = [clawed EXCEPT ![r.partner] = @ + Earn[r.partner]]
                    /\ UNCHANGED <<rows, withdrawn>>
               ELSE UNCHANGED <<money, clawed>>
            /\ UNCHANGED pc
    /\ UNCHANGED <<scenario, request, purchase, corrected, spent>>

\* One row's transaction fails: it is logged and the next row is tried.
ReverseFail(w) ==
    /\ pc[w] = "reverse"
    /\ MayFail
    /\ \E r \in work[w].left : work' = [work EXCEPT ![w].left = @ \ {r}]
    /\ UNCHANGED <<scenario, money, request, purchase, history, pc>>

-----------------------------------------------------------------------------
(* Withdrawals and corrections                                             *)

\* The balance is read in the transaction, without a lock, and then decremented.
RequestBegin(w, x) ==
    /\ request[x] = "ABSENT"
    /\ \A v \in Workers : work[v].on # x
    /\ balance[Owner[x]] >= Amount[x]
    /\ Begin(w, "request", "deduct", [Nothing EXCEPT !.on = x])
    /\ UNCHANGED <<money, request, purchase, history>>

RequestDeduct(w) ==
    LET x == work[w].on IN
    /\ pc[w] = "deduct"
    /\ balance' = [balance EXCEPT ![Owner[x]] = @ - Amount[x]]
    /\ request' = [request EXCEPT ![x] = "PENDING"]
    /\ Done(w)
    /\ UNCHANGED <<scenario, withdrawn, ledger, rows, purchase, history, spent>>

\* An operator approves or rejects what is PENDING when it is read.
ProcessBegin(w, x, verdict) ==
    /\ request[x] = "PENDING"
    /\ Begin(w, "process", verdict, [Nothing EXCEPT !.on = x])
    /\ UNCHANGED <<money, request, purchase, history>>

Approve(w) ==
    LET x == work[w].on IN
    /\ pc[w] = "approve"
    /\ withdrawn' = [withdrawn EXCEPT ![Owner[x]] = @ + Amount[x]]
    /\ request' = [request EXCEPT ![x] = "COMPLETED"]
    /\ Done(w)
    /\ UNCHANGED <<scenario, balance, ledger, rows, purchase, history, spent>>

Refunded(x) == balance[Owner[x]] + Amount[x]

Reject(w) ==
    LET x == work[w].on IN
    /\ pc[w] = "reject"
    /\ balance' = [balance EXCEPT ![Owner[x]] = Refunded(x)]
    /\ request' = [request EXCEPT ![x] = "REJECTED"]
    /\ Done(w)
    /\ UNCHANGED <<scenario, withdrawn, ledger, rows, purchase, history, spent>>

\* A correction computes the new balance from the one it has read and writes
\* it back as a number.
AdjustBegin(w, p, by) ==
    /\ balance[p] + by >= 0
    /\ Begin(w, "adjust", "adjust", [left |-> {}, on |-> p, read |-> [from |-> balance[p], by |-> by]])
    /\ UNCHANGED <<money, request, purchase, history>>

AdjustWrite(w) ==
    LET p == work[w].on IN
    /\ pc[w] = "adjust"
    /\ balance' = [balance EXCEPT ![p] = work[w].read.from + work[w].read.by]
    /\ corrected' = [corrected EXCEPT ![p] = @ + work[w].read.by]
    /\ Done(w)
    /\ UNCHANGED <<scenario, withdrawn, ledger, rows, request, purchase, clawed, spent>>

-----------------------------------------------------------------------------
(* Purchases paid from the balance                                         *)

\* The draft is created and priced, and the balance read when the request began
\* suffices; otherwise the request ends there.
PayBegin(w, u) ==
    /\ status[u] = "ABSENT"
    /\ balance[Owner[u]] >= Amount[u]
    /\ Begin(w, "pay", "debit", [Nothing EXCEPT !.on = u])
    /\ status' = [status EXCEPT ![u] = "PENDING"]
    /\ UNCHANGED <<money, request, owed, alerted, debited, history>>

MutantAffords(u) == TRUE

\* updateMany ... WHERE balance >= amount
Affords(u) == balance[Owner[u]] >= Amount[u]

PayDebit(w) ==
    LET u == work[w].on IN
    /\ pc[w] = "debit"
    /\ IF Affords(u)
       THEN /\ balance' = [balance EXCEPT ![Owner[u]] = @ - Amount[u]]
            /\ debited' = debited \cup {u}
            /\ Goto(w, "provision")
            /\ UNCHANGED work
       ELSE /\ Done(w)
            /\ UNCHANGED <<balance, debited>>
    /\ UNCHANGED <<scenario, withdrawn, ledger, rows, request, status, owed, alerted,
                   history, spent>>

\* What a provisioning that throws leaves of its own status write.
RolledBack == "PENDING"

\* One transaction delivers and completes the row, or throws.
PayProvision(w) ==
    LET u == work[w].on IN
    /\ pc[w] = "provision"
    /\ \/ /\ status' = [status EXCEPT ![u] = "COMPLETED"]
          /\ Done(w)
          /\ UNCHANGED spent
       \/ /\ MayFail
          /\ status' = [status EXCEPT ![u] = RolledBack]
          /\ Goto(w, "restore")
          /\ UNCHANGED work
    /\ UNCHANGED <<scenario, money, request, owed, alerted, debited, history>>

\* The marker rides the increment: what a restore that commits leaves behind.
RestoreMarker == "RESTORED"

GiveBack(u) ==
    /\ balance' = [balance EXCEPT ![Owner[u]] = @ + Amount[u]]
    /\ UNCHANGED <<withdrawn, ledger, rows>>

\* The restore commits, or rolls back, or commits and its acknowledgement is
\* lost: the last two look the same to the handler.
PayRestore(w) ==
    LET u == work[w].on IN
    /\ pc[w] = "restore"
    /\ \/ /\ GiveBack(u)
          /\ owed' = [owed EXCEPT ![u] = RestoreMarker]
          /\ \/ Done(w) /\ UNCHANGED spent
             \/ MayFail /\ Goto(w, "record") /\ UNCHANGED work
       \/ /\ MayFail
          /\ Goto(w, "record")
          /\ UNCHANGED <<money, owed, work>>
    /\ UNCHANGED <<scenario, request, status, alerted, debited, history>>

MutantSettled(u) == owed[u] # "OWED"

\* The row, not the error, says whether the money moved.
Settled(u) == owed[u] = "RESTORED"

PayRecord(w) ==
    LET u == work[w].on IN
    /\ pc[w] = "record"
    /\ \/ /\ Settled(u)
          /\ UNCHANGED <<owed, alerted, spent>>
       \/ /\ ~Settled(u)
          /\ owed' = [owed EXCEPT ![u] = "OWED"]
          /\ alerted' = alerted \cup {u}
          /\ UNCHANGED spent
       \/ /\ MayFail
          /\ alerted' = alerted \cup {u}
          /\ UNCHANGED owed
    /\ Done(w)
    /\ UNCHANGED <<scenario, money, request, status, debited, history>>

\* The five-minute sweep lists what is OWED and settles it row by row.
SweepBegin(w) ==
    /\ \E u \in Purchases : owed[u] = "OWED"
    /\ Take(w, "settle", [Nothing EXCEPT !.left = {u \in Purchases : owed[u] = "OWED"}])
    /\ UNCHANGED <<money, request, purchase, history, spent>>

MutantStillOwed(u) == owed[u] = "NONE"

\* updateMany ... WHERE state = OWED, re-read in the transaction of the increment.
StillOwed(u) == owed[u] = "OWED"

SweepSettle(w) ==
    /\ pc[w] = "settle"
    /\ \/ /\ work[w].left = {}
          /\ Done(w)
          /\ UNCHANGED <<money, owed, spent>>
       \/ \E u \in work[w].left :
            /\ work' = [work EXCEPT ![w].left = @ \ {u}]
            /\ \/ /\ StillOwed(u)
                  /\ GiveBack(u)
                  /\ owed' = [owed EXCEPT ![u] = "RESTORED"]
                  /\ UNCHANGED spent
               \/ /\ ~StillOwed(u)
                  /\ UNCHANGED <<money, owed, spent>>
               \/ /\ MayFail
                  /\ UNCHANGED <<money, owed>>
            /\ UNCHANGED pc
    /\ UNCHANGED <<scenario, request, status, alerted, debited, history>>

\* The process dies between two transactions.
Crash(w) ==
    /\ pc[w] # "idle"
    /\ spent["crashes"] < scenario.crashes
    /\ spent' = [spent EXCEPT !["crashes"] = @ + 1]
    /\ Done(w)
    /\ UNCHANGED <<scenario, money, request, purchase, history>>
-----------------------------------------------------------------------------
Init ==
    /\ scenario \in Scenarios
    /\ balance = [p \in Partners |-> scenario.opening]
    /\ withdrawn = [p \in Partners |-> 0]
    /\ ledger = {} /\ rows = 0
    /\ request = [x \in Withdrawals |-> "ABSENT"]
    /\ status = [u \in Purchases |-> "ABSENT"]
    /\ owed = [u \in Purchases |-> "NONE"]
    /\ alerted = {} /\ debited = {}
    /\ corrected = [p \in Partners |-> scenario.opening]
    /\ clawed = [p \in Partners |-> 0]
    /\ pc = [w \in Workers |-> "idle"]
    /\ work = [w \in Workers |-> Nothing]
    /\ spent = [k \in Kinds \cup {"faults", "crashes"} |-> 0]

Start(w) ==
    \/ \E t \in Payments : EarnBegin(w, t) \/ ReverseBegin(w, t)
    \/ \E x \in Withdrawals : RequestBegin(w, x)
    \/ \E x \in Withdrawals, verdict \in {"approve", "reject"} : ProcessBegin(w, x, verdict)
    \/ \E p \in Partners, by \in {-1, 1} : AdjustBegin(w, p, by)
    \/ \E u \in Purchases : PayBegin(w, u)

Step(w) ==
    \/ EarnCheck(w) \/ EarnCredit(w) \/ ReverseOne(w)
    \/ RequestDeduct(w) \/ Approve(w) \/ Reject(w) \/ AdjustWrite(w)
    \/ PayDebit(w) \/ PayProvision(w) \/ PayRestore(w) \/ PayRecord(w)
    \/ SweepSettle(w)

Next == \E w \in Workers : \/ Start(w) \/ Step(w) \/ SweepBegin(w)
                           \/ EarnFail(w) \/ ReverseFail(w) \/ Crash(w)

Spec == Init /\ [][Next]_vars

\* Node runs a handler to its end, and the sweep comes round again.
FairSpec == Spec /\ \A w \in Workers : WF_vars(Step(w)) /\ WF_vars(SweepBegin(w))
-----------------------------------------------------------------------------
(* Properties                                                              *)

Taken(p) == {x \in Withdrawals : Owner[x] = p /\ request[x] \in {"PENDING", "COMPLETED"}}
PaidOut(p) == {x \in Withdrawals : Owner[x] = p /\ request[x] = "COMPLETED"}
NotGivenBack(p) == {u \in debited : Owner[u] = p /\ owed[u] # "RESTORED"}
Credits(p) == {r \in ledger : r.partner = p}

\* One handler at a time; or no operator corrects a balance, which overwrites it,
\* and a withdrawal gets one verdict.
Undisturbed ==
    \/ scenario.workers = 1
    \/ scenario.starts["adjust"] = 0 /\ scenario.starts["process"] <= 1

\* Every balance is what its records add up to: corrections and accruals in, open
\* and paid withdrawals and purchases that were not given back out.  Accruals
\* collide, reversals and sweeps overlap, acknowledgements get lost and restores
\* are retried; no increment is applied twice or without its record.
Conservation ==
    Undisturbed =>
        \A p \in Partners :
            /\ balance[p] = corrected[p] + Earn[p] * Cardinality(Credits(p))
                               - Total(Taken(p)) - Total(NotGivenBack(p))
            /\ withdrawn[p] = Total(PaidOut(p))

\* Two runs of a payment's hooks that both find no accrual leave one row.
CreditedOnce ==
    \A r, s \in ledger : r.partner = s.partner /\ r.source = s.source => r = s

\* A partner paid once per user holds one accrual however often hooks fail and
\* are repeated, provided payments are handled one at a time.
OncePerUserKept ==
    scenario.workers = 1 => \A p \in OncePerUser : Cardinality(Credits(p)) <= 1

\* Purchases never overspend: unless withdrawals run beside them, a balance below
\* zero is the work of reversals alone.
OnlyClawbackOverdraws ==
    scenario.workers = 1 \/ scenario.starts["request"] = 0
        => \A p \in Partners : balance[p] + clawed[p] >= 0

\* A purchase that took the money and delivered nothing is under way, given back,
\* recorded as owed, or has been reported, whatever failed on the way, as long as
\* no handler dies: after the debit nothing but the handler knows of the debt.
NoSilentDebit ==
    spent["crashes"] = 0 =>
        \A u \in debited :
            \/ status[u] = "COMPLETED"
            \/ owed[u] # "NONE" \/ u \in alerted
            \/ \E w \in Workers : work[w].on = u

\* Nobody gets the money back for something that was delivered.
NoFreePurchase ==
    \A u \in Purchases : owed[u] # "NONE" => status[u] # "COMPLETED" /\ u \in debited

\* What is recorded as owed is given back in the end, whichever sweeps fail.
OwedIsRestored == \A u \in Purchases : owed[u] = "OWED" ~> owed[u] = "RESTORED"

\* What holds of the rows in every state: their types, one accrual per payment and
\* partner, no overspending, and no restore of what was delivered.
AccountsConsistent ==
    TypeOK /\ CreditedOnce /\ OncePerUserKept /\ OnlyClawbackOverdraws /\ NoFreePurchase
=============================================================================
