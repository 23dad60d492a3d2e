--------------------------- MODULE PartnerBalance_proof ---------------------------
(***************************************************************************)
(* Theorems about PartnerBalance, for any partners, payments, withdrawals, *)
(* purchases, overlapping handlers, failures and crashes.                  *)
(*                                                                         *)
(* The inductive invariant, PartnerInv:                                    *)
(*   - Alone, Counted: who is at work, and how often each kind began; they *)
(*     carry the conditions of the properties over to the handlers;        *)
(*   - LedgerOK: a finite ledger, one row per partner and payment;         *)
(*   - PursesOK: a purchase has one payer, whose step says what its rows   *)
(*     hold, so that a debit is given back at most once;                   *)
(*   - OperatorsOK: what an operator's handler has read still holds;       *)
(*   - OnlyClawbackOverdraws and Conservation themselves.                  *)
(* Movers reduces the actions to the nine ways in which money moves.       *)
(***************************************************************************)
EXTENDS PartnerBalance, FiniteSums, FiniteSetTheorems, TLAPS

Rows == [partner : Partners, source : Payments, id : 1..MaxRows]
Verdicts == {"approve", "reject"}
Paying == {"debit", "provision", "restore", "record"}

Steps == {"idle", "check", "credit", "reverse", "deduct", "approve", "reject",
          "adjust", "debit", "provision", "restore", "record", "settle"}

Act(w) == \/ Start(w) \/ Step(w) \/ SweepBegin(w)
          \/ EarnFail(w) \/ ReverseFail(w) \/ Crash(w)

\* What each worker is at.
Job == [left : SUBSET (Partners \cup Rows \cup Purchases),
        on : Payments \cup Withdrawals \cup Purchases \cup Partners \cup {"nothing"},
        read : Partners \cup {0} \cup [from : Int, by : Int]]

WorkAt(w) ==
    /\ pc[w] \in {"check", "credit"} => work[w].left \subseteq Partners /\ work[w].on \in Payments
    /\ pc[w] = "credit" => work[w].read \in Partners
    /\ pc[w] = "reverse" => work[w].left \subseteq Rows
    /\ pc[w] \in {"deduct"} \cup Verdicts => work[w].on \in Withdrawals
    /\ pc[w] = "adjust" => work[w].on \in Partners /\ work[w].read \in [from : Int, by : Int]
    /\ pc[w] \in Paying => work[w].on \in Purchases
    /\ pc[w] = "settle" => work[w].left \subseteq Purchases

WorkOK == work \in [Workers -> Job] /\ \A w \in Workers : WorkAt(w)

Typed == TypeOK /\ WorkOK
-----------------------------------------------------------------------------
(* Types                                                                   *)

\* A step of one worker leaves the others where they are.
LEMMA Others ==
  ASSUME Typed, NEW w \in Workers, Act(w), NEW v \in Workers, v # w
  PROVE  pc'[v] = pc[v] /\ work'[v] = work[v]
<1> DEFINE Same == pc'[v] = pc[v] /\ work'[v] = work[v]
<1> USE DEF Goto, Done, Take, Begin
<1>1. pc \in [Workers -> {"idle", "check", "credit", "reverse", "deduct", "approve", "reject",
                          "adjust", "debit", "provision", "restore", "record", "settle"}]
      /\ work = [x \in Workers |-> work[x]]
  BY DEF Typed, TypeOK, WorkOK
<1>2. ASSUME Start(w) PROVE Same
  BY <1>1, <1>2 DEF Start, EarnBegin, ReverseBegin, RequestBegin, ProcessBegin, AdjustBegin, PayBegin
<1>3. ASSUME EarnCheck(w) \/ EarnCredit(w) \/ ReverseOne(w) \/ EarnFail(w) \/ ReverseFail(w) PROVE Same
  BY <1>1, <1>3 DEF EarnCheck, EarnCredit, ReverseOne, EarnFail, ReverseFail
<1>4. ASSUME RequestDeduct(w) \/ Approve(w) \/ Reject(w) \/ AdjustWrite(w) PROVE Same
  BY <1>1, <1>4 DEF RequestDeduct, Approve, Reject, AdjustWrite
<1>5. ASSUME PayDebit(w) \/ PayProvision(w) \/ PayRestore(w) \/ PayRecord(w) PROVE Same
  BY <1>1, <1>5 DEF PayDebit, PayProvision, PayRestore, PayRecord
<1>6. ASSUME SweepBegin(w) \/ SweepSettle(w) \/ Crash(w) PROVE Same
  BY <1>1, <1>6 DEF SweepBegin, SweepSettle, Crash
<1> QED
  BY <1>2, <1>3, <1>4, <1>5, <1>6 DEF Act, Step

\* The initial states.
LEMMA InitTyped == Init => Typed
<1> SUFFICES ASSUME Init PROVE Typed
  OBVIOUS
<1>1. scenario.opening \in Nat
  BY ScenarioAssumption DEF Init
<1>2. TypeOK
  BY <1>1, PartnerAssumption DEF Init, TypeOK
<1>3. WorkOK
  BY DEF Init, WorkOK, WorkAt, Job, Nothing, Verdicts, Paying
<1> QED
  BY <1>2, <1>3 DEF Typed

\* How many of each kind began or failed stays a count.
LEMMA SpentTyped ==
  ASSUME Typed, NEW k \in Kinds \cup {"faults", "crashes"}
  PROVE  [spent EXCEPT ![k] = @ + 1] \in [Kinds \cup {"faults", "crashes"} -> Nat]
  BY DEF Typed, TypeOK

\* Who begins goes where it is sent, and is counted.
LEMMA BeginTyped ==
  ASSUME Typed, NEW w \in Workers, NEW k \in Kinds, NEW step \in Steps, NEW what,
         Begin(w, k, step, what)
  PROVE  /\ spent' \in [Kinds \cup {"faults", "crashes"} -> Nat]
         /\ pc' \in [Workers -> Steps]
         /\ scenario' = scenario
<1>1. spent' \in [Kinds \cup {"faults", "crashes"} -> Nat]
  BY SpentTyped DEF Begin
<1>2. pc' \in [Workers -> Steps] /\ scenario' = scenario
  BY DEF Begin, Take, Goto, Typed, TypeOK, Steps
<1> QED
  BY <1>1, <1>2

\* Whatever begins changes no account.
LEMMA StartTyped ==
  ASSUME Typed, NEW w \in Workers, Start(w)
  PROVE  TypeOK'
<1> DEFINE Begun == /\ spent' \in [Kinds \cup {"faults", "crashes"} -> Nat]
                    /\ pc' \in [Workers -> Steps]
                    /\ scenario' = scenario
<1>1. ASSUME NEW t \in Payments, EarnBegin(w, t) \/ ReverseBegin(w, t) PROVE Begun
  BY <1>1, BeginTyped DEF EarnBegin, ReverseBegin, Kinds, Steps
<1>2. ASSUME NEW x \in Withdrawals, NEW verdict \in Verdicts, RequestBegin(w, x) \/ ProcessBegin(w, x, verdict)
      PROVE  Begun
  BY <1>2, BeginTyped DEF RequestBegin, ProcessBegin, Kinds, Steps, Verdicts
<1>3. ASSUME NEW p \in Partners, NEW by \in {-1, 1}, AdjustBegin(w, p, by) PROVE Begun
  BY <1>3, BeginTyped DEF AdjustBegin, Kinds, Steps
<1>4. ASSUME NEW u \in Purchases, PayBegin(w, u) PROVE Begun
  BY <1>4, BeginTyped DEF PayBegin, Kinds, Steps
<1>5. Begun
  BY <1>1, <1>2, <1>3, <1>4 DEF Start, Verdicts
<1>6. /\ UNCHANGED <<balance, withdrawn, ledger, rows, request, owed, alerted, debited, corrected, clawed>>
      /\ status' \in [Purchases -> {"ABSENT", "PENDING", "COMPLETED"}]
  BY DEF Typed, TypeOK, Start, EarnBegin, ReverseBegin, RequestBegin, ProcessBegin, AdjustBegin, PayBegin,
         money, purchase, history
<1> QED
  BY <1>5, <1>6 DEF Typed, TypeOK, Steps

\* Failures are counted.
LEMMA FailTyped ==
  ASSUME Typed, MayFail
  PROVE  spent' \in [Kinds \cup {"faults", "crashes"} -> Nat]
  BY SpentTyped DEF MayFail

\* Accruals and their reversal.
LEMMA AccrualTyped ==
  ASSUME Typed, NEW w \in Workers,
         EarnCheck(w) \/ EarnCredit(w) \/ ReverseOne(w) \/ EarnFail(w) \/ ReverseFail(w)
  PROVE  TypeOK'
<1> USE PartnerAssumption DEF Typed, TypeOK, WorkOK, WorkAt, Goto, Done, money, purchase, history
<1>1. ASSUME EarnCheck(w) PROVE TypeOK'
  BY <1>1 DEF EarnCheck
<1>2. ASSUME EarnCredit(w) PROVE TypeOK'
  <2>1. work[w].read \in Partners /\ work[w].on \in Payments /\ pc[w] = "credit"
    BY <1>2 DEF EarnCredit
  <2>2. balance' \in [Partners -> Int]
    BY <1>2, <2>1 DEF EarnCredit
  <2>3. rows' \in 0..MaxRows /\ ledger' \subseteq Rows
    BY <1>2, <2>1 DEF EarnCredit, Row, Rows
  <2> QED
    BY <1>2, <2>2, <2>3 DEF EarnCredit, Rows
<1>3. ASSUME ReverseOne(w) PROVE TypeOK'
  <2>1. work[w].left \subseteq Rows
    BY <1>3 DEF ReverseOne
  <2>2. \A r \in Rows : r.partner \in Partners
    BY DEF Rows
  <2>3. balance' \in [Partners -> Int] /\ clawed' \in [Partners -> Nat]
    BY <1>3, <2>1, <2>2 DEF ReverseOne
  <2>4. ledger' \subseteq ledger /\ rows' = rows /\ withdrawn' = withdrawn
    BY <1>3 DEF ReverseOne
  <2> QED
    BY <1>3, <2>3, <2>4 DEF ReverseOne
<1>4. ASSUME EarnFail(w) \/ ReverseFail(w) PROVE TypeOK'
  BY <1>4, FailTyped DEF EarnFail, ReverseFail
<1> QED
  BY <1>1, <1>2, <1>3, <1>4

\* Withdrawals and corrections.
LEMMA OperatorTyped ==
  ASSUME Typed, NEW w \in Workers,
         RequestDeduct(w) \/ Approve(w) \/ Reject(w) \/ AdjustWrite(w)
  PROVE  TypeOK'
<1> USE PartnerAssumption DEF Typed, TypeOK, WorkOK, WorkAt, Goto, Done, purchase, history, Verdicts
<1>1. ASSUME RequestDeduct(w) PROVE TypeOK'
  BY <1>1 DEF RequestDeduct
<1>2. ASSUME Approve(w) PROVE TypeOK'
  BY <1>2 DEF Approve
<1>3. ASSUME Reject(w) PROVE TypeOK'
  BY <1>3 DEF Reject, Refunded
<1>4. ASSUME AdjustWrite(w) PROVE TypeOK'
  BY <1>4 DEF AdjustWrite
<1> QED
  BY <1>1, <1>2, <1>3, <1>4

\* Purchases, the sweep and crashes.
LEMMA PurchaseTyped ==
  ASSUME Typed, NEW w \in Workers,
         PayDebit(w) \/ PayProvision(w) \/ PayRestore(w) \/ PayRecord(w)
         \/ SweepBegin(w) \/ SweepSettle(w) \/ Crash(w)
  PROVE  TypeOK'
<1> USE PartnerAssumption DEF Typed, TypeOK, WorkOK, WorkAt, Goto, Done, Take, GiveBack,
        money, purchase, history, Paying
<1>1. ASSUME PayDebit(w) PROVE TypeOK'
  BY <1>1 DEF PayDebit
<1>2. ASSUME PayProvision(w) PROVE TypeOK'
  <2>1. spent' \in [Kinds \cup {"faults", "crashes"} -> Nat]
    BY <1>2, FailTyped DEF PayProvision
  <2> QED
    BY <1>2, <2>1 DEF PayProvision, RolledBack
<1>3. ASSUME PayRestore(w) PROVE TypeOK'
  <2>1. spent' \in [Kinds \cup {"faults", "crashes"} -> Nat]
    BY <1>3, FailTyped DEF PayRestore
  <2> QED
    <3>1. /\ balance' \in [Partners -> Int]
          /\ owed' \in [Purchases -> {"NONE", "OWED", "RESTORED"}]
          /\ UNCHANGED <<withdrawn, ledger, rows>>
      BY <1>3 DEF PayRestore, RestoreMarker
    <3>2. pc' \in [Workers -> Steps]
      BY <1>3 DEF PayRestore, Steps
    <3> QED
      BY <1>3, <2>1, <3>1, <3>2 DEF PayRestore, Steps
<1>4. ASSUME PayRecord(w) PROVE TypeOK'
  <2>1. spent' \in [Kinds \cup {"faults", "crashes"} -> Nat]
    BY <1>4, FailTyped DEF PayRecord
  <2> QED
    BY <1>4, <2>1 DEF PayRecord
<1>5. ASSUME SweepBegin(w) PROVE TypeOK'
  BY <1>5 DEF SweepBegin
<1>6. ASSUME SweepSettle(w) PROVE TypeOK'
  <2>1. spent' \in [Kinds \cup {"faults", "crashes"} -> Nat]
    BY <1>6, FailTyped DEF SweepSettle
  <2>2. /\ balance' \in [Partners -> Int]
        /\ owed' \in [Purchases -> {"NONE", "OWED", "RESTORED"}]
        /\ UNCHANGED <<withdrawn, ledger, rows>>
    BY <1>6 DEF SweepSettle
  <2> QED
    BY <1>6, <2>1, <2>2 DEF SweepSettle
<1>7. ASSUME Crash(w) PROVE TypeOK'
  BY <1>7, SpentTyped DEF Crash
<1> QED
  BY <1>1, <1>2, <1>3, <1>4, <1>5, <1>6, <1>7

\* Changing one field of a job.
LEMMA JobTyped ==
  ASSUME Typed, NEW w \in Workers
  PROVE  /\ work[w] \in Job /\ Nothing \in Job
         /\ \A S \in SUBSET (Partners \cup Rows \cup Purchases) :
               /\ [work EXCEPT ![w].left = S] = [work EXCEPT ![w] = [@ EXCEPT !.left = S]]
               /\ [work[w] EXCEPT !.left = S] \in Job
               /\ [work[w] EXCEPT !.left = S].left = S
               /\ [work[w] EXCEPT !.left = S].on = work[w].on
               /\ [work[w] EXCEPT !.left = S].read = work[w].read
  BY DEF Typed, WorkOK, Job, Nothing

\* A worker whose job is replaced has a job of the right type.
LEMMA JobPut ==
  ASSUME Typed, NEW w \in Workers, NEW j \in Job, work' = [work EXCEPT ![w] = j]
  PROVE  work' \in [Workers -> Job] /\ work'[w] = j
  BY DEF Typed, WorkOK

\* The jobs of those who begin.
LEMMA StartWork ==
  ASSUME Typed, NEW w \in Workers, Start(w) \/ SweepBegin(w)
  PROVE  work'[w] \in Job /\ WorkAt(w)'
<1> DEFINE Fine == work'[w] \in Job /\ WorkAt(w)'
<1>1. ASSUME NEW t \in Payments, EarnBegin(w, t) PROVE Fine
  <2> DEFINE j == [left |-> Partners, on |-> t, read |-> 0]
  <2>1. pc'[w] = "check" /\ work'[w] = j
    BY <1>1 DEF EarnBegin, Begin, Take, Goto, Typed, TypeOK, WorkOK
  <2>2. j \in Job
    BY DEF Job
  <2> QED
    BY <2>1, <2>2 DEF WorkAt, Verdicts, Paying
<1>2. ASSUME NEW t \in Payments, ReverseBegin(w, t) PROVE Fine
  <2> DEFINE j == [left |-> {r \in ledger : r.source = t}, on |-> t, read |-> 0]
  <2>1. pc'[w] = "reverse" /\ work'[w] = j
    BY <1>2 DEF ReverseBegin, Begin, Take, Goto, Typed, TypeOK, WorkOK
  <2>2. j.left \subseteq Rows
    BY DEF Typed, TypeOK, Rows
  <2>3. j \in Job
    BY <2>2 DEF Job
  <2> QED
    BY <2>1, <2>2, <2>3 DEF WorkAt, Verdicts, Paying
<1>3. ASSUME NEW x \in Withdrawals, NEW verdict \in Verdicts, RequestBegin(w, x) \/ ProcessBegin(w, x, verdict)
      PROVE  Fine
  <2> DEFINE j == [Nothing EXCEPT !.on = x]
  <2>1. pc'[w] \in {"deduct"} \cup Verdicts /\ work'[w] = j
    BY <1>3 DEF RequestBegin, ProcessBegin, Begin, Take, Goto, Typed, TypeOK, WorkOK
  <2>2. j \in Job /\ j.on = x
    BY DEF Job, Nothing
  <2> QED
    BY <2>1, <2>2 DEF WorkAt, Verdicts, Paying
<1>4. ASSUME NEW p \in Partners, NEW by \in {-1, 1}, AdjustBegin(w, p, by) PROVE Fine
  <2> DEFINE j == [left |-> {}, on |-> p, read |-> [from |-> balance[p], by |-> by]]
  <2>1. pc'[w] = "adjust" /\ work'[w] = j
    BY <1>4 DEF AdjustBegin, Begin, Take, Goto, Typed, TypeOK, WorkOK
  <2>2. j \in Job /\ j.on \in Partners /\ j.read \in [from : Int, by : Int]
    BY DEF Job, Typed, TypeOK
  <2> QED
    BY <2>1, <2>2 DEF WorkAt, Verdicts, Paying
<1>5. ASSUME NEW u \in Purchases, PayBegin(w, u) PROVE Fine
  <2> DEFINE j == [Nothing EXCEPT !.on = u]
  <2>1. pc'[w] = "debit" /\ work'[w] = j
    BY <1>5 DEF PayBegin, Begin, Take, Goto, Typed, TypeOK, WorkOK
  <2>2. j \in Job /\ j.on = u
    BY DEF Job, Nothing
  <2> QED
    BY <2>1, <2>2 DEF WorkAt, Verdicts, Paying
<1>6. ASSUME SweepBegin(w) PROVE Fine
  <2> DEFINE j == [Nothing EXCEPT !.left = {u \in Purchases : owed[u] = "OWED"}]
  <2>1. pc'[w] = "settle" /\ work'[w] = j
    BY <1>6 DEF SweepBegin, Take, Goto, Typed, TypeOK, WorkOK
  <2>2. j \in Job /\ j.left \subseteq Purchases
    BY DEF Job, Nothing
  <2> QED
    BY <2>1, <2>2 DEF WorkAt, Verdicts, Paying
<1> QED
  BY <1>1, <1>2, <1>3, <1>4, <1>5, <1>6 DEF Start, Verdicts

\* The jobs of those who go on with an accrual or a reversal.
LEMMA AccrualWork ==
  ASSUME Typed, NEW w \in Workers,
         EarnCheck(w) \/ EarnCredit(w) \/ ReverseOne(w) \/ EarnFail(w) \/ ReverseFail(w)
  PROVE  work'[w] \in Job /\ WorkAt(w)'
<1> DEFINE Fine == work'[w] \in Job /\ WorkAt(w)'
<1> USE DEF Goto, Done
<1>0. work = [x \in Workers |-> work[x]] /\ pc = [x \in Workers |-> pc[x]]
      /\ work[w] \in Job /\ WorkAt(w) /\ Nothing \in Job
  BY JobTyped DEF Typed, TypeOK, WorkOK
<1>1. ASSUME EarnCheck(w) PROVE Fine
  <2>1. work[w].left \subseteq Partners /\ work[w].on \in Payments
    BY <1>0, <1>1 DEF EarnCheck, WorkAt
  <2>2. CASE Done(w)
    BY <1>0, <2>2 DEF WorkAt, Verdicts, Paying
  <2>3. ASSUME NEW p \in work[w].left, work' = [work EXCEPT ![w].left = @ \ {p}], pc' = pc
        PROVE  Fine
    <3>1. work'[w] = [work[w] EXCEPT !.left = @ \ {p}]
      BY <1>0, <2>3
    <3> QED
      BY <1>0, <1>1, <2>1, <2>3, <3>1 DEF EarnCheck, Job, WorkAt, Verdicts, Paying
  <2>4. ASSUME NEW p \in work[w].left, work' = [work EXCEPT ![w].read = p], pc' = [pc EXCEPT ![w] = "credit"]
        PROVE  Fine
    <3>1. work'[w] = [work[w] EXCEPT !.read = p]
      BY <1>0, <2>4
    <3> QED
      BY <1>0, <2>1, <2>4, <3>1 DEF Job, WorkAt, Verdicts, Paying
  <2> QED
    BY <1>1, <2>2, <2>3, <2>4 DEF EarnCheck
<1>2. ASSUME EarnCredit(w) PROVE Fine
  <2> DEFINE p == work[w].read
  <2>1. work[w].left \subseteq Partners /\ work[w].on \in Payments
    BY <1>0, <1>2 DEF EarnCredit, WorkAt
  <2>2. work'[w] = [work[w] EXCEPT !.left = @ \ {p}, !.read = 0] /\ pc'[w] = "check"
    BY <1>0, <1>2 DEF EarnCredit
  <2> QED
    BY <1>0, <2>1, <2>2 DEF Job, WorkAt, Verdicts, Paying
<1>3. ASSUME ReverseOne(w) PROVE Fine
  <2>1. work[w].left \subseteq Rows
    BY <1>0, <1>3 DEF ReverseOne, WorkAt
  <2>2. CASE Done(w)
    BY <1>0, <2>2 DEF WorkAt, Verdicts, Paying
  <2>3. ASSUME NEW r \in work[w].left, work' = [work EXCEPT ![w].left = @ \ {r}], pc' = pc
        PROVE  Fine
    <3>1. work'[w] = [work[w] EXCEPT !.left = @ \ {r}]
      BY <1>0, <2>3
    <3> QED
      BY <1>0, <1>3, <2>1, <2>3, <3>1 DEF ReverseOne, Job, WorkAt, Verdicts, Paying
  <2> QED
    BY <1>3, <2>2, <2>3 DEF ReverseOne
<1>4. ASSUME EarnFail(w) PROVE Fine
  BY <1>0, <1>4 DEF EarnFail, WorkAt, Verdicts, Paying
<1>5. ASSUME ReverseFail(w) PROVE Fine
  <2>1. work[w].left \subseteq Rows
    BY <1>0, <1>5 DEF ReverseFail, WorkAt
  <2>2. PICK r \in work[w].left : work' = [work EXCEPT ![w].left = @ \ {r}]
    BY <1>5 DEF ReverseFail
  <2>3. work'[w] = [work[w] EXCEPT !.left = @ \ {r}]
    BY <1>0, <2>2
  <2> QED
    BY <1>0, <1>5, <2>1, <2>3 DEF ReverseFail, Job, WorkAt, Verdicts, Paying
<1> QED
  BY <1>1, <1>2, <1>3, <1>4, <1>5

\* The jobs of the others who go on.
LEMMA PurchaseWork ==
  ASSUME Typed, NEW w \in Workers,
         \/ RequestDeduct(w) \/ Approve(w) \/ Reject(w) \/ AdjustWrite(w)
         \/ PayDebit(w) \/ PayProvision(w) \/ PayRestore(w) \/ PayRecord(w)
         \/ SweepSettle(w) \/ Crash(w)
  PROVE  work'[w] \in Job /\ WorkAt(w)'
<1> DEFINE Fine == work'[w] \in Job /\ WorkAt(w)'
<1> USE DEF Goto, Done
<1>0. work = [x \in Workers |-> work[x]] /\ pc = [x \in Workers |-> pc[x]]
      /\ work[w] \in Job /\ WorkAt(w) /\ Nothing \in Job
  BY JobTyped DEF Typed, TypeOK, WorkOK
<1>1. CASE Done(w)
  BY <1>0, <1>1 DEF WorkAt, Verdicts, Paying
<1>2. CASE UNCHANGED work /\ pc[w] \in Paying /\ pc'[w] \in Paying
  BY <1>0, <1>2 DEF WorkAt, Verdicts, Paying
<1>3. ASSUME PayDebit(w) \/ PayProvision(w) \/ PayRestore(w) \/ PayRecord(w) PROVE Fine
  BY <1>0, <1>1, <1>2, <1>3 DEF PayDebit, PayProvision, PayRestore, PayRecord, Paying
<1>4. ASSUME RequestDeduct(w) \/ Approve(w) \/ Reject(w) \/ AdjustWrite(w) \/ Crash(w) PROVE Fine
  BY <1>1, <1>4 DEF RequestDeduct, Approve, Reject, AdjustWrite, Crash
<1>5. ASSUME SweepSettle(w) PROVE Fine
  <2>1. work[w].left \subseteq Purchases
    BY <1>0, <1>5 DEF SweepSettle, WorkAt
  <2>2. ASSUME NEW u \in work[w].left, work' = [work EXCEPT ![w].left = @ \ {u}], pc' = pc
        PROVE  Fine
    <3>1. work'[w] = [work[w] EXCEPT !.left = @ \ {u}]
      BY <1>0, <2>2
    <3> QED
      BY <1>0, <1>5, <2>1, <2>2, <3>1 DEF SweepSettle, Job, WorkAt, Verdicts, Paying
  <2> QED
    BY <1>1, <1>5, <2>2 DEF SweepSettle
<1> QED
  BY <1>3, <1>4, <1>5

\* Every action writes the jobs as a function of the workers.
LEMMA WorkIsFunction ==
  ASSUME Typed, NEW w \in Workers, Act(w)
  PROVE  work' = [v \in Workers |-> work'[v]]
<1> USE DEF Done, Take, Begin
<1>1. work = [v \in Workers |-> work[v]]
  BY DEF Typed, WorkOK
<1>2. ASSUME Start(w) PROVE work' = [v \in Workers |-> work'[v]]
  BY <1>1, <1>2 DEF Start, EarnBegin, ReverseBegin, RequestBegin, ProcessBegin, AdjustBegin, PayBegin
<1>3. ASSUME EarnCheck(w) \/ EarnCredit(w) \/ ReverseOne(w) \/ EarnFail(w) \/ ReverseFail(w)
      PROVE  work' = [v \in Workers |-> work'[v]]
  BY <1>1, <1>3 DEF EarnCheck, EarnCredit, ReverseOne, EarnFail, ReverseFail
<1>4. ASSUME RequestDeduct(w) \/ Approve(w) \/ Reject(w) \/ AdjustWrite(w)
      PROVE  work' = [v \in Workers |-> work'[v]]
  BY <1>1, <1>4 DEF RequestDeduct, Approve, Reject, AdjustWrite
<1>5. ASSUME PayDebit(w) \/ PayProvision(w) \/ PayRestore(w) \/ PayRecord(w)
      PROVE  work' = [v \in Workers |-> work'[v]]
  BY <1>1, <1>5 DEF PayDebit, PayProvision, PayRestore, PayRecord
<1>6. ASSUME SweepBegin(w) \/ SweepSettle(w) \/ Crash(w) PROVE work' = [v \in Workers |-> work'[v]]
  BY <1>1, <1>6 DEF SweepBegin, SweepSettle, Crash
<1> QED
  BY <1>2, <1>3, <1>4, <1>5, <1>6 DEF Act, Step

\* Every step keeps the types.
LEMMA TypedStep ==
  ASSUME Typed, NEW w \in Workers, Act(w)
  PROVE  Typed'
<1>1. TypeOK'
  BY StartTyped, AccrualTyped, OperatorTyped, PurchaseTyped DEF Act, Step
<1>2. work'[w] \in Job /\ WorkAt(w)'
  BY StartWork, AccrualWork, PurchaseWork DEF Act, Step
<1>3. ASSUME NEW v \in Workers, v # w PROVE work'[v] \in Job /\ WorkAt(v)'
  <2>1. pc'[v] = pc[v] /\ work'[v] = work[v]
    BY <1>3, Others
  <2>2. work[v] \in Job /\ WorkAt(v)
    BY DEF Typed, WorkOK
  <2> QED
    BY <2>1, <2>2 DEF WorkAt
<1>4. work' \in [Workers -> Job]
  BY <1>2, <1>3, WorkIsFunction
<1> QED
  BY <1>1, <1>2, <1>3, <1>4 DEF Typed, WorkOK
-----------------------------------------------------------------------------
(* Who is at work, and how often each kind began                           *)

Alone ==
    scenario.workers = 1 =>
        \A v, w \in Workers : pc[v] # "idle" /\ pc[w] # "idle" => v = w

Counted ==
    /\ \A k \in Kinds : spent[k] <= scenario.starts[k]
    /\ \A w \in Workers :
          /\ pc[w] = "deduct" => spent["request"] > 0
          /\ pc[w] = "adjust" => spent["adjust"] > 0
          /\ pc[w] \in Verdicts => spent["process"] > 0
    /\ spent["process"] <= 1 =>
          \A v, w \in Workers : pc[v] \in Verdicts /\ pc[w] \in Verdicts => v = w

\* The situation is kept, and whoever acts is at work or begins with room for it.
LEMMA Acting ==
  ASSUME Typed, NEW w \in Workers, Act(w)
  PROVE  /\ scenario' = scenario
         /\ \/ pc[w] # "idle"
            \/ Cardinality({v \in Workers : pc[v] # "idle"}) < scenario.workers
<1> DEFINE Good == /\ scenario' = scenario
                   /\ \/ pc[w] # "idle"
                      \/ Cardinality({v \in Workers : pc[v] # "idle"}) < scenario.workers
<1>1. ASSUME Start(w) PROVE Good
  BY <1>1 DEF Start, EarnBegin, ReverseBegin, RequestBegin, ProcessBegin, AdjustBegin, PayBegin, Begin, Take
<1>2. ASSUME EarnCheck(w) \/ EarnCredit(w) \/ ReverseOne(w) \/ EarnFail(w) \/ ReverseFail(w) PROVE Good
  BY <1>2 DEF EarnCheck, EarnCredit, ReverseOne, EarnFail, ReverseFail
<1>3. ASSUME RequestDeduct(w) \/ Approve(w) \/ Reject(w) \/ AdjustWrite(w) PROVE Good
  BY <1>3 DEF RequestDeduct, Approve, Reject, AdjustWrite
<1>4. ASSUME PayDebit(w) \/ PayProvision(w) \/ PayRestore(w) \/ PayRecord(w) PROVE Good
  BY <1>4 DEF PayDebit, PayProvision, PayRestore, PayRecord
<1>5. ASSUME SweepBegin(w) \/ SweepSettle(w) \/ Crash(w) PROVE Good
  BY <1>5 DEF SweepBegin, SweepSettle, Crash, Take
<1> QED
  BY <1>1, <1>2, <1>3, <1>4, <1>5 DEF Act, Step

\* When handlers run one at a time, nobody is at work beside the one who acts.
LEMMA NobodyElse ==
  ASSUME Typed, Alone, NEW w \in Workers, Act(w), scenario.workers = 1,
         NEW v \in Workers, v # w
  PROVE  pc[v] = "idle" /\ pc'[v] = "idle"
<1> DEFINE Busy == {x \in Workers : pc[x] # "idle"}
<1>1. pc[v] = "idle"
  <2>1. CASE pc[w] # "idle"
    BY <2>1 DEF Alone
  <2>2. CASE pc[w] = "idle"
    <3>1. Cardinality(Busy) < 1
      BY <2>2, Acting
    <3>2. IsFiniteSet(Busy)
      BY PartnerAssumption, FS_Subset
    <3>3. Cardinality(Busy) = 0
      BY <3>1, <3>2, FS_CardinalityType
    <3> QED
      BY <3>2, <3>3, FS_EmptySet
  <2> QED
    BY <2>1, <2>2
<1> QED
  BY <1>1, Others

\* Alone stays alone.
LEMMA AloneStep ==
  ASSUME Typed, Alone, NEW w \in Workers, Act(w)
  PROVE  Alone'
<1>1. ASSUME scenario'.workers = 1, NEW v \in Workers, v # w PROVE pc'[v] = "idle"
  BY <1>1, NobodyElse, Acting
<1> QED
  BY <1>1 DEF Alone

\* What an action counts, and that whoever enters these steps has been counted.
LEMMA Counting ==
  ASSUME Typed, NEW w \in Workers, Act(w)
  PROVE  /\ \A k \in Kinds : spent'[k] = spent[k]
               \/ (spent'[k] = spent[k] + 1 /\ spent[k] < scenario.starts[k])
         /\ pc'[w] = "deduct" => spent'["request"] = spent["request"] + 1
         /\ pc'[w] = "adjust" => spent'["adjust"] = spent["adjust"] + 1
         /\ pc'[w] \in Verdicts => spent'["process"] = spent["process"] + 1
<1> DEFINE Good ==
      /\ \A k \in Kinds : spent'[k] = spent[k]
               \/ (spent'[k] = spent[k] + 1 /\ spent[k] < scenario.starts[k])
      /\ pc'[w] = "deduct" => spent'["request"] = spent["request"] + 1
      /\ pc'[w] = "adjust" => spent'["adjust"] = spent["adjust"] + 1
      /\ pc'[w] \in Verdicts => spent'["process"] = spent["process"] + 1
<1>1. /\ spent \in [Kinds \cup {"faults", "crashes"} -> Nat]
      /\ pc \in [Workers -> Steps]
  BY DEF Typed, TypeOK, Steps
<1>2. ASSUME NEW k \in Kinds, NEW step, NEW what, Begin(w, k, step, what),
             step = "deduct" => k = "request", step = "adjust" => k = "adjust",
             step \in Verdicts => k = "process"
      PROVE  Good
  <2>1. pc'[w] = step
    BY <1>1, <1>2 DEF Begin, Take, Goto
  <2>2. /\ \A c \in Kinds : spent'[c] = IF c = k THEN spent[c] + 1 ELSE spent[c]
        /\ spent[k] < scenario.starts[k]
    BY <1>1, <1>2 DEF Begin
  <2> QED
    BY <1>2, <2>1, <2>2
<1>3. ASSUME spent' = spent \/ MayFail \/ spent' = [spent EXCEPT !["crashes"] = @ + 1],
             pc'[w] \notin {"deduct", "adjust"} \cup Verdicts
      PROVE  Good
  <2>1. \A k \in Kinds : spent'[k] = spent[k]
    <3>1. \A k \in Kinds : k # "faults" /\ k # "crashes"
      BY DEF Kinds
    <3> QED
      BY <1>1, <1>3, <3>1 DEF MayFail
  <2> QED
    BY <1>3, <2>1
<1>4. ASSUME Start(w) PROVE Good
  <2>1. ASSUME NEW t \in Payments, EarnBegin(w, t) \/ ReverseBegin(w, t) PROVE Good
    BY <2>1, <1>2 DEF EarnBegin, ReverseBegin, Kinds, Verdicts
  <2>2. ASSUME NEW x \in Withdrawals, NEW verdict \in Verdicts, RequestBegin(w, x) \/ ProcessBegin(w, x, verdict)
        PROVE  Good
    BY <2>2, <1>2 DEF RequestBegin, ProcessBegin, Kinds, Verdicts
  <2>3. ASSUME NEW p \in Partners, NEW by \in {-1, 1}, AdjustBegin(w, p, by) PROVE Good
    BY <2>3, <1>2 DEF AdjustBegin, Kinds, Verdicts
  <2>4. ASSUME NEW u \in Purchases, PayBegin(w, u) PROVE Good
    BY <2>4, <1>2 DEF PayBegin, Kinds, Verdicts
  <2> QED
    BY <1>4, <2>1, <2>2, <2>3, <2>4 DEF Start, Verdicts
<1>5. ASSUME EarnCheck(w) \/ EarnCredit(w) \/ ReverseOne(w) \/ EarnFail(w) \/ ReverseFail(w) PROVE Good
  <2>1. pc'[w] \notin {"deduct", "adjust"} \cup Verdicts
    BY <1>1, <1>5 DEF EarnCheck, EarnCredit, ReverseOne, EarnFail, ReverseFail, Done, Goto, Verdicts
  <2> QED
    BY <1>3, <1>5, <2>1 DEF EarnCheck, EarnCredit, ReverseOne, EarnFail, ReverseFail
<1>6. ASSUME RequestDeduct(w) \/ Approve(w) \/ Reject(w) \/ AdjustWrite(w) PROVE Good
  <2>1. pc'[w] = "idle" /\ spent' = spent
    BY <1>1, <1>6 DEF RequestDeduct, Approve, Reject, AdjustWrite, Done, Goto
  <2> QED
    BY <1>3, <2>1 DEF Verdicts
<1>7. ASSUME PayDebit(w) \/ PayProvision(w) \/ PayRestore(w) \/ PayRecord(w) PROVE Good
  <2>1. pc'[w] \notin {"deduct", "adjust"} \cup Verdicts
    BY <1>1, <1>7 DEF PayDebit, PayProvision, PayRestore, PayRecord, Done, Goto, Verdicts
  <2>2. spent' = spent \/ MayFail
    BY <1>7 DEF PayDebit, PayProvision, PayRestore, PayRecord
  <2> QED
    BY <1>3, <2>1, <2>2
<1>8. ASSUME SweepBegin(w) \/ SweepSettle(w) \/ Crash(w) PROVE Good
  <2>1. pc'[w] \notin {"deduct", "adjust"} \cup Verdicts
    BY <1>1, <1>8 DEF SweepBegin, SweepSettle, Crash, Done, Take, Goto, Verdicts
  <2>2. spent' = spent \/ MayFail \/ spent' = [spent EXCEPT !["crashes"] = @ + 1]
    BY <1>8 DEF SweepBegin, SweepSettle, Crash
  <2> QED
    BY <1>3, <2>1, <2>2
<1> QED
  BY <1>4, <1>5, <1>6, <1>7, <1>8 DEF Act, Step

\* The counts stay right.
LEMMA CountedStep ==
  ASSUME Typed, Counted, NEW w \in Workers, Act(w)
  PROVE  Counted'
<1>1. /\ spent \in [Kinds \cup {"faults", "crashes"} -> Nat]
      /\ {"request", "adjust", "process"} \subseteq Kinds
      /\ scenario.starts \in [Kinds -> Nat] /\ scenario' = scenario
  BY Acting, ScenarioAssumption DEF Typed, TypeOK, Kinds
<1>2. ASSUME NEW k \in Kinds PROVE spent'[k] <= scenario'.starts[k] /\ spent'[k] >= spent[k]
  <2>1. spent'[k] = spent[k] \/ (spent'[k] = spent[k] + 1 /\ spent[k] < scenario.starts[k])
    BY Counting
  <2>2. spent[k] \in Nat /\ scenario.starts[k] \in Nat /\ spent[k] <= scenario.starts[k]
    BY <1>1 DEF Counted
  <2> QED
    BY <1>1, <2>1, <2>2
<1>3. ASSUME NEW v \in Workers
      PROVE  /\ pc'[v] = "deduct" => spent'["request"] > 0
             /\ pc'[v] = "adjust" => spent'["adjust"] > 0
             /\ pc'[v] \in Verdicts => spent'["process"] > 0
  <2>1. spent["request"] \in Nat /\ spent["adjust"] \in Nat /\ spent["process"] \in Nat
    BY <1>1
  <2>2. CASE v = w
    BY <2>1, <2>2, Counting
  <2>3. CASE v # w
    <3>1. pc'[v] = pc[v]
      BY <2>3, Others
    <3>2. /\ spent'["request"] >= spent["request"] /\ spent'["adjust"] >= spent["adjust"]
          /\ spent'["process"] >= spent["process"]
          /\ spent'["request"] \in Nat /\ spent'["adjust"] \in Nat /\ spent'["process"] \in Nat
      BY <1>1, <1>2, TypedStep DEF Typed, TypeOK
    <3> QED
      BY <2>1, <3>1, <3>2 DEF Counted
  <2> QED
    BY <2>2, <2>3
<1>4. ASSUME spent'["process"] <= 1, NEW v \in Workers, pc'[v] \in Verdicts, NEW x \in Workers, pc'[x] \in Verdicts
      PROVE  v = x
  <2>1. /\ spent["process"] \in Nat /\ spent'["process"] \in Nat
        /\ spent["process"] <= spent'["process"]
    BY <1>1, <1>2, TypedStep DEF Typed, TypeOK
  <2>2. CASE pc'[w] \in Verdicts
    <3>1. spent["process"] = 0
      BY <1>4, <2>1, <2>2, Counting
    <3>2. \A y \in Workers : pc[y] \notin Verdicts
      BY <3>1 DEF Counted
    <3> QED
      BY <1>4, <3>2, Others
  <2>3. CASE pc'[w] \notin Verdicts
    <3>1. v # w /\ x # w
      BY <1>4, <2>3
    <3>2. pc[v] \in Verdicts /\ pc[x] \in Verdicts
      BY <1>4, <3>1, Others
    <3>3. spent["process"] <= 1
      BY <1>4, <2>1
    <3> QED
      BY <3>2, <3>3 DEF Counted
  <2> QED
    BY <2>2, <2>3
<1> QED
  BY <1>2, <1>3, <1>4 DEF Counted
-----------------------------------------------------------------------------
(* The ledger                                                              *)

Numbered == IsFiniteSet(ledger) /\ \A r \in ledger : r.id <= rows

\* When payments are handled one at a time, nobody credits a partner twice.
FirstOnly ==
    scenario.workers = 1 =>
        /\ \A r, s \in ledger : r.partner = s.partner /\ r.partner \in OncePerUser => r = s
        /\ \A w \in Workers :
              pc[w] = "credit" /\ work[w].read \in OncePerUser => ~EarnedOnce(work[w].read)

LedgerOK == Numbered /\ CreditedOnce /\ FirstOnly

Credited(w) ==
    /\ pc[w] = "credit"
    /\ ~Earned(work[w].read, work[w].on)
    /\ rows' = rows + 1
    /\ ledger' = ledger \cup {Row(work[w].read, work[w].on, rows')}
    /\ balance' = [balance EXCEPT ![work[w].read] = @ + Earn[work[w].read]]
    /\ UNCHANGED <<withdrawn, corrected, clawed, request, debited, owed>>
    /\ pc'[w] = "check"

Reversed(w) ==
    /\ pc[w] = "reverse" /\ pc'[w] = "reverse"
    /\ \E r \in ledger :
          /\ ledger' = ledger \ {r}
          /\ balance' = [balance EXCEPT ![r.partner] = @ - Earn[r.partner]]
          /\ clawed' = [clawed EXCEPT ![r.partner] = @ + Earn[r.partner]]
    /\ UNCHANGED <<rows, withdrawn, corrected, request, debited, owed>>

\* The ledger is written by a credit and by a reversal, and by nobody else.
LEMMA LedgerWriters ==
  ASSUME Typed, NEW w \in Workers, Act(w)
  PROVE  Credited(w) \/ Reversed(w) \/ (ledger' = ledger /\ rows' = rows)
<1> DEFINE Good == Credited(w) \/ Reversed(w) \/ (ledger' = ledger /\ rows' = rows)
<1>0. pc \in [Workers -> Steps]
  BY DEF Typed, TypeOK, Steps
<1> USE DEF money, purchase, history
<1>1. ASSUME Start(w) PROVE Good
  BY <1>1 DEF Start, EarnBegin, ReverseBegin, RequestBegin, ProcessBegin, AdjustBegin, PayBegin
<1>2. ASSUME EarnCredit(w) PROVE Good
  <2>1. CASE Collides(work[w].read, work[w].on)
    BY <1>2, <2>1 DEF EarnCredit
  <2>2. CASE ~Collides(work[w].read, work[w].on)
    BY <1>0, <1>2, <2>2 DEF EarnCredit, Credited, Collides, Goto
  <2> QED
    BY <2>1, <2>2
<1>3. ASSUME ReverseOne(w) PROVE Good
  <2>1. CASE UNCHANGED <<money, clawed>>
    BY <2>1
  <2>2. CASE \E r \in work[w].left :
               /\ r \in ledger
               /\ ledger' = ledger \ {r}
               /\ balance' = [balance EXCEPT ![r.partner] = @ - Earn[r.partner]]
               /\ clawed' = [clawed EXCEPT ![r.partner] = @ + Earn[r.partner]]
               /\ UNCHANGED <<rows, withdrawn, pc>>
    BY <1>3, <2>2 DEF ReverseOne, Reversed
  <2> QED
    BY <1>3, <2>1, <2>2 DEF ReverseOne, StillThere
<1>4. ASSUME EarnCheck(w) \/ EarnFail(w) \/ ReverseFail(w) PROVE Good
  BY <1>4 DEF EarnCheck, EarnFail, ReverseFail
<1>5. ASSUME RequestDeduct(w) \/ Approve(w) \/ Reject(w) \/ AdjustWrite(w) PROVE Good
  BY <1>5 DEF RequestDeduct, Approve, Reject, AdjustWrite
<1>6. ASSUME PayDebit(w) \/ PayProvision(w) \/ PayRestore(w) \/ PayRecord(w) PROVE Good
  BY <1>6 DEF PayDebit, PayProvision, PayRestore, PayRecord, GiveBack
<1>7. ASSUME SweepBegin(w) \/ SweepSettle(w) \/ Crash(w) PROVE Good
  BY <1>7 DEF SweepBegin, SweepSettle, Crash, GiveBack
<1> QED
  BY <1>1, <1>2, <1>3, <1>4, <1>5, <1>6, <1>7 DEF Act, Step

\* Whoever is about to credit a partner has just found that it may.
LEMMA EntersCredit ==
  ASSUME Typed, NEW w \in Workers, Act(w), pc'[w] = "credit"
  PROVE  /\ ledger' = ledger
         /\ \E p \in Partners, t \in Payments : work'[w].read = p /\ ~Skipped(p, t)
<1> DEFINE Good == /\ ledger' = ledger
                   /\ \E p \in Partners, t \in Payments : work'[w].read = p /\ ~Skipped(p, t)
<1>0. pc \in [Workers -> Steps] /\ work[w] \in Job /\ WorkAt(w) /\ work = [x \in Workers |-> work[x]]
  BY DEF Typed, TypeOK, WorkOK, Steps
<1> USE DEF Goto, Done, Take, Begin
<1>1. ASSUME Start(w) PROVE Good
  BY <1>0, <1>1 DEF Start, EarnBegin, ReverseBegin, RequestBegin, ProcessBegin, AdjustBegin, PayBegin
<1>2. ASSUME EarnCheck(w) PROVE Good
  <2>1. work[w].left \subseteq Partners /\ work[w].on \in Payments
    BY <1>0, <1>2 DEF EarnCheck, WorkAt
  <2>2. PICK p \in work[w].left : ~Skipped(p, work[w].on) /\ work' = [work EXCEPT ![w].read = p]
    BY <1>0, <1>2 DEF EarnCheck
  <2>3. work'[w].read = p
    BY <1>0, <2>2 DEF Job
  <2> QED
    BY <1>2, <2>1, <2>2, <2>3 DEF EarnCheck, money
<1>3. ASSUME EarnCredit(w) \/ ReverseOne(w) \/ EarnFail(w) \/ ReverseFail(w) PROVE Good
  BY <1>0, <1>3 DEF EarnCredit, ReverseOne, EarnFail, ReverseFail
<1>4. ASSUME RequestDeduct(w) \/ Approve(w) \/ Reject(w) \/ AdjustWrite(w) PROVE Good
  BY <1>0, <1>4 DEF RequestDeduct, Approve, Reject, AdjustWrite
<1>5. ASSUME PayDebit(w) \/ PayProvision(w) \/ PayRestore(w) \/ PayRecord(w) PROVE Good
  BY <1>0, <1>5 DEF PayDebit, PayProvision, PayRestore, PayRecord
<1>6. ASSUME SweepBegin(w) \/ SweepSettle(w) \/ Crash(w) PROVE Good
  BY <1>0, <1>6 DEF SweepBegin, SweepSettle, Crash
<1> QED
  BY <1>1, <1>2, <1>3, <1>4, <1>5, <1>6 DEF Act, Step

\* A credit adds one row to a finite ledger, a reversal takes one away.
LEMMA LedgerStep ==
  ASSUME Typed, Alone, LedgerOK, NEW w \in Workers, Act(w)
  PROVE  LedgerOK'
<1>0. /\ ledger \subseteq Rows /\ rows \in Nat /\ WorkAt(w) /\ scenario' = scenario
      /\ \A r \in Rows : r.id \in Nat
  <2>1. ledger \subseteq Rows /\ WorkAt(w)
    BY DEF Typed, TypeOK, WorkOK, Rows
  <2>2. rows \in Nat /\ \A r \in Rows : r.id \in Nat
    BY PartnerAssumption DEF Typed, TypeOK, Rows
  <2> QED
    BY <2>1, <2>2, Acting
<1>1. CASE Credited(w)
  <2> DEFINE p == work[w].read
             t == work[w].on
             new == Row(p, t, rows + 1)
  <2>1. p \in Partners /\ t \in Payments /\ ledger' = ledger \cup {new} /\ rows' = rows + 1
    BY <1>0, <1>1 DEF Credited, WorkAt
  <2>2. new.partner = p /\ new.source = t /\ new.id = rows + 1
    BY DEF Row
  <2>3. Numbered'
    <3>1. IsFiniteSet(ledger')
      BY <2>1, FS_AddElement DEF LedgerOK, Numbered
    <3>2. \A r \in ledger' : r.id <= rows'
      BY <1>0, <2>1, <2>2 DEF LedgerOK, Numbered
    <3> QED
      BY <3>1, <3>2 DEF Numbered
  <2>4. CreditedOnce'
    BY <1>1, <2>1, <2>2 DEF Credited, Earned, LedgerOK, CreditedOnce
  <2>5. ASSUME scenario'.workers = 1 PROVE
          /\ \A r, s \in ledger' : r.partner = s.partner /\ r.partner \in OncePerUser => r = s
          /\ \A v \in Workers : pc'[v] # "credit"
    <3>1. p \in OncePerUser => ~EarnedOnce(p)
      BY <1>0, <1>1, <2>5 DEF LedgerOK, FirstOnly, Credited
    <3>2. \A r, s \in ledger : r.partner = s.partner /\ r.partner \in OncePerUser => r = s
      BY <1>0, <2>5 DEF LedgerOK, FirstOnly
    <3>3. \A v \in Workers : pc'[v] # "credit"
      BY <1>0, <1>1, <2>5, NobodyElse DEF Credited
    <3> QED
      BY <2>1, <2>2, <3>1, <3>2, <3>3 DEF EarnedOnce
  <2> QED
    BY <2>3, <2>4, <2>5 DEF LedgerOK, FirstOnly
<1>2. CASE Reversed(w)
  <2>1. ledger' \subseteq ledger /\ rows' = rows
    BY <1>2 DEF Reversed
  <2>2. Numbered' /\ CreditedOnce'
    BY <2>1, FS_Subset DEF LedgerOK, Numbered, CreditedOnce
  <2>3. ASSUME scenario'.workers = 1, NEW v \in Workers PROVE pc'[v] # "credit"
    BY <1>0, <1>2, <2>3, NobodyElse DEF Reversed
  <2> QED
    BY <1>0, <2>1, <2>2, <2>3 DEF LedgerOK, FirstOnly
<1>3. CASE ledger' = ledger /\ rows' = rows
  <2>1. Numbered' /\ CreditedOnce'
    BY <1>3 DEF LedgerOK, Numbered, CreditedOnce
  <2>2. ASSUME scenario'.workers = 1, NEW v \in Workers, pc'[v] = "credit", work'[v].read \in OncePerUser
        PROVE  ~(EarnedOnce(work[v].read))'
    <3>1. v = w
      BY <1>0, <2>2, NobodyElse
    <3>2. ~EarnedOnce(work'[v].read)
      BY <2>2, <3>1, EntersCredit DEF Skipped
    <3> QED
      BY <1>3, <3>2 DEF EarnedOnce
  <2> QED
    BY <1>0, <1>3, <2>1, <2>2 DEF LedgerOK, FirstOnly
<1> QED
  BY <1>1, <1>2, <1>3, LedgerWriters
-----------------------------------------------------------------------------
(* Purchases                                                               *)

Carrier(u) ==
    \E w \in Workers : pc[w] \in {"provision", "restore", "record"} /\ work[w].on = u

PurseAt(w) ==
    pc[w] \in Paying =>
        /\ status[work[w].on] = "PENDING"
        /\ work[w].on \in debited <=> pc[w] # "debit"
        /\ owed[work[w].on] # "OWED"
        /\ pc[w] # "record" => owed[work[w].on] = "NONE"

PurseOf(u) ==
    /\ owed[u] # "NONE" => status[u] = "PENDING" /\ u \in debited
    /\ u \in debited => status[u] # "ABSENT"
    /\ spent["crashes"] = 0 /\ u \in debited =>
          status[u] = "COMPLETED" \/ owed[u] # "NONE" \/ u \in alerted \/ Carrier(u)

OnePayer ==
    \A v, w \in Workers :
        pc[v] \in Paying /\ pc[w] \in Paying /\ work[v].on = work[w].on => v = w

PursesOK ==
    /\ \A w \in Workers : PurseAt(w)
    /\ \A u \in Purchases : PurseOf(u)
    /\ OnePayer

\* A step that writes the rows of at most one purchase.
OnlyAt(u) ==
    \A x \in Purchases \ {u} :
        /\ status'[x] = status[x] /\ owed'[x] = owed[x]
        /\ x \in debited' <=> x \in debited
        /\ x \in alerted => x \in alerted'

\* What such a step leaves to show: its own worker and its own purchase.
LEMMA PurseFrame ==
  ASSUME Typed, PursesOK, NEW w \in Workers, Act(w), NEW u \in Purchases, OnlyAt(u),
         PurseAt(w)', PurseOf(u)',
         spent'["crashes"] = spent["crashes"],
         pc[w] \in Paying => work[w].on = u,
         pc'[w] \in Paying => work'[w].on = u,
         \A v \in Workers : v # w /\ pc[v] \in Paying => work[v].on # u
  PROVE  PursesOK'
<1>1. ASSUME NEW v \in Workers, v # w
      PROVE  pc'[v] = pc[v] /\ work'[v] = work[v]
  BY <1>1, Others
<1>2. ASSUME NEW v \in Workers PROVE PurseAt(v)'
  <2>1. CASE v = w
    BY <2>1
  <2>2. CASE v # w
    <3>1. pc'[v] = pc[v] /\ work'[v] = work[v]
      BY <1>1, <2>2
    <3>2. ASSUME pc[v] \in Paying
          PROVE  work[v].on \in Purchases \ {u}
      BY <2>2, <3>2 DEF Typed, WorkOK, WorkAt
    <3>3. PurseAt(v)
      BY DEF PursesOK
    <3> QED
      BY <3>1, <3>2, <3>3 DEF PurseAt, OnlyAt
  <2> QED
    BY <2>1, <2>2
<1>3. ASSUME NEW x \in Purchases PROVE PurseOf(x)'
  <2>1. CASE x = u
    BY <2>1
  <2>2. CASE x # u
    <3>1. PurseOf(x)
      BY DEF PursesOK
    <3>2. ASSUME Carrier(x) PROVE Carrier(x)'
      <4>1. PICK v \in Workers : pc[v] \in {"provision", "restore", "record"} /\ work[v].on = x
        BY <3>2 DEF Carrier
      <4>2. v # w
        BY <2>2, <4>1 DEF Paying
      <4> QED
        BY <1>1, <4>1, <4>2 DEF Carrier
    <3>3. /\ status'[x] = status[x] /\ owed'[x] = owed[x]
          /\ x \in debited' <=> x \in debited
          /\ x \in alerted => x \in alerted'
      BY <2>2 DEF OnlyAt
    <3> QED
      BY <3>1, <3>2, <3>3 DEF PurseOf
  <2> QED
    BY <2>1, <2>2
<1>4. OnePayer'
  <2> SUFFICES ASSUME NEW v \in Workers, NEW x \in Workers, pc'[v] \in Paying, pc'[x] \in Paying,
                      work'[v].on = work'[x].on, v # x
               PROVE  FALSE
    BY DEF OnePayer
  <2>1. CASE v # w /\ x # w
    BY <1>1, <2>1 DEF PursesOK, OnePayer
  <2>2. CASE v = w \/ x = w
    BY <1>1, <2>2
  <2> QED
    BY <2>1, <2>2
<1> QED
  BY <1>2, <1>3, <1>4 DEF PursesOK

\* Steps that are not about purchases.
LEMMA PurseQuiet ==
  ASSUME Typed, PursesOK, NEW w \in Workers, Act(w),
         UNCHANGED <<status, owed, alerted, debited>>,
         pc[w] \notin Paying, pc'[w] \notin Paying,
         spent'["crashes"] = spent["crashes"]
  PROVE  PursesOK'
<1>1. ASSUME NEW v \in Workers, v # w
      PROVE  pc'[v] = pc[v] /\ work'[v] = work[v]
  BY <1>1, Others
<1>2. ASSUME NEW v \in Workers PROVE PurseAt(v)'
  BY <1>1 DEF PursesOK, PurseAt
<1>3. ASSUME NEW x \in Purchases PROVE PurseOf(x)'
  <2>1. ASSUME Carrier(x) PROVE Carrier(x)'
    BY <1>1, <2>1 DEF Carrier, Paying
  <2> QED
    BY <2>1 DEF PursesOK, PurseOf
<1>4. OnePayer'
  BY <1>1 DEF PursesOK, OnePayer
<1> QED
  BY <1>2, <1>3, <1>4 DEF PursesOK

\* A purchase begins.
LEMMA PurseBegin ==
  ASSUME Typed, PursesOK, NEW w \in Workers, NEW u \in Purchases, PayBegin(w, u)
  PROVE  PursesOK'
<1>0. Act(w) /\ pc = [x \in Workers |-> pc[x]] /\ work = [x \in Workers |-> work[x]]
      /\ status = [x \in Purchases |-> status[x]]
      /\ spent = [k \in Kinds \cup {"faults", "crashes"} |-> spent[k]]
  BY DEF Typed, TypeOK, WorkOK, Act, Start
<1>1. pc[w] = "idle" /\ pc'[w] = "debit" /\ work'[w].on = u
  BY <1>0 DEF PayBegin, Begin, Take, Goto, Nothing
<1>2. status[u] = "ABSENT" /\ status'[u] = "PENDING" /\ UNCHANGED <<owed, alerted, debited>>
  BY <1>0 DEF PayBegin
<1>3. spent'["crashes"] = spent["crashes"]
  BY <1>0 DEF PayBegin, Begin
<1>4. OnlyAt(u)
  BY <1>0 DEF PayBegin, OnlyAt
<1>5. u \notin debited /\ owed[u] = "NONE"
  BY <1>2 DEF PursesOK, PurseOf
<1>6. PurseAt(w)' /\ PurseOf(u)'
  BY <1>1, <1>2, <1>5 DEF PurseAt, PurseOf
<1>7. \A v \in Workers : pc[v] \in Paying => work[v].on # u
  BY <1>2 DEF PursesOK, PurseAt
<1> QED
  BY <1>0, <1>1, <1>3, <1>4, <1>6, <1>7, PurseFrame DEF Paying

\* The facts about a worker that goes on with a purchase.
LEMMA PayFacts ==
  ASSUME Typed, PursesOK, NEW w \in Workers, pc[w] \in Paying
  PROVE  /\ work[w].on \in Purchases /\ PurseAt(w) /\ PurseOf(work[w].on)
         /\ \A v \in Workers : v # w /\ pc[v] \in Paying => work[v].on # work[w].on
         /\ pc = [x \in Workers |-> pc[x]] /\ work = [x \in Workers |-> work[x]]
         /\ status = [x \in Purchases |-> status[x]] /\ owed = [x \in Purchases |-> owed[x]]
  BY DEF Typed, TypeOK, WorkOK, WorkAt, PursesOK, OnePayer

\* A failure is not a crash.
LEMMA FailIsNoCrash ==
  ASSUME Typed, MayFail
  PROVE  spent'["crashes"] = spent["crashes"]
  BY DEF Typed, TypeOK, MayFail

\* The debit.
LEMMA PurseDebit ==
  ASSUME Typed, PursesOK, NEW w \in Workers, PayDebit(w)
  PROVE  PursesOK'
<1>0. Act(w) /\ pc[w] = "debit" /\ pc[w] \in Paying /\ UNCHANGED <<status, owed, alerted, spent>>
  BY DEF Act, Step, PayDebit, Paying
<1>1. PICK u \in Purchases :
         /\ u = work[w].on /\ PurseAt(w) /\ PurseOf(u)
         /\ \A v \in Workers : v # w /\ pc[v] \in Paying => work[v].on # u
  BY <1>0, PayFacts
<1>2. CASE Affords(u)
  <2>1. pc'[w] = "provision" /\ debited' = debited \cup {u} /\ work' = work
    BY <1>0, <1>1, <1>2, PayFacts DEF PayDebit, Goto
  <2>2. PurseAt(w)'
    BY <1>0, <1>1, <2>1 DEF PurseAt
  <2>3. PurseOf(u)'
    <3>1. Carrier(u)'
      BY <1>1, <2>1 DEF Carrier
    <3> QED
      BY <1>0, <1>1, <2>1, <3>1 DEF PurseOf, PurseAt
  <2>4. OnlyAt(u)
    BY <1>0, <2>1 DEF OnlyAt
  <2> QED
    BY <1>0, <1>1, <2>1, <2>2, <2>3, <2>4, PurseFrame
<1>3. CASE ~Affords(u)
  <2>1. pc'[w] = "idle" /\ debited' = debited
    BY <1>0, <1>1, <1>3, PayFacts DEF PayDebit, Done, Goto
  <2>2. PurseAt(w)'
    BY <2>1 DEF PurseAt, Paying
  <2>3. PurseOf(u)'
    BY <1>0, <1>1, <2>1 DEF PurseOf, PurseAt
  <2>4. OnlyAt(u)
    BY <1>0, <2>1 DEF OnlyAt
  <2> QED
    BY <1>0, <1>1, <2>1, <2>2, <2>3, <2>4, PurseFrame DEF Paying
<1> QED
  BY <1>2, <1>3

\* The delivery, or its failure.
LEMMA PurseProvision ==
  ASSUME Typed, PursesOK, NEW w \in Workers, PayProvision(w)
  PROVE  PursesOK'
<1>0. /\ Act(w) /\ pc[w] = "provision" /\ pc[w] \in Paying /\ UNCHANGED <<owed, alerted, debited>>
      /\ spent'["crashes"] = spent["crashes"]
  BY FailIsNoCrash DEF Act, Step, PayProvision, Paying, history
<1>1. PICK u \in Purchases :
         /\ u = work[w].on /\ PurseAt(w) /\ PurseOf(u)
         /\ \A v \in Workers : v # w /\ pc[v] \in Paying => work[v].on # u
  BY <1>0, PayFacts
<1>2. \/ pc'[w] = "idle" /\ status' = [status EXCEPT ![u] = "COMPLETED"]
      \/ pc'[w] = "restore" /\ work' = work /\ status' = [status EXCEPT ![u] = "PENDING"]
  BY <1>0, <1>1, PayFacts DEF PayProvision, Done, Goto, RolledBack
<1>3. OnlyAt(u)
  BY <1>0, <1>1, <1>2, PayFacts DEF OnlyAt
<1>4. CASE pc'[w] = "idle" /\ status' = [status EXCEPT ![u] = "COMPLETED"]
  <2>1. PurseAt(w)'
    BY <1>4 DEF PurseAt, Paying
  <2>2. status'[u] = "COMPLETED"
    BY <1>0, <1>1, <1>4, PayFacts
  <2>3. PurseOf(u)'
    BY <1>0, <1>1, <2>2 DEF PurseOf, PurseAt
  <2> QED
    BY <1>0, <1>1, <1>3, <1>4, <2>1, <2>3, PurseFrame DEF Paying
<1>5. CASE pc'[w] = "restore" /\ work' = work /\ status' = [status EXCEPT ![u] = "PENDING"]
  <2>1. status'[u] = "PENDING"
    BY <1>0, <1>1, <1>5, PayFacts
  <2>2. PurseAt(w)'
    BY <1>0, <1>1, <1>5, <2>1 DEF PurseAt
  <2>3. PurseOf(u)'
    <3>1. Carrier(u)'
      BY <1>1, <1>5 DEF Carrier
    <3> QED
      BY <1>0, <1>1, <2>1, <3>1 DEF PurseOf, PurseAt
  <2> QED
    BY <1>0, <1>1, <1>3, <1>5, <2>2, <2>3, PurseFrame
<1> QED
  BY <1>2, <1>4, <1>5

\* The restore commits, fails, or only its acknowledgement is lost.
LEMMA PurseRestore ==
  ASSUME Typed, PursesOK, NEW w \in Workers, PayRestore(w)
  PROVE  PursesOK'
<1>0. /\ Act(w) /\ pc[w] = "restore" /\ pc[w] \in Paying /\ UNCHANGED <<status, alerted, debited>>
      /\ spent'["crashes"] = spent["crashes"]
  BY FailIsNoCrash DEF Act, Step, PayRestore, Paying, history
<1>1. PICK u \in Purchases :
         /\ u = work[w].on /\ PurseAt(w) /\ PurseOf(u)
         /\ \A v \in Workers : v # w /\ pc[v] \in Paying => work[v].on # u
  BY <1>0, PayFacts
<1>2. /\ \/ pc'[w] = "idle" /\ owed' = [owed EXCEPT ![u] = "RESTORED"]
         \/ pc'[w] = "record" /\ work' = work /\ owed' = [owed EXCEPT ![u] = "RESTORED"]
         \/ pc'[w] = "record" /\ work' = work /\ owed' = owed
  BY <1>0, <1>1, PayFacts DEF PayRestore, Done, Goto, RestoreMarker
<1>3. OnlyAt(u)
  BY <1>0, <1>1, <1>2, PayFacts DEF OnlyAt
<1>4. status[u] = "PENDING" /\ u \in debited /\ owed[u] = "NONE"
  BY <1>0, <1>1 DEF PurseAt
<1>5. owed'[u] = "RESTORED" \/ (pc'[w] = "record" /\ work' = work /\ owed'[u] = "NONE")
  BY <1>0, <1>1, <1>2, <1>4, PayFacts
<1>6. PurseAt(w)'
  BY <1>0, <1>1, <1>2, <1>4, <1>5 DEF PurseAt, Paying
<1>7. PurseOf(u)'
  <2>1. CASE owed'[u] = "RESTORED"
    BY <1>0, <1>4, <2>1 DEF PurseOf
  <2>2. CASE pc'[w] = "record" /\ work' = work /\ owed'[u] = "NONE"
    <3>1. Carrier(u)'
      BY <1>1, <2>2 DEF Carrier
    <3> QED
      BY <1>0, <1>4, <2>2, <3>1 DEF PurseOf
  <2> QED
    BY <1>5, <2>1, <2>2
<1>8. pc'[w] \in Paying => work'[w].on = u
  BY <1>1, <1>2 DEF Paying
<1> QED
  BY <1>0, <1>1, <1>3, <1>6, <1>7, <1>8, PurseFrame

\* The debt is recorded, reported, or found settled.
LEMMA PurseRecord ==
  ASSUME Typed, PursesOK, NEW w \in Workers, PayRecord(w)
  PROVE  PursesOK'
<1>0. /\ Act(w) /\ pc[w] = "record" /\ pc[w] \in Paying /\ UNCHANGED <<status, debited>>
      /\ spent'["crashes"] = spent["crashes"]
  BY FailIsNoCrash DEF Act, Step, PayRecord, Paying, history
<1>1. PICK u \in Purchases :
         /\ u = work[w].on /\ PurseAt(w) /\ PurseOf(u)
         /\ \A v \in Workers : v # w /\ pc[v] \in Paying => work[v].on # u
  BY <1>0, PayFacts
<1>2. /\ pc'[w] = "idle"
      /\ \/ owed[u] = "RESTORED" /\ owed' = owed /\ alerted' = alerted
         \/ owed' = [owed EXCEPT ![u] = "OWED"] /\ alerted' = alerted \cup {u}
         \/ owed' = owed /\ alerted' = alerted \cup {u}
  BY <1>0, <1>1, PayFacts DEF PayRecord, Done, Goto, Settled
<1>3. OnlyAt(u)
  BY <1>0, <1>1, <1>2, PayFacts DEF OnlyAt
<1>4. status[u] = "PENDING" /\ u \in debited
  BY <1>0, <1>1 DEF PurseAt
<1>5. owed'[u] # "NONE" \/ u \in alerted'
  BY <1>2
<1>6. PurseAt(w)' /\ PurseOf(u)'
  BY <1>0, <1>2, <1>4, <1>5 DEF PurseAt, PurseOf, Paying
<1> QED
  BY <1>0, <1>1, <1>2, <1>3, <1>6, PurseFrame DEF Paying

\* The sweep settles what is still owed.
LEMMA PurseSettle ==
  ASSUME Typed, PursesOK, NEW w \in Workers, SweepSettle(w)
  PROVE  PursesOK'
<1>0. /\ Act(w) /\ pc[w] = "settle" /\ pc[w] \notin Paying /\ pc'[w] \notin Paying
      /\ UNCHANGED <<status, alerted, debited>>
      /\ spent'["crashes"] = spent["crashes"]
      /\ owed = [x \in Purchases |-> owed[x]]
      /\ work[w].left \subseteq Purchases
  BY FailIsNoCrash DEF Act, Step, SweepSettle, Paying, history, Done, Goto, Typed, TypeOK, WorkOK, WorkAt
<1>1. CASE owed' = owed
  BY <1>0, <1>1, PurseQuiet
<1>2. ASSUME NEW u \in Purchases, owed[u] = "OWED", owed' = [owed EXCEPT ![u] = "RESTORED"]
      PROVE  PursesOK'
  <2>1. OnlyAt(u) /\ owed'[u] = "RESTORED"
    BY <1>0, <1>2 DEF OnlyAt
  <2>2. \A v \in Workers : pc[v] \in Paying => work[v].on # u
    BY <1>2 DEF PursesOK, PurseAt
  <2>3. PurseAt(w)' /\ PurseOf(u)'
    <3>1. status[u] = "PENDING" /\ u \in debited
      BY <1>2 DEF PursesOK, PurseOf
    <3> QED
      BY <1>0, <2>1, <3>1 DEF PurseAt, PurseOf
  <2> QED
    BY <1>0, <2>1, <2>2, <2>3, PurseFrame
<1>3. \/ owed' = owed
      \/ \E u \in Purchases : owed[u] = "OWED" /\ owed' = [owed EXCEPT ![u] = "RESTORED"]
  BY <1>0 DEF SweepSettle, StillOwed
<1> QED
  BY <1>1, <1>2, <1>3

\* After a crash NoSilentDebit says nothing.
LEMMA PurseCrash ==
  ASSUME Typed, PursesOK, NEW w \in Workers, Crash(w)
  PROVE  PursesOK'
<1>0. Act(w) /\ pc'[w] = "idle" /\ UNCHANGED <<status, owed, alerted, debited>>
  BY DEF Act, Crash, purchase, Done, Goto, Typed, TypeOK
<1>1. spent'["crashes"] # 0
  BY DEF Crash, Typed, TypeOK
<1>2. ASSUME NEW v \in Workers, pc'[v] # "idle" PROVE v # w /\ pc'[v] = pc[v] /\ work'[v] = work[v]
  BY <1>0, <1>2, Others
<1>3. ASSUME NEW v \in Workers PROVE PurseAt(v)'
  BY <1>0, <1>2 DEF PursesOK, PurseAt, Paying
<1>4. ASSUME NEW u \in Purchases PROVE PurseOf(u)'
  BY <1>0, <1>1 DEF PursesOK, PurseOf
<1>5. OnePayer'
  BY <1>2 DEF PursesOK, OnePayer, Paying
<1> QED
  BY <1>3, <1>4, <1>5 DEF PursesOK

\* Every other action is quiet about purchases.
LEMMA PursesStep ==
  ASSUME Typed, PursesOK, NEW w \in Workers, Act(w)
  PROVE  PursesOK'
<1> DEFINE Quiet == /\ UNCHANGED <<status, owed, alerted, debited>>
                    /\ pc[w] \notin Paying /\ pc'[w] \notin Paying
                    /\ spent'["crashes"] = spent["crashes"]
<1>0. pc \in [Workers -> Steps] /\ spent \in [Kinds \cup {"faults", "crashes"} -> Nat]
      /\ "crashes" \notin Kinds
  BY DEF Typed, TypeOK, Steps, Kinds
<1> USE DEF purchase, history, Goto, Done, Take
<1>1. ASSUME NEW k \in Kinds, NEW step, NEW what, Begin(w, k, step, what), step \notin Paying,
             UNCHANGED purchase
      PROVE  Quiet
  BY <1>0, <1>1 DEF Begin, Paying
<1>2. ASSUME NEW t \in Payments, EarnBegin(w, t) \/ ReverseBegin(w, t) PROVE Quiet
  BY <1>1, <1>2 DEF EarnBegin, ReverseBegin, Kinds, Paying
<1>3. ASSUME NEW x \in Withdrawals, NEW verdict \in Verdicts, RequestBegin(w, x) \/ ProcessBegin(w, x, verdict)
      PROVE  Quiet
  BY <1>1, <1>3 DEF RequestBegin, ProcessBegin, Kinds, Paying, Verdicts
<1>4. ASSUME NEW p \in Partners, NEW by \in {-1, 1}, AdjustBegin(w, p, by) PROVE Quiet
  BY <1>1, <1>4 DEF AdjustBegin, Kinds, Paying
<1>5. ASSUME EarnCheck(w) \/ EarnCredit(w) \/ ReverseOne(w) \/ EarnFail(w) \/ ReverseFail(w) PROVE Quiet
  BY <1>0, <1>5, FailIsNoCrash DEF EarnCheck, EarnCredit, ReverseOne, EarnFail, ReverseFail, Paying
<1>6. ASSUME RequestDeduct(w) \/ Approve(w) \/ Reject(w) \/ AdjustWrite(w) \/ SweepBegin(w) PROVE Quiet
  BY <1>0, <1>6 DEF RequestDeduct, Approve, Reject, AdjustWrite, SweepBegin, Paying
<1>7. Quiet => PursesOK'
  BY PurseQuiet
<1>8. ASSUME Start(w) PROVE PursesOK'
  BY <1>8, <1>2, <1>3, <1>4, <1>7, PurseBegin DEF Start, Verdicts
<1> HIDE DEF Quiet
<1> QED
  BY <1>5, <1>6, <1>7, <1>8, PurseDebit, PurseProvision, PurseRestore, PurseRecord, PurseSettle, PurseCrash
  DEF Act, Step
-----------------------------------------------------------------------------
(* What moves the money                                                    *)

Still ==
    /\ UNCHANGED <<balance, withdrawn, ledger, request, debited, corrected, clawed>>
    /\ \A u \in Purchases : owed'[u] = "RESTORED" <=> owed[u] = "RESTORED"

Deducted(w) ==
    /\ pc[w] = "deduct" /\ pc'[w] = "idle"
    /\ balance' = [balance EXCEPT ![Owner[work[w].on]] = @ - Amount[work[w].on]]
    /\ request' = [request EXCEPT ![work[w].on] = "PENDING"]
    /\ UNCHANGED <<withdrawn, ledger, debited, owed, corrected, clawed>>

Approved(w) ==
    /\ pc[w] = "approve" /\ pc'[w] = "idle"
    /\ withdrawn' = [withdrawn EXCEPT ![Owner[work[w].on]] = @ + Amount[work[w].on]]
    /\ request' = [request EXCEPT ![work[w].on] = "COMPLETED"]
    /\ UNCHANGED <<balance, ledger, debited, owed, corrected, clawed>>

Rejected(w) ==
    /\ pc[w] = "reject" /\ pc'[w] = "idle"
    /\ balance' = [balance EXCEPT ![Owner[work[w].on]] = @ + Amount[work[w].on]]
    /\ request' = [request EXCEPT ![work[w].on] = "REJECTED"]
    /\ UNCHANGED <<withdrawn, ledger, debited, owed, corrected, clawed>>

Adjusted(w) ==
    /\ pc[w] = "adjust" /\ pc'[w] = "idle"
    /\ balance' = [balance EXCEPT ![work[w].on] = work[w].read.from + work[w].read.by]
    /\ corrected' = [corrected EXCEPT ![work[w].on] = @ + work[w].read.by]
    /\ UNCHANGED <<withdrawn, ledger, request, debited, owed, clawed>>

Debited(w) ==
    /\ pc[w] = "debit" /\ pc'[w] = "provision"
    /\ balance[Owner[work[w].on]] >= Amount[work[w].on]
    /\ balance' = [balance EXCEPT ![Owner[work[w].on]] = @ - Amount[work[w].on]]
    /\ debited' = debited \cup {work[w].on}
    /\ UNCHANGED <<withdrawn, ledger, request, owed, corrected, clawed>>

GivenBack(w) ==
    /\ pc[w] \in {"restore", "settle"} /\ pc'[w] \in {"idle", "record", "settle"}
    /\ \E u \in Purchases :
          /\ u \in debited /\ owed[u] # "RESTORED"
          /\ owed' = [owed EXCEPT ![u] = "RESTORED"]
          /\ balance' = [balance EXCEPT ![Owner[u]] = @ + Amount[u]]
    /\ UNCHANGED <<withdrawn, ledger, request, debited, corrected, clawed>>

\* These are all the ways in which money moves.
LEMMA Movers ==
  ASSUME Typed, PursesOK, NEW w \in Workers, Act(w)
  PROVE  \/ Still \/ Credited(w) \/ Reversed(w)
         \/ Deducted(w) \/ Approved(w) \/ Rejected(w) \/ Adjusted(w)
         \/ Debited(w) \/ GivenBack(w)
<1> DEFINE Good == \/ Still \/ Credited(w) \/ Reversed(w)
                   \/ Deducted(w) \/ Approved(w) \/ Rejected(w) \/ Adjusted(w)
                   \/ Debited(w) \/ GivenBack(w)
<1>0. pc \in [Workers -> Steps] /\ WorkAt(w) /\ PurseAt(w) /\ owed = [u \in Purchases |-> owed[u]]
  BY DEF Typed, TypeOK, WorkOK, PursesOK, Steps
<1> USE DEF money, purchase, history
<1>1. ASSUME Start(w) PROVE Good
  BY <1>1 DEF Start, EarnBegin, ReverseBegin, RequestBegin, ProcessBegin, AdjustBegin, PayBegin, Still
<1>2. ASSUME EarnCredit(w) PROVE Good
  <2>1. CASE Collides(work[w].read, work[w].on)
    BY <1>2, <2>1 DEF EarnCredit, Still
  <2>2. CASE ~Collides(work[w].read, work[w].on)
    BY <1>0, <1>2, <2>2 DEF EarnCredit, Credited, Collides, Goto
  <2> QED
    BY <2>1, <2>2
<1>3. ASSUME ReverseOne(w) PROVE Good
  <2>1. CASE UNCHANGED <<money, clawed>>
    BY <1>3, <2>1 DEF ReverseOne, Still
  <2>2. CASE \E r \in work[w].left :
               /\ r \in ledger
               /\ ledger' = ledger \ {r}
               /\ balance' = [balance EXCEPT ![r.partner] = @ - Earn[r.partner]]
               /\ clawed' = [clawed EXCEPT ![r.partner] = @ + Earn[r.partner]]
               /\ UNCHANGED <<rows, withdrawn, pc>>
    BY <1>3, <2>2 DEF ReverseOne, Reversed
  <2> QED
    BY <1>3, <2>1, <2>2 DEF ReverseOne, StillThere
<1>4. ASSUME EarnCheck(w) \/ EarnFail(w) \/ ReverseFail(w) \/ Crash(w) \/ SweepBegin(w) PROVE Good
  BY <1>4 DEF EarnCheck, EarnFail, ReverseFail, Crash, SweepBegin, Still
<1>5. ASSUME RequestDeduct(w) \/ Approve(w) PROVE Good
  BY <1>0, <1>5 DEF RequestDeduct, Approve, Deducted, Approved, Done, Goto
<1>6. ASSUME Reject(w) PROVE Good
  <2>1. work[w].on \in Withdrawals /\ Owner[work[w].on] \in Partners
    BY <1>0, <1>6, PartnerAssumption DEF Reject, WorkAt, Verdicts
  <2>2. balance' = [balance EXCEPT ![Owner[work[w].on]] = @ + Amount[work[w].on]]
    BY <1>6, <2>1 DEF Reject, Refunded, Typed, TypeOK
  <2> QED
    BY <1>0, <1>6, <2>2 DEF Reject, Rejected, Done, Goto
<1>7. ASSUME AdjustWrite(w) PROVE Good
  BY <1>0, <1>7 DEF AdjustWrite, Adjusted, Done, Goto
<1>8. ASSUME PayDebit(w) PROVE Good
  <2>1. CASE Affords(work[w].on)
    BY <1>0, <1>8, <2>1 DEF PayDebit, Debited, Affords, Goto
  <2>2. CASE ~Affords(work[w].on)
    BY <1>8, <2>2 DEF PayDebit, Still
  <2> QED
    BY <2>1, <2>2
<1>9. ASSUME PayProvision(w) PROVE Good
  BY <1>9 DEF PayProvision, Still
<1>10. ASSUME PayRestore(w) PROVE Good
  <2>1. work[w].on \in Purchases /\ work[w].on \in debited /\ owed[work[w].on] = "NONE"
    BY <1>0, <1>10 DEF PayRestore, WorkAt, PurseAt, Paying
  <2>2. \/ owed' = owed /\ UNCHANGED money
        \/ /\ owed' = [owed EXCEPT ![work[w].on] = "RESTORED"] /\ GiveBack(work[w].on)
           /\ pc'[w] \in {"idle", "record"}
    BY <1>0, <1>10 DEF PayRestore, RestoreMarker, Done, Goto
  <2>3. CASE owed' = owed /\ UNCHANGED money
    BY <1>10, <2>3 DEF PayRestore, Still
  <2>4. CASE /\ owed' = [owed EXCEPT ![work[w].on] = "RESTORED"] /\ GiveBack(work[w].on)
             /\ pc'[w] \in {"idle", "record"}
    BY <1>10, <2>1, <2>4 DEF PayRestore, GivenBack, GiveBack
  <2> QED
    BY <2>2, <2>3, <2>4
<1>11. ASSUME PayRecord(w) PROVE Good
  BY <1>0, <1>11 DEF PayRecord, Settled, Still
<1>12. ASSUME SweepSettle(w) PROVE Good
  <2>1. work[w].left \subseteq Purchases
    BY <1>0, <1>12 DEF SweepSettle, WorkAt
  <2>2. \/ owed' = owed /\ UNCHANGED money
        \/ \E u \in work[w].left : /\ owed[u] = "OWED" /\ owed' = [owed EXCEPT ![u] = "RESTORED"]
                                    /\ GiveBack(u) /\ pc' = pc
    BY <1>12 DEF SweepSettle, StillOwed
  <2>3. CASE owed' = owed /\ UNCHANGED money
    BY <1>12, <2>3 DEF SweepSettle, Still
  <2>4. ASSUME NEW u \in work[w].left, owed[u] = "OWED", owed' = [owed EXCEPT ![u] = "RESTORED"],
               GiveBack(u), pc' = pc
        PROVE  Good
    <3>1. u \in debited
      BY <2>1, <2>4 DEF PursesOK, PurseOf
    <3> QED
      BY <1>12, <2>1, <2>4, <3>1 DEF SweepSettle, GivenBack, GiveBack
  <2> QED
    BY <2>2, <2>3, <2>4
<1> QED
  BY <1>1, <1>2, <1>3, <1>4, <1>5, <1>6, <1>7, <1>8, <1>9, <1>10, <1>11, <1>12 DEF Act, Step
-----------------------------------------------------------------------------
(* Withdrawals and corrections under way                                   *)

OperatorAt(w) ==
    /\ pc[w] = "deduct" =>
          /\ request[work[w].on] = "ABSENT"
          /\ scenario.workers = 1 => balance[Owner[work[w].on]] >= Amount[work[w].on]
    /\ pc[w] \in Verdicts =>
          /\ request[work[w].on] # "ABSENT"
          /\ Undisturbed => request[work[w].on] = "PENDING"
    /\ pc[w] = "adjust" =>
          /\ work[w].read.from + work[w].read.by >= 0
          /\ scenario.workers = 1 => work[w].read.from = balance[work[w].on]

OneDeduction ==
    \A v, w \in Workers :
        pc[v] = "deduct" /\ pc[w] = "deduct" /\ work[v].on = work[w].on => v = w

OperatorsOK == (\A w \in Workers : OperatorAt(w)) /\ OneDeduction

\* Whoever comes to one of these steps has just made its checks.
LEMMA EntersOperator ==
  ASSUME Typed, NEW w \in Workers, Act(w), pc'[w] \in {"deduct", "adjust"} \cup Verdicts
  PROVE  /\ OperatorAt(w)'
         /\ pc'[w] = "deduct" => \A v \in Workers : work[v].on # work'[w].on
<1> DEFINE Good == /\ OperatorAt(w)'
                   /\ pc'[w] = "deduct" => \A v \in Workers : work[v].on # work'[w].on
<1>0. /\ pc \in [Workers -> Steps] /\ work = [v \in Workers |-> work[v]]
      /\ balance \in [Partners -> Int]
  BY DEF Typed, TypeOK, WorkOK, Steps
<1> USE DEF Goto, Done, Take, Begin, money, purchase, history
<1>1. ASSUME NEW t \in Payments, EarnBegin(w, t) \/ ReverseBegin(w, t) PROVE Good
  BY <1>0, <1>1 DEF EarnBegin, ReverseBegin, OperatorAt, Verdicts
<1>2. ASSUME NEW x \in Withdrawals, RequestBegin(w, x) PROVE Good
  <2>1. pc'[w] = "deduct" /\ work'[w].on = x
    BY <1>0, <1>2 DEF RequestBegin, Nothing
  <2> QED
    BY <1>2, <2>1 DEF RequestBegin, OperatorAt, Verdicts
<1>3. ASSUME NEW x \in Withdrawals, NEW verdict \in Verdicts, ProcessBegin(w, x, verdict) PROVE Good
  <2>1. pc'[w] = verdict /\ work'[w].on = x
    BY <1>0, <1>3 DEF ProcessBegin, Nothing
  <2> QED
    BY <1>3, <2>1 DEF ProcessBegin, OperatorAt, Verdicts
<1>4. ASSUME NEW p \in Partners, NEW by \in {-1, 1}, AdjustBegin(w, p, by) PROVE Good
  <2>1. pc'[w] = "adjust" /\ work'[w].on = p /\ work'[w].read.from = balance[p] /\ work'[w].read.by = by
    BY <1>0, <1>4 DEF AdjustBegin
  <2> QED
    BY <1>4, <2>1 DEF AdjustBegin, OperatorAt, Verdicts
<1>5. ASSUME NEW u \in Purchases, PayBegin(w, u) PROVE Good
  BY <1>0, <1>5 DEF PayBegin, OperatorAt, Verdicts
<1>6. ASSUME EarnCheck(w) \/ EarnCredit(w) \/ ReverseOne(w) \/ EarnFail(w) \/ ReverseFail(w) PROVE Good
  BY <1>0, <1>6 DEF EarnCheck, EarnCredit, ReverseOne, EarnFail, ReverseFail, Verdicts
<1>7. ASSUME RequestDeduct(w) \/ Approve(w) \/ Reject(w) \/ AdjustWrite(w) PROVE Good
  BY <1>0, <1>7 DEF RequestDeduct, Approve, Reject, AdjustWrite, Verdicts
<1>8. ASSUME PayDebit(w) \/ PayProvision(w) \/ PayRestore(w) \/ PayRecord(w) PROVE Good
  BY <1>0, <1>8 DEF PayDebit, PayProvision, PayRestore, PayRecord, Verdicts
<1>9. ASSUME SweepBegin(w) \/ SweepSettle(w) \/ Crash(w) PROVE Good
  BY <1>0, <1>9 DEF SweepBegin, SweepSettle, Crash, Verdicts
<1> QED
  BY <1>1, <1>2, <1>3, <1>4, <1>5, <1>6, <1>7, <1>8, <1>9 DEF Act, Start, Step, Verdicts

\* A step of somebody else leaves the request of a verdict or a deduction alone.
LEMMA RequestLeft ==
  ASSUME Typed, Counted, PursesOK, OperatorsOK, NEW w \in Workers, Act(w),
         NEW v \in Workers, v # w, scenario.workers # 1
  PROVE  /\ pc[v] = "deduct" => request'[work[v].on] = "ABSENT"
         /\ pc[v] \in Verdicts =>
               /\ request'[work[v].on] # "ABSENT"
               /\ Undisturbed => request'[work[v].on] = "PENDING"
<1>0. /\ OperatorAt(v) /\ OperatorAt(w) /\ WorkAt(v) /\ WorkAt(w)
      /\ request = [x \in Withdrawals |-> request[x]]
      /\ scenario.starts \in [Kinds -> Nat] /\ spent \in [Kinds \cup {"faults", "crashes"} -> Nat]
  BY ScenarioAssumption DEF OperatorsOK, Typed, TypeOK, WorkOK
<1>1. CASE request' = request
  BY <1>0, <1>1 DEF OperatorAt
<1>2. CASE Deducted(w)
  <2>1. PICK x \in Withdrawals : x = work[w].on /\ request[x] = "ABSENT"
    BY <1>0, <1>2 DEF Deducted, OperatorAt, WorkAt
  <2>2. pc[v] = "deduct" => work[v].on # x
    BY <1>2, <2>1 DEF Deducted, OperatorsOK, OneDeduction
  <2>3. pc[v] \in Verdicts => work[v].on # x
    BY <1>0, <2>1 DEF OperatorAt
  <2>4. \A y \in Withdrawals : y # x => request'[y] = request[y]
    BY <1>0, <1>2, <2>1 DEF Deducted
  <2>5. pc[v] \in {"deduct"} \cup Verdicts => work[v].on \in Withdrawals
    BY <1>0 DEF WorkAt
  <2> QED
    BY <1>0, <2>2, <2>3, <2>4, <2>5 DEF OperatorAt
<1>3. ASSUME Approved(w) \/ Rejected(w), Undisturbed
      PROVE  pc[v] \notin Verdicts
  <2>1. spent["process"] <= scenario.starts["process"] /\ scenario.starts["process"] <= 1
    BY <1>3 DEF Undisturbed, Counted, Kinds
  <2>2. spent["process"] <= 1
    BY <1>0, <2>1 DEF Kinds
  <2> QED
    BY <1>3, <2>2 DEF Counted, Approved, Rejected, Verdicts
<1>4. CASE Approved(w) \/ Rejected(w)
  <2>1. Undisturbed => pc[v] \notin Verdicts
    BY <1>3, <1>4
  <2>2. PICK x \in Withdrawals : x = work[w].on /\ request[x] # "ABSENT"
    BY <1>0, <1>4 DEF Approved, Rejected, OperatorAt, WorkAt, Verdicts
  <2>3. /\ \A y \in Withdrawals : y # x => request'[y] = request[y]
        /\ request'[x] # "ABSENT"
    BY <1>0, <1>4, <2>2 DEF Approved, Rejected
  <2>4. pc[v] \in {"deduct"} \cup Verdicts => work[v].on \in Withdrawals
    BY <1>0 DEF WorkAt
  <2> QED
    BY <1>0, <2>1, <2>2, <2>3, <2>4 DEF OperatorAt
<1> QED
  BY <1>1, <1>2, <1>4, Movers DEF Still, Credited, Reversed, Adjusted, Debited, GivenBack

\* The checks made before a deduction, a verdict or a correction still hold.
LEMMA OperatorsStep ==
  ASSUME Typed, Alone, Counted, PursesOK, OperatorsOK, NEW w \in Workers, Act(w)
  PROVE  OperatorsOK'
<1>0. scenario' = scenario
  BY Acting
<1>1. ASSUME NEW v \in Workers PROVE OperatorAt(v)'
  <2>1. CASE v = w
    <3>1. CASE pc'[w] \in {"deduct", "adjust"} \cup Verdicts
      BY <2>1, <3>1, EntersOperator
    <3>2. CASE pc'[w] \notin {"deduct", "adjust"} \cup Verdicts
      BY <2>1, <3>2 DEF OperatorAt
    <3> QED
      BY <3>1, <3>2
  <2>2. CASE v # w /\ scenario.workers = 1
    <3>1. pc'[v] = "idle"
      BY <2>2, NobodyElse
    <3> QED
      BY <3>1 DEF OperatorAt, Verdicts
  <2>3. CASE v # w /\ scenario.workers # 1
    <3>1. pc'[v] = pc[v] /\ work'[v] = work[v]
      BY <2>3, Others
    <3>2. OperatorAt(v)
      BY DEF OperatorsOK
    <3>3. Undisturbed' = Undisturbed
      BY <1>0 DEF Undisturbed
    <3>4. /\ pc[v] = "deduct" => request'[work[v].on] = "ABSENT"
          /\ pc[v] \in Verdicts =>
                /\ request'[work[v].on] # "ABSENT"
                /\ Undisturbed => request'[work[v].on] = "PENDING"
      BY <2>3, RequestLeft
    <3> QED
      BY <1>0, <2>3, <3>1, <3>2, <3>3, <3>4 DEF OperatorAt
  <2> QED
    BY <2>1, <2>2, <2>3
<1>2. OneDeduction'
  <2> SUFFICES ASSUME NEW v \in Workers, NEW x \in Workers, pc'[v] = "deduct", pc'[x] = "deduct",
                      work'[v].on = work'[x].on, v # x
               PROVE  FALSE
    BY DEF OneDeduction
  <2>1. CASE v # w /\ x # w
    BY <2>1, Others DEF OperatorsOK, OneDeduction
  <2>2. CASE v = w
    BY <2>2, Others, EntersOperator
  <2>3. CASE x = w
    BY <2>3, Others, EntersOperator
  <2> QED
    BY <2>1, <2>2, <2>3
<1> QED
  BY <1>1, <1>2 DEF OperatorsOK

-----------------------------------------------------------------------------
(* Overdrafts                                                              *)

\* A withdrawal at work excludes the second case, a withdrawal alone covers
\* its amount, and reversals are accounted for.
LEMMA SolventStep ==
  ASSUME Typed, Alone, Counted, PursesOK, OperatorsOK, OnlyClawbackOverdraws,
         NEW w \in Workers, Act(w)
  PROVE  OnlyClawbackOverdraws'
<1> SUFFICES ASSUME scenario.workers = 1 \/ scenario.starts["request"] = 0, NEW p \in Partners
             PROVE  balance'[p] + clawed'[p] >= 0
  BY Acting DEF OnlyClawbackOverdraws
<1>0. /\ balance \in [Partners -> Int] /\ clawed \in [Partners -> Nat]
      /\ balance[p] + clawed[p] >= 0
      /\ WorkAt(w) /\ OperatorAt(w)
      /\ \A r \in ledger : r.partner \in Partners
  BY DEF OnlyClawbackOverdraws, Typed, TypeOK, WorkOK, OperatorsOK
<1>1. /\ \A q \in Partners : Earn[q] \in Nat
      /\ \A x \in Withdrawals \cup Purchases : Amount[x] \in Nat /\ Owner[x] \in Partners
  BY PartnerAssumption
<1>2. CASE Still \/ Approved(w)
  BY <1>0, <1>2 DEF Still, Approved
<1>3. CASE Credited(w)
  BY <1>0, <1>1, <1>3 DEF Credited, WorkAt
<1>4. CASE Reversed(w)
  <2>1. PICK r \in ledger : /\ balance' = [balance EXCEPT ![r.partner] = @ - Earn[r.partner]]
                            /\ clawed' = [clawed EXCEPT ![r.partner] = @ + Earn[r.partner]]
    BY <1>4 DEF Reversed
  <2> QED
    BY <1>0, <1>1, <2>1
<1>5. CASE Deducted(w)
  <2>1. scenario.workers = 1
    <3>1. spent["request"] > 0 /\ spent["request"] <= scenario.starts["request"]
      BY <1>5 DEF Deducted, Counted, Kinds
    <3>2. spent["request"] \in Nat
      BY DEF Typed, TypeOK, Kinds
    <3> QED
      BY <3>1, <3>2
  <2>2. PICK x \in Withdrawals : x = work[w].on /\ balance[Owner[x]] >= Amount[x]
    BY <1>0, <1>5, <2>1 DEF Deducted, OperatorAt, WorkAt
  <2>3. balance' = [balance EXCEPT ![Owner[x]] = @ - Amount[x]] /\ clawed' = clawed
    BY <1>5, <2>2 DEF Deducted
  <2>4. Owner[x] \in Partners /\ Amount[x] \in Nat
    BY <1>1
  <2> QED
    BY <1>0, <2>2, <2>3, <2>4
<1>6. CASE Rejected(w)
  <2>1. PICK x \in Withdrawals : x = work[w].on
    BY <1>0, <1>6 DEF Rejected, WorkAt, Verdicts
  <2>2. balance' = [balance EXCEPT ![Owner[x]] = @ + Amount[x]] /\ clawed' = clawed
    BY <1>6, <2>1 DEF Rejected
  <2>3. Owner[x] \in Partners /\ Amount[x] \in Nat
    BY <1>1
  <2> QED
    BY <1>0, <2>2, <2>3
<1>7. CASE Adjusted(w)
  <2>1. /\ work[w].on \in Partners /\ work[w].read \in [from : Int, by : Int]
        /\ work[w].read.from + work[w].read.by >= 0
    BY <1>0, <1>7 DEF Adjusted, WorkAt, OperatorAt
  <2> QED
    BY <1>0, <1>7, <2>1 DEF Adjusted
<1>8. CASE Debited(w)
  <2>1. PICK u \in Purchases : u = work[w].on
    BY <1>0, <1>8 DEF Debited, WorkAt, Paying
  <2>2. /\ balance[Owner[u]] >= Amount[u]
        /\ balance' = [balance EXCEPT ![Owner[u]] = @ - Amount[u]] /\ clawed' = clawed
    BY <1>8, <2>1 DEF Debited
  <2>3. Owner[u] \in Partners /\ Amount[u] \in Nat
    BY <1>1
  <2> QED
    BY <1>0, <2>2, <2>3
<1>9. CASE GivenBack(w)
  <2>1. PICK u \in Purchases : balance' = [balance EXCEPT ![Owner[u]] = @ + Amount[u]]
    BY <1>9 DEF GivenBack
  <2>2. Owner[u] \in Partners /\ Amount[u] \in Nat /\ clawed' = clawed
    BY <1>1, <1>9 DEF GivenBack
  <2> QED
    BY <1>0, <2>1, <2>2
<1> QED
  BY <1>2, <1>3, <1>4, <1>5, <1>6, <1>7, <1>8, <1>9, Movers
-----------------------------------------------------------------------------
(* The books                                                               *)

Spending == Withdrawals \cup Purchases

\* What the proofs about the books use of sums.
LEMMA TotalFacts ==
  /\ Total({}) = 0
  /\ \A S \in SUBSET Spending :
       /\ Total(S) \in Nat
       /\ \A x \in Spending \ S : Total(S \cup {x}) = Total(S) + Amount[x]
<1>1. Total({}) = 0
  BY SumEmpty DEF Total
<1>2. ASSUME NEW S \in SUBSET Spending
      PROVE  /\ Total(S) \in Nat
             /\ \A x \in Spending \ S : Total(S \cup {x}) = Total(S) + Amount[x]
  <2>1. IsFiniteSet(S) /\ \A x \in S : Amount[x] \in Nat /\ Amount[x] \in Int
    BY FS_Subset, PartnerAssumption DEF Spending
  <2>2. Total(S) \in Nat
    BY <2>1, SumNat DEF Total
  <2>3. ASSUME NEW x \in Spending \ S PROVE Total(S \cup {x}) = Total(S) + Amount[x]
    <3>1. Amount[x] \in Int
      BY PartnerAssumption DEF Spending
    <3> QED
      BY <2>1, <3>1, SumMore DEF Total
  <2> QED
    BY <2>2, <2>3
<1> QED
  BY <1>1, <1>2

\* What a set takes with one element more.
LEMMA TotalMore ==
  ASSUME NEW S \in SUBSET Spending, NEW x \in Spending \ S
  PROVE  Total(S \cup {x}) = Total(S) + Amount[x]
BY TotalFacts

\* And with one element less.
LEMMA TotalLess ==
  ASSUME NEW S \in SUBSET Spending, NEW x \in S
  PROVE  Total(S \ {x}) = Total(S) - Amount[x]
<1>1. S \ {x} \in SUBSET Spending /\ x \in Spending \ (S \ {x}) /\ (S \ {x}) \cup {x} = S
  OBVIOUS
<1>2. Total(S) = Total(S \ {x}) + Amount[x]
  BY <1>1, TotalMore
<1>3. Total(S \ {x}) \in Nat /\ Amount[x] \in Nat
  BY <1>1, TotalFacts, PartnerAssumption DEF Spending
<1> QED
  BY <1>2, <1>3

\* The sums are numbers.
LEMMA TotalTyped ==
  ASSUME Typed, LedgerOK, NEW p \in Partners
  PROVE  /\ Taken(p) \in SUBSET Spending /\ PaidOut(p) \in SUBSET Spending
         /\ NotGivenBack(p) \in SUBSET Spending
         /\ Total(Taken(p)) \in Nat /\ Total(PaidOut(p)) \in Nat /\ Total(NotGivenBack(p)) \in Nat
         /\ IsFiniteSet(Credits(p)) /\ Cardinality(Credits(p)) \in Nat /\ Earn[p] \in Nat
         /\ Earn[p] * Cardinality(Credits(p)) \in Nat
         /\ balance[p] \in Int /\ corrected[p] \in Int /\ withdrawn[p] \in Nat
         /\ \A x \in Spending : Amount[x] \in Nat /\ Owner[x] \in Partners
<1>1. /\ Taken(p) \in SUBSET Spending /\ PaidOut(p) \in SUBSET Spending
      /\ NotGivenBack(p) \in SUBSET Spending
  BY DEF Taken, PaidOut, NotGivenBack, Spending, Typed, TypeOK
<1>2. Total(Taken(p)) \in Nat /\ Total(PaidOut(p)) \in Nat /\ Total(NotGivenBack(p)) \in Nat
  BY <1>1, TotalFacts
<1>3. IsFiniteSet(Credits(p)) /\ Cardinality(Credits(p)) \in Nat
  BY FS_Subset, FS_CardinalityType DEF Credits, LedgerOK, Numbered
<1>4. Earn[p] \in Nat /\ \A x \in Spending : Amount[x] \in Nat /\ Owner[x] \in Partners
  BY PartnerAssumption DEF Spending
<1>5. Earn[p] * Cardinality(Credits(p)) \in Nat
  BY <1>3, <1>4
<1>6. balance[p] \in Int /\ corrected[p] \in Int /\ withdrawn[p] \in Nat
  BY DEF Typed, TypeOK
<1> QED
  BY <1>1, <1>2, <1>3, <1>4, <1>5, <1>6

\* One credit more or less in the product.
LEMMA OneEarning ==
  ASSUME NEW e \in Nat, NEW n \in Nat, NEW m \in Nat
  PROVE  /\ m = n + 1 => e * m = e * n + e
         /\ n = m + 1 => e * m = e * n - e
  OBVIOUS

Balanced(p) ==
    /\ balance[p] = corrected[p] + Earn[p] * Cardinality(Credits(p))
                       - Total(Taken(p)) - Total(NotGivenBack(p))
    /\ withdrawn[p] = Total(PaidOut(p))

\* A credit is one row and one increment.
LEMMA CreditedBooks ==
  ASSUME Typed, LedgerOK, NEW w \in Workers, Credited(w), NEW p \in Partners, Balanced(p)
  PROVE  Balanced(p)'
<1>1. PICK q \in Partners, t \in Payments : q = work[w].read /\ t = work[w].on
  BY DEF Credited, Typed, WorkOK, WorkAt
<1>2. /\ ledger' = ledger \cup {Row(q, t, rows + 1)} /\ Row(q, t, rows + 1) \notin ledger
      /\ balance' = [balance EXCEPT ![q] = @ + Earn[q]]
      /\ UNCHANGED <<withdrawn, corrected, clawed, request, debited, owed>>
  BY <1>1 DEF Credited, Earned, Row
<1>3. /\ Taken(p)' = Taken(p) /\ PaidOut(p)' = PaidOut(p) /\ NotGivenBack(p)' = NotGivenBack(p)
  BY <1>2 DEF Taken, PaidOut, NotGivenBack
<1>4. Row(q, t, rows + 1).partner = q
  BY DEF Row
<1>5. CASE q = p
  <2>1. Credits(p)' = Credits(p) \cup {Row(q, t, rows + 1)}
    BY <1>2, <1>4, <1>5 DEF Credits
  <2>2. Cardinality(Credits(p)') = Cardinality(Credits(p)) + 1
    BY <1>2, <2>1, TotalTyped, FS_AddElement DEF Credits
  <2>3. Earn[p] * Cardinality(Credits(p)') = Earn[p] * Cardinality(Credits(p)) + Earn[p]
    <3>1. Cardinality(Credits(p)') \in Nat
      BY <2>2, TotalTyped
    <3> QED
      BY <2>2, <3>1, TotalTyped, OneEarning
  <2>4. balance'[p] = balance[p] + Earn[p]
    BY <1>2, <1>5 DEF Typed, TypeOK
  <2> QED
    BY <1>2, <1>3, <2>3, <2>4, TotalTyped DEF Balanced
<1>6. CASE q # p
  <2>1. Credits(p)' = Credits(p)
    BY <1>2, <1>4, <1>6 DEF Credits
  <2>2. balance'[p] = balance[p]
    BY <1>2, <1>6 DEF Typed, TypeOK
  <2> QED
    BY <1>2, <1>3, <2>1, <2>2 DEF Balanced
<1> QED
  BY <1>5, <1>6

\* So is a reversal, the other way round.
LEMMA ReversedBooks ==
  ASSUME Typed, LedgerOK, NEW w \in Workers, Reversed(w), NEW p \in Partners, Balanced(p)
  PROVE  Balanced(p)'
<1>1. PICK r \in ledger : /\ ledger' = ledger \ {r}
                          /\ balance' = [balance EXCEPT ![r.partner] = @ - Earn[r.partner]]
  BY DEF Reversed
<1>2. UNCHANGED <<withdrawn, corrected, request, debited, owed>>
  BY DEF Reversed
<1>3. /\ Taken(p)' = Taken(p) /\ PaidOut(p)' = PaidOut(p) /\ NotGivenBack(p)' = NotGivenBack(p)
  BY <1>2 DEF Taken, PaidOut, NotGivenBack
<1>4. CASE r.partner = p
  <2>1. Credits(p)' = Credits(p) \ {r} /\ r \in Credits(p)
    BY <1>1, <1>4 DEF Credits
  <2>2. IsFiniteSet(Credits(p)') /\ Cardinality(Credits(p)) = Cardinality(Credits(p)') + 1
    <3>1. IsFiniteSet(Credits(p)) /\ Cardinality(Credits(p)) \in Nat
      BY TotalTyped
    <3>2. /\ IsFiniteSet(Credits(p) \ {r})
          /\ Cardinality(Credits(p) \ {r}) = Cardinality(Credits(p)) - 1
      BY <2>1, <3>1, FS_RemoveElement
    <3> QED
      BY <2>1, <3>1, <3>2
  <2>3. Earn[p] * Cardinality(Credits(p)') = Earn[p] * Cardinality(Credits(p)) - Earn[p]
    <3>1. Cardinality(Credits(p)') \in Nat
      BY <2>2, FS_CardinalityType
    <3> QED
      BY <2>2, <3>1, TotalTyped, OneEarning
  <2>4. balance'[p] = balance[p] - Earn[p]
    BY <1>1, <1>4 DEF Typed, TypeOK
  <2> QED
    BY <1>2, <1>3, <2>3, <2>4, TotalTyped DEF Balanced
<1>5. CASE r.partner # p
  <2>1. Credits(p)' = Credits(p)
    BY <1>1, <1>5 DEF Credits
  <2>2. balance'[p] = balance[p]
    BY <1>1, <1>5 DEF Typed, TypeOK
  <2> QED
    BY <1>2, <1>3, <2>1, <2>2 DEF Balanced
<1> QED
  BY <1>4, <1>5

\* What is taken out of a balance appears among its requests, and the reverse.
LEMMA Shifted ==
  ASSUME NEW b \in Int, NEW c \in Int, NEW e \in Int, NEW s \in Int, NEW n \in Int, NEW a \in Int,
         b = c + e - s - n
  PROVE  b - a = c + e - (s + a) - n /\ b + a = c + e - (s - a) - n
  OBVIOUS

\* A deduction opens a request, a verdict pays it out or closes it.
LEMMA RequestBooks ==
  ASSUME Typed, LedgerOK, OperatorsOK, Undisturbed, NEW w \in Workers,
         Deducted(w) \/ Approved(w) \/ Rejected(w),
         NEW p \in Partners, Balanced(p)
  PROVE  Balanced(p)'
<1>0. OperatorAt(w) /\ WorkAt(w) /\ request = [y \in Withdrawals |-> request[y]]
      /\ balance \in [Partners -> Int] /\ withdrawn \in [Partners -> Nat]
  BY DEF OperatorsOK, Typed, TypeOK, WorkOK
<1>1. PICK x \in Withdrawals : x = work[w].on
  BY <1>0 DEF Deducted, Approved, Rejected, WorkAt, Verdicts
<1>2. UNCHANGED <<ledger, corrected, debited, owed>>
  BY DEF Deducted, Approved, Rejected
<1>3. Credits(p)' = Credits(p) /\ NotGivenBack(p)' = NotGivenBack(p)
  BY <1>2 DEF Credits, NotGivenBack
<1>4. \A y \in Withdrawals : y # x => request'[y] = request[y]
  BY <1>0, <1>1 DEF Deducted, Approved, Rejected
<1>5. x \in Spending /\ Owner[x] \in Partners /\ Amount[x] \in Nat
  BY TotalTyped DEF Spending
<1>6. CASE Owner[x] # p
  <2>1. Taken(p)' = Taken(p) /\ PaidOut(p)' = PaidOut(p)
    BY <1>4, <1>6 DEF Taken, PaidOut
  <2>2. balance'[p] = balance[p] /\ withdrawn'[p] = withdrawn[p]
    BY <1>0, <1>1, <1>6 DEF Deducted, Approved, Rejected
  <2> QED
    BY <1>2, <1>3, <2>1, <2>2 DEF Balanced
<1>7. CASE Owner[x] = p /\ Deducted(w)
  <2>1. request[x] = "ABSENT" /\ request'[x] = "PENDING"
    BY <1>0, <1>1, <1>7 DEF OperatorAt, Deducted
  <2>2. Taken(p)' = Taken(p) \cup {x} /\ x \notin Taken(p) /\ PaidOut(p)' = PaidOut(p)
    BY <1>4, <1>7, <2>1 DEF Taken, PaidOut
  <2>3. Total(Taken(p)') = Total(Taken(p)) + Amount[x]
    BY <1>5, <2>2, TotalTyped, TotalMore
  <2>4. balance'[p] = balance[p] - Amount[x] /\ withdrawn'[p] = withdrawn[p]
    BY <1>0, <1>1, <1>7 DEF Deducted
  <2>5. balance[p] - Amount[x] = corrected[p] + Earn[p] * Cardinality(Credits(p))
                                       - (Total(Taken(p)) + Amount[x]) - Total(NotGivenBack(p))
    <3> DEFINE e == Earn[p] * Cardinality(Credits(p))
               s == Total(Taken(p))
               n == Total(NotGivenBack(p))
    <3>1. balance[p] = corrected[p] + e - s - n
      BY DEF Balanced
    <3>2. e \in Int /\ s \in Int /\ n \in Int /\ balance[p] \in Int /\ corrected[p] \in Int
      BY TotalTyped
    <3> HIDE DEF e, s, n
    <3>3. /\ balance[p] - Amount[x] = corrected[p] + e - (s + Amount[x]) - n
          /\ balance[p] + Amount[x] = corrected[p] + e - (s - Amount[x]) - n
      BY <1>5, <3>1, <3>2, Shifted
    <3> QED
      BY <3>3 DEF e, s, n
  <2> QED
    BY <1>2, <1>3, <2>2, <2>3, <2>4, <2>5 DEF Balanced
<1>8. CASE Owner[x] = p /\ Approved(w)
  <2>1. request[x] = "PENDING" /\ request'[x] = "COMPLETED"
    BY <1>0, <1>1, <1>8 DEF OperatorAt, Approved, Verdicts
  <2>2. PaidOut(p)' = PaidOut(p) \cup {x} /\ x \notin PaidOut(p) /\ Taken(p)' = Taken(p)
    BY <1>4, <1>8, <2>1 DEF Taken, PaidOut
  <2>3. Total(PaidOut(p)') = Total(PaidOut(p)) + Amount[x]
    BY <1>5, <2>2, TotalTyped, TotalMore
  <2>4. withdrawn'[p] = withdrawn[p] + Amount[x] /\ balance'[p] = balance[p]
    BY <1>0, <1>1, <1>8 DEF Approved
  <2> QED
    BY <1>2, <1>3, <1>5, <2>2, <2>3, <2>4, TotalTyped DEF Balanced
<1>9. CASE Owner[x] = p /\ Rejected(w)
  <2>1. request[x] = "PENDING" /\ request'[x] = "REJECTED"
    BY <1>0, <1>1, <1>9 DEF OperatorAt, Rejected, Verdicts
  <2>2. Taken(p)' = Taken(p) \ {x} /\ x \in Taken(p) /\ PaidOut(p)' = PaidOut(p)
    BY <1>4, <1>9, <2>1 DEF Taken, PaidOut
  <2>3. Total(Taken(p)') = Total(Taken(p)) - Amount[x]
    BY <2>2, TotalTyped, TotalLess
  <2>4. balance'[p] = balance[p] + Amount[x] /\ withdrawn'[p] = withdrawn[p]
    BY <1>0, <1>1, <1>9 DEF Rejected
  <2>5. balance[p] + Amount[x] = corrected[p] + Earn[p] * Cardinality(Credits(p))
                                       - (Total(Taken(p)) - Amount[x]) - Total(NotGivenBack(p))
    <3> DEFINE e == Earn[p] * Cardinality(Credits(p))
               s == Total(Taken(p))
               n == Total(NotGivenBack(p))
    <3>1. balance[p] = corrected[p] + e - s - n
      BY DEF Balanced
    <3>2. e \in Int /\ s \in Int /\ n \in Int /\ balance[p] \in Int /\ corrected[p] \in Int
      BY TotalTyped
    <3> HIDE DEF e, s, n
    <3>3. /\ balance[p] - Amount[x] = corrected[p] + e - (s + Amount[x]) - n
          /\ balance[p] + Amount[x] = corrected[p] + e - (s - Amount[x]) - n
      BY <1>5, <3>1, <3>2, Shifted
    <3> QED
      BY <3>3 DEF e, s, n
  <2> QED
    BY <1>2, <1>3, <2>2, <2>3, <2>4, <2>5 DEF Balanced
<1> QED
  BY <1>6, <1>7, <1>8, <1>9

\* A correction of an undisturbed balance starts from what the balance is.
LEMMA AdjustedBooks ==
  ASSUME Typed, Counted, OperatorsOK, Undisturbed, NEW w \in Workers, Adjusted(w),
         NEW p \in Partners, Balanced(p), LedgerOK
  PROVE  Balanced(p)'
<1>0. OperatorAt(w) /\ WorkAt(w)
      /\ balance \in [Partners -> Int] /\ corrected \in [Partners -> Int]
  BY DEF OperatorsOK, Typed, TypeOK, WorkOK
<1>1. scenario.workers = 1
  <2>1. spent["adjust"] > 0 /\ spent["adjust"] <= scenario.starts["adjust"]
    BY DEF Adjusted, Counted, Kinds
  <2>2. spent["adjust"] \in Nat
    BY DEF Typed, TypeOK, Kinds
  <2> QED
    BY <2>1, <2>2 DEF Undisturbed
<1>2. PICK q \in Partners, from \in Int, by \in Int :
         q = work[w].on /\ from = work[w].read.from /\ by = work[w].read.by
  BY <1>0 DEF Adjusted, WorkAt
<1>3. from = balance[q]
  BY <1>0, <1>1, <1>2 DEF OperatorAt, Adjusted
<1>4. /\ balance' = [balance EXCEPT ![q] = from + by]
      /\ corrected' = [corrected EXCEPT ![q] = @ + by]
      /\ UNCHANGED <<withdrawn, ledger, request, debited, owed>>
  BY <1>2 DEF Adjusted
<1>5. /\ Taken(p)' = Taken(p) /\ PaidOut(p)' = PaidOut(p)
      /\ NotGivenBack(p)' = NotGivenBack(p) /\ Credits(p)' = Credits(p)
  BY <1>4 DEF Taken, PaidOut, NotGivenBack, Credits
<1>6. balance'[p] - corrected'[p] = balance[p] - corrected[p]
  BY <1>0, <1>3, <1>4
<1>7. balance'[p] \in Int /\ corrected'[p] \in Int
  BY <1>0, <1>4
<1> QED
  BY <1>4, <1>5, <1>6, <1>7, TotalTyped DEF Balanced

\* A debit opens a purchase, a restore closes it.
LEMMA PurchaseBooks ==
  ASSUME Typed, LedgerOK, PursesOK, NEW w \in Workers, Debited(w) \/ GivenBack(w),
         NEW p \in Partners, Balanced(p)
  PROVE  Balanced(p)'
<1>0. WorkAt(w) /\ PurseAt(w) /\ balance \in [Partners -> Int]
      /\ owed = [y \in Purchases |-> owed[y]] /\ debited \subseteq Purchases
  BY DEF Typed, TypeOK, WorkOK, PursesOK
<1>1. UNCHANGED <<withdrawn, ledger, corrected, request>>
  BY DEF Debited, GivenBack
<1>2. Taken(p)' = Taken(p) /\ PaidOut(p)' = PaidOut(p) /\ Credits(p)' = Credits(p)
  BY <1>1 DEF Taken, PaidOut, Credits
<1>3. CASE Debited(w)
  <2>1. PICK u \in Purchases : u = work[w].on /\ u \notin debited /\ owed[u] = "NONE"
    BY <1>0, <1>3 DEF Debited, WorkAt, PurseAt, Paying
  <2>2. /\ balance' = [balance EXCEPT ![Owner[u]] = @ - Amount[u]]
        /\ debited' = debited \cup {u} /\ owed' = owed
    BY <1>3, <2>1 DEF Debited
  <2>3. u \in Spending /\ Owner[u] \in Partners /\ Amount[u] \in Nat
    BY TotalTyped DEF Spending
  <2>4. CASE Owner[u] = p
    <3>1. NotGivenBack(p)' = NotGivenBack(p) \cup {u} /\ u \notin NotGivenBack(p)
      BY <2>1, <2>2, <2>4 DEF NotGivenBack
    <3>2. Total(NotGivenBack(p)') = Total(NotGivenBack(p)) + Amount[u]
      BY <2>3, <3>1, TotalTyped, TotalMore
    <3>3. balance'[p] = balance[p] - Amount[u]
      BY <1>0, <2>2, <2>4
    <3> QED
      BY <1>1, <1>2, <2>3, <3>2, <3>3, TotalTyped DEF Balanced
  <2>5. CASE Owner[u] # p
    <3>1. NotGivenBack(p)' = NotGivenBack(p) /\ balance'[p] = balance[p]
      BY <1>0, <2>2, <2>5 DEF NotGivenBack
    <3> QED
      BY <1>1, <1>2, <3>1 DEF Balanced
  <2> QED
    BY <2>4, <2>5
<1>4. CASE GivenBack(w)
  <2>1. PICK u \in Purchases :
           /\ u \in debited /\ owed[u] # "RESTORED"
           /\ owed' = [owed EXCEPT ![u] = "RESTORED"]
           /\ balance' = [balance EXCEPT ![Owner[u]] = @ + Amount[u]]
    BY <1>4 DEF GivenBack
  <2>2. debited' = debited /\ owed'[u] = "RESTORED"
        /\ \A y \in Purchases : y # u => owed'[y] = owed[y]
    BY <1>0, <1>4, <2>1 DEF GivenBack
  <2>3. u \in Spending /\ Owner[u] \in Partners /\ Amount[u] \in Nat
    BY TotalTyped DEF Spending
  <2>4. CASE Owner[u] = p
    <3>1. NotGivenBack(p)' = NotGivenBack(p) \ {u} /\ u \in NotGivenBack(p)
      BY <1>0, <2>1, <2>2, <2>4 DEF NotGivenBack
    <3>2. Total(NotGivenBack(p)') = Total(NotGivenBack(p)) - Amount[u]
      BY <3>1, TotalTyped, TotalLess
    <3>3. balance'[p] = balance[p] + Amount[u]
      BY <1>0, <2>1, <2>4
    <3> QED
      BY <1>1, <1>2, <2>3, <3>2, <3>3, TotalTyped DEF Balanced
  <2>5. CASE Owner[u] # p
    <3>1. NotGivenBack(p)' = NotGivenBack(p)
      BY <1>0, <2>1, <2>2, <2>5 DEF NotGivenBack
    <3>2. balance'[p] = balance[p]
      BY <1>0, <2>1, <2>5
    <3> QED
      BY <1>1, <1>2, <3>1, <3>2 DEF Balanced
  <2> QED
    BY <2>4, <2>5
<1> QED
  BY <1>3, <1>4

\* Every step keeps the books.
LEMMA BooksStep ==
  ASSUME Typed, Counted, LedgerOK, PursesOK, OperatorsOK, Conservation, NEW w \in Workers, Act(w)
  PROVE  Conservation'
<1> SUFFICES ASSUME Undisturbed, NEW p \in Partners
             PROVE  Balanced(p)'
  BY Acting DEF Conservation, Undisturbed, Balanced
<1>1. Balanced(p)
  BY DEF Conservation, Balanced
<1>2. CASE Still
  <2>1. /\ Taken(p)' = Taken(p) /\ PaidOut(p)' = PaidOut(p) /\ Credits(p)' = Credits(p)
        /\ NotGivenBack(p)' = NotGivenBack(p)
    BY <1>2 DEF Still, Taken, PaidOut, Credits, NotGivenBack, Typed, TypeOK
  <2> QED
    BY <1>1, <1>2, <2>1 DEF Still, Balanced
<1> QED
  BY <1>1, <1>2, Movers, CreditedBooks, ReversedBooks, RequestBooks, AdjustedBooks, PurchaseBooks
-----------------------------------------------------------------------------
(* The theorems                                                            *)

PartnerInv ==
    /\ Typed /\ Alone /\ Counted
    /\ LedgerOK /\ PursesOK /\ OperatorsOK
    /\ OnlyClawbackOverdraws /\ Conservation

\* The initial states.
LEMMA InitInv == Init => PartnerInv
<1> SUFFICES ASSUME Init PROVE PartnerInv
  OBVIOUS
<1>1. Typed
  BY InitTyped
<1>2. scenario.opening \in Nat /\ scenario.starts \in [Kinds -> Nat]
  BY ScenarioAssumption DEF Init
<1>3. \A v \in Workers : pc[v] = "idle"
  BY DEF Init
<1>4. Alone /\ OperatorsOK
  BY <1>3 DEF Alone, OperatorsOK, OperatorAt, OneDeduction, Verdicts
<1>5. Counted
  <2>1. \A k \in Kinds : spent[k] = 0
    BY DEF Init
  <2>2. \A k \in Kinds : spent[k] <= scenario.starts[k]
    BY <1>2, <2>1
  <2> QED
    BY <1>3, <2>2 DEF Counted, Verdicts
<1>6. LedgerOK
  <2>1. ledger = {} /\ IsFiniteSet(ledger)
    BY FS_EmptySet DEF Init
  <2> QED
    BY <1>3, <2>1 DEF LedgerOK, Numbered, CreditedOnce, FirstOnly
<1>7. PursesOK
  <2>1. \A u \in Purchases : owed[u] = "NONE" /\ u \notin debited
    BY DEF Init
  <2> QED
    BY <1>3, <2>1 DEF PursesOK, PurseAt, PurseOf, OnePayer, Paying
<1>8. OnlyClawbackOverdraws
  <2>1. \A p \in Partners : balance[p] = scenario.opening /\ clawed[p] = 0
    BY DEF Init
  <2> QED
    BY <1>2, <2>1 DEF OnlyClawbackOverdraws
<1>9. Conservation
  <2> SUFFICES ASSUME NEW p \in Partners
               PROVE  Balanced(p)
    BY DEF Conservation, Balanced
  <2>1. Taken(p) = {} /\ PaidOut(p) = {} /\ NotGivenBack(p) = {} /\ Credits(p) = {}
    BY DEF Init, Taken, PaidOut, NotGivenBack, Credits
  <2>2. Total({}) = 0 /\ Cardinality({}) = 0
    BY TotalFacts, FS_EmptySet
  <2>3. Earn[p] * 0 = 0
    BY PartnerAssumption
  <2>4. balance[p] = scenario.opening /\ corrected[p] = scenario.opening /\ withdrawn[p] = 0
    BY DEF Init
  <2> QED
    BY <1>2, <2>1, <2>2, <2>3, <2>4 DEF Balanced
<1> QED
  BY <1>1, <1>4, <1>5, <1>6, <1>7, <1>8, <1>9 DEF PartnerInv

\* Every step.
LEMMA NextInv == PartnerInv /\ [Next]_vars => PartnerInv'
<1> SUFFICES ASSUME PartnerInv, [Next]_vars PROVE PartnerInv'
  OBVIOUS
<1>1. ASSUME NEW w \in Workers, Act(w) PROVE PartnerInv'
  BY <1>1, TypedStep, AloneStep, CountedStep, LedgerStep, PursesStep, OperatorsStep, SolventStep, BooksStep
  DEF PartnerInv
<1>2. CASE UNCHANGED vars
  <2> USE <1>2 DEF vars
  <2>1. Typed'
    BY DEF PartnerInv, Typed, TypeOK, WorkOK, WorkAt
  <2>2. Alone' /\ Counted'
    BY DEF PartnerInv, Alone, Counted
  <2>3. LedgerOK'
    BY DEF PartnerInv, LedgerOK, Numbered, CreditedOnce, FirstOnly, EarnedOnce
  <2>4. PursesOK'
    BY DEF PartnerInv, PursesOK, PurseAt, PurseOf, OnePayer, Carrier
  <2>5. OperatorsOK'
    BY DEF PartnerInv, OperatorsOK, OperatorAt, OneDeduction, Undisturbed
  <2>6. OnlyClawbackOverdraws' /\ Conservation'
    BY DEF PartnerInv, OnlyClawbackOverdraws, Conservation, Undisturbed, Taken, PaidOut, NotGivenBack, Credits
  <2> QED
    BY <2>1, <2>2, <2>3, <2>4, <2>5, <2>6 DEF PartnerInv
<1>3. Next => \E w \in Workers : Act(w)
  BY DEF Next, Act
<1> QED
  BY <1>1, <1>2, <1>3

\* All parts of the invariant hold in every reachable state.
THEOREM InvHolds == Spec => []PartnerInv
  BY InitInv, NextInv, PTL DEF Spec

\* For any number of handlers at once: one accrual per payment and partner, one
\* for a partner paid once when payments come one at a time, no purchase that
\* overspends, and no restore of what was delivered.
THEOREM AccountsAreConsistent == Spec => []AccountsConsistent
<1>1. PartnerInv => AccountsConsistent
  <2> SUFFICES ASSUME PartnerInv PROVE AccountsConsistent
    OBVIOUS
  <2>1. TypeOK /\ CreditedOnce /\ OnlyClawbackOverdraws
    BY DEF PartnerInv, Typed, LedgerOK
  <2>2. OncePerUserKept
    <3> SUFFICES ASSUME scenario.workers = 1, NEW p \in OncePerUser PROVE Cardinality(Credits(p)) <= 1
      BY DEF OncePerUserKept
    <3>1. \A r, s \in Credits(p) : r = s
      BY DEF PartnerInv, LedgerOK, FirstOnly, Credits
    <3>2. CASE Credits(p) = {}
      BY <3>2, FS_EmptySet
    <3>3. CASE Credits(p) # {}
      <4>1. PICK r \in Credits(p) : TRUE
        BY <3>3
      <4>2. Credits(p) = {r}
        BY <3>1, <4>1
      <4> QED
        BY <4>2, FS_Singleton
    <3> QED
      BY <3>2, <3>3
  <2>3. NoFreePurchase
    BY DEF PartnerInv, PursesOK, PurseOf, NoFreePurchase
  <2> QED
    BY <2>1, <2>2, <2>3 DEF AccountsConsistent
<1> QED
  BY <1>1, InvHolds, PTL

\* Every balance is what its records add up to, as long as operators do not
\* overwrite each other.
THEOREM BooksBalance == Spec => []Conservation
<1>1. PartnerInv => Conservation
  BY DEF PartnerInv
<1> QED
  BY <1>1, InvHolds, PTL

\* Without crashes nobody is debited for nothing without a trace.
THEOREM NoDebitUnnoticed == Spec => []NoSilentDebit
<1>1. PartnerInv => NoSilentDebit
  <2> SUFFICES ASSUME PartnerInv, spent["crashes"] = 0, NEW u \in debited
               PROVE  \/ status[u] = "COMPLETED" \/ owed[u] # "NONE" \/ u \in alerted
                      \/ \E w \in Workers : work[w].on = u
    BY DEF NoSilentDebit
  <2>1. u \in Purchases
    BY DEF PartnerInv, Typed, TypeOK
  <2>2. PurseOf(u)
    BY <2>1 DEF PartnerInv, PursesOK
  <2> QED
    BY <2>2 DEF PurseOf, Carrier
<1> QED
  BY <1>1, InvHolds, PTL
=============================================================================
