-------------------------- MODULE RefundAndSync_proof --------------------------
(***************************************************************************)
(* Proofs about RefundLedger and about ProfileSync.                        *)
(*                                                                         *)
(* RefundLedger, for any number of refunds, panel requests and workers,    *)
(* when every notification names its refund.  Accounted says that the      *)
(* ledger is a part of what the provider has paid out and the total is its *)
(* sum.  A reversal starts only on a complete ledger (Reversing), and      *)
(* because the provider never gives back more than the payment, a complete *)
(* ledger cannot grow: the copy a reversal writes back at its end is still *)
(* the ledger of the row.                                                  *)
(*                                                                         *)
(* ProfileSync, for any number of jobs, profiles, tries and workers and    *)
(* any scenario.  The inductive invariant has three tiers.                 *)
(*   Shaped: the types, and who holds which job.                           *)
(*   Deletions: a removal comes of a decision or of a row found switched   *)
(*     off, and is never superseded; once a worker has removed a profile   *)
(*     it is gone.                                                         *)
(*   Kept: as long as nobody but the workers wrote the profile and no live *)
(*     row was condemned, the panel and the workers are never ahead of the *)
(*     row; the row points at the profile that is there, or a job that is  *)
(*     not done will link it; the panel has the row's term, or a job that  *)
(*     is not done will write it; and a deleted row's profile has a        *)
(*     removal under way.                                                  *)
(* Once every job is done nothing is owed, which is Converged.             *)
(***************************************************************************)
EXTENDS RefundLedger, ProfileSync, FiniteSums, WellFoundedInduction, TLAPS

-----------------------------------------------------------------------------
(* The refund ledger                                                       *)


\* What the ledger's proofs use of sums.
LEMMA SumFacts ==
    /\ Sum({}) = 0
    /\ \A S \in SUBSET Refunds :
         /\ Sum(S) \in Nat
         /\ \A r \in Refunds \ S : Sum(S \cup {r}) = Sum(S) + Amount[r]
         /\ \A T \in SUBSET S : Sum(T) <= Sum(S)
<1>1. Sum({}) = 0
  BY SumEmpty DEF Sum
<1>2. ASSUME NEW S \in SUBSET Refunds
      PROVE  /\ Sum(S) \in Nat
             /\ \A r \in Refunds \ S : Sum(S \cup {r}) = Sum(S) + Amount[r]
             /\ \A T \in SUBSET S : Sum(T) <= Sum(S)
  <2>1. IsFiniteSet(S) /\ \A r \in S : Amount[r] \in Nat /\ Amount[r] \in Int
    BY FS_Subset, RefundsAssumption, AmountAssumption
  <2>2. Sum(S) \in Nat
    BY <2>1, SumNat DEF Sum
  <2>3. ASSUME NEW r \in Refunds \ S PROVE Sum(S \cup {r}) = Sum(S) + Amount[r]
    <3>1. Amount[r] \in Int
      BY AmountAssumption
    <3> QED BY <2>1, <3>1, SumMore DEF Sum
  <2>4. ASSUME NEW T \in SUBSET S PROVE Sum(T) <= Sum(S)
    BY <2>1, SumPart DEF Sum
  <2> QED BY <2>2, <2>3, <2>4
<1> QED BY <1>1, <1>2

\* Adding refunds never lowers the sum, and refunds with the same sum as a set
\* they are part of are that set.
LEMMA SumOfPart ==
    ASSUME NEW S \in SUBSET Refunds, NEW T \in SUBSET S
    PROVE  /\ Sum(T) \in Nat /\ Sum(S) \in Nat
           /\ Sum(T) <= Sum(S)
           /\ Sum(S) <= Sum(T) => T = S
<1>1. Sum(T) \in Nat /\ Sum(S) \in Nat /\ Sum(T) <= Sum(S)
  <2>1. T \in SUBSET Refunds
    OBVIOUS
  <2> QED BY <2>1, SumFacts
<1>2. ASSUME Sum(S) <= Sum(T), T # S
      PROVE  FALSE
  <2>1. PICK r \in S : r \notin T
    BY <1>2
  <2>2. Sum(T \cup {r}) = Sum(T) + Amount[r]
    <3>1. T \in SUBSET Refunds /\ r \in Refunds \ T
      BY <2>1
    <3> QED BY <3>1, SumFacts
  <2>3. Sum(T \cup {r}) <= Sum(S) /\ Sum(T \cup {r}) \in Nat
    <3>1. T \cup {r} \in SUBSET S /\ T \cup {r} \in SUBSET Refunds
      BY <2>1
    <3> QED BY <3>1, SumFacts
  <2>4. Amount[r] \in Nat /\ Amount[r] > 0
    BY <2>1, AmountAssumption
  <2> QED BY <1>1, <1>2, <2>2, <2>3, <2>4
<1> QED BY <1>1, <1>2

\* The sum with one more refund.
LEMMA SumOfOneMore ==
    ASSUME NEW S \in SUBSET Refunds, NEW r \in Refunds \ S
    PROVE  Sum(S \cup {r}) = Sum(S) + Amount[r]
BY SumFacts

IInv == TypeOK /\ Accounted /\ Reversing /\ Recorded

\* Every step keeps the variables in their types.
LEMMA TypeStep == TypeOK /\ [Next]_vars => TypeOK'
<1> SUFFICES ASSUME TypeOK, [Next]_vars PROVE TypeOK'
  OBVIOUS
<1> USE DEF TypeOK, Goto, providerVars, inboxVars, localVars, Procs
<1>1. ASSUME NEW r \in Refunds, Dashboard(r) \/ Settle(r) \/ Notify(r)
      PROVE  TypeOK'
  BY <1>1 DEF Dashboard, Settle, Notify
<1>2. ASSUME NEW p \in Panels, PanelStart(p)
      PROVE  TypeOK'
  BY <1>2, AmountAssumption DEF PanelStart, Steps
<1>3. ASSUME NEW p \in Panels, PostIssues(p) \/ PostReplays(p) \/ PostRefused(p)
      PROVE  TypeOK'
  <2>1. CASE PostIssues(p)
    <3>1. PICK r \in Refunds :
            /\ issued' = issued \cup {r}
            /\ keyed' = keyed \cup {r}
            /\ settled' \in {settled, settled \cup {r}}
            /\ Answered(p, r)
      BY <2>1 DEF PostIssues
    <3> QED BY <3>1 DEF Answered, Steps
  <2>2. CASE PostReplays(p)
    <3>1. PICK r \in Replayed(want[p]) : UNCHANGED providerVars /\ Answered(p, r)
      BY <2>2 DEF PostReplays
    <3>2. r \in Refunds
      BY DEF Replayed
    <3> QED BY <3>1, <3>2 DEF Answered, Steps
  <2>3. CASE PostRefused(p)
    BY <2>3 DEF PostRefused, Steps
  <2> QED BY <1>3, <2>1, <2>2, <2>3
<1>4. ASSUME NEW p \in Panels, PanelRecord(p)
      PROVE  TypeOK'
  <2> DEFINE isNew  == NewToLedger(p)
             ledger == IF isNew THEN data.ledger \cup {ref[p]} ELSE data.ledger
             total  == Larger(IF isNew THEN data.total + want[p] ELSE data.total,
                              Sum(ledger))
  <2>1. ledger \in SUBSET Refunds /\ Sum(ledger) \in Nat
    BY SumFacts DEF Data
  <2>2. total \in Nat
    BY <2>1 DEF Larger, Data
  <2>3. data' \in Data
    <3>1. data' = [data EXCEPT !.ledger = ledger, !.total = total]
      BY <1>4 DEF PanelRecord
    <3> HIDE DEF ledger, total
    <3> QED BY <3>1, <2>1, <2>2 DEF Data
  <2> QED BY <1>4, <2>3 DEF PanelRecord, Steps
<1>5. ASSUME NEW p \in Panels, PanelFresh(p)
      PROVE  TypeOK'
  BY <1>5 DEF PanelFresh, Steps
<1>6. ASSUME NEW p \in Procs, Revoke(p) \/ Stamp(p)
      PROVE  TypeOK'
  BY <1>6 DEF Revoke, Stamp, RevokedStatus, Data, Statuses, Steps
<1>7. ASSUME NEW p \in Workers, NEW r \in Refunds, Load(p, r)
      PROVE  TypeOK'
  BY <1>7 DEF Load, Steps
<1>8. ASSUME NEW p \in Workers, WorkerLock(p)
      PROVE  TypeOK'
  <2>1. CASE data.reversed
    BY <1>8, <2>1 DEF WorkerLock, Steps
  <2>2. CASE ~data.reversed
    <3>1. PICK named \in BOOLEAN :
            /\ data' = [data EXCEPT !.ledger = LockedLedger(ref[p], named),
                                    !.total = LockedTotal(ref[p], named)]
            /\ \/ Goto(p, "revoke") /\ snap' = [snap EXCEPT ![p] = data']
               \/ Goto(p, "ack") /\ UNCHANGED snap
      BY <1>8, <2>2 DEF WorkerLock, Carried
    <3>2. LockedLedger(ref[p], named) \in SUBSET Refunds
      BY DEF LockedLedger, Data
    <3>3. LockedTotal(ref[p], named) \in Nat
      BY AmountAssumption DEF LockedTotal, Larger, Data
    <3>4. data' \in Data
      BY <3>1, <3>2, <3>3 DEF Data
    <3> QED BY <1>8, <3>1, <3>4 DEF WorkerLock, Steps
  <2> QED BY <2>1, <2>2
<1>9. ASSUME NEW p \in Workers, Ack(p)
      PROVE  TypeOK'
  BY <1>9 DEF Ack, Steps
<1>10. ASSUME NEW p \in Procs, Crash(p)
       PROVE  TypeOK'
  BY <1>10, CrashAssumption DEF Crash, Steps
<1>11. CASE UNCHANGED vars
  BY <1>11 DEF vars
<1> QED BY <1>1, <1>2, <1>3, <1>4, <1>5, <1>6, <1>7, <1>8, <1>9, <1>10, <1>11
        DEF Next, PanelStep, WorkerStep

\* What the notification of a named refund does under the lock.
LEMMA LockNamed ==
    ASSUME TypeOK, Accounted, ~NamelessEvents, ~data.reversed,
           NEW p \in Workers, WorkerLock(p)
    PROVE  /\ ref[p] \in settled
           /\ data'.ledger = data.ledger \cup {ref[p]}
           /\ data'.total = Sum(data'.ledger)
           /\ data'.reversed = data.reversed
           /\ data.total <= data'.total
           /\ \/ /\ data'.total >= Paid
                 /\ pc' = [pc EXCEPT ![p] = "revoke"]
                 /\ snap' = [snap EXCEPT ![p] = data']
              \/ /\ data'.total < Paid
                 /\ pc' = [pc EXCEPT ![p] = "ack"]
                 /\ UNCHANGED snap
<1> DEFINE r == ref[p]
           total == LockedTotal(r, TRUE)
           ledger == LockedLedger(r, TRUE)
<1>1. r \in Refunds /\ r \in settled /\ data.ledger \in SUBSET Refunds /\ data.total \in Nat
  BY DEF TypeOK, Accounted, Data, WorkerLock, Procs
<1>2. /\ data' = [data EXCEPT !.ledger = ledger, !.total = total]
      /\ \/ total >= Paid /\ Goto(p, "revoke") /\ snap' = [snap EXCEPT ![p] = data']
         \/ ~(total >= Paid) /\ Goto(p, "ack") /\ UNCHANGED snap
  BY DEF WorkerLock, Full, Carried
<1>3. ledger = data.ledger \cup {r}
  BY DEF LockedLedger
<1>4. total = Sum(ledger) /\ data.total <= total /\ total \in Nat
  <2>1. CASE r \in data.ledger
    <3>1. ledger = data.ledger /\ total = data.total
      BY <2>1, <1>3 DEF LockedTotal
    <3> HIDE DEF ledger, total
    <3> QED BY <3>1, <1>1 DEF Accounted
  <2>2. CASE r \notin data.ledger
    <3>1. total = data.total + Amount[r]
      BY <2>2 DEF LockedTotal
    <3>2. Sum(ledger) = Sum(data.ledger) + Amount[r]
      BY <1>1, <1>3, <2>2, SumOfOneMore
    <3>3. Amount[r] \in Nat
      BY <1>1, AmountAssumption
    <3> HIDE DEF ledger, total
    <3> QED BY <3>1, <3>2, <3>3, <1>1 DEF Accounted
  <2> QED BY <2>1, <2>2
<1>5. data'.ledger = ledger /\ data'.total = total /\ data'.reversed = data.reversed
  BY <1>2 DEF TypeOK, Data
<1> QED
  <2> HIDE DEF total, ledger
  <2> QED BY <1>1, <1>2, <1>3, <1>4, <1>5, PaidAssumption DEF Goto

\* What the panel does under the lock.
LEMMA RecordEffect ==
    ASSUME TypeOK, Accounted, NEW p \in Panels, PanelRecord(p)
    PROVE  /\ data.ledger \subseteq data'.ledger
           /\ data'.ledger \subseteq settled
           /\ data'.total = Sum(data'.ledger)
           /\ data'.reversed = data.reversed
           /\ data.total <= data'.total
           /\ \/ data'.total >= Paid /\ pc' = [pc EXCEPT ![p] = "fresh"]
              \/ pc' = [pc EXCEPT ![p] = "idle"]
<1> DEFINE isNew  == NewToLedger(p)
           ledger == IF isNew THEN data.ledger \cup {ref[p]} ELSE data.ledger
           total  == Larger(IF isNew THEN data.total + want[p] ELSE data.total,
                            Sum(ledger))
<1>1. /\ data' = [data EXCEPT !.ledger = ledger, !.total = total]
      /\ \/ total >= Paid /\ Goto(p, "fresh")
         \/ Goto(p, "idle")
  BY DEF PanelRecord
<1>2. /\ ref[p] \in Refunds /\ want[p] = Amount[ref[p]]
      /\ counts[p] => ref[p] \in settled
      /\ data.ledger \in SUBSET Refunds /\ data.total \in Nat
  BY DEF TypeOK, Accounted, Data, PanelRecord, Procs
<1>3. /\ data.ledger \subseteq ledger /\ ledger \subseteq settled
      /\ total = Sum(ledger) /\ data.total <= total
  <2>1. CASE isNew
    <3>1. Sum(ledger) = Sum(data.ledger) + Amount[ref[p]]
      BY <2>1, <1>2, SumOfOneMore DEF NewToLedger
    <3>2. Amount[ref[p]] \in Nat
      BY <1>2, AmountAssumption
    <3>3. total = Sum(ledger) /\ data.total <= total
      BY <2>1, <3>1, <3>2, <1>2 DEF Accounted, Larger
    <3> QED BY <2>1, <3>3, <1>2 DEF NewToLedger, Accounted
  <2>2. CASE ~isNew
    <3>1. ledger = data.ledger
      BY <2>2
    <3>2. total = Sum(ledger)
      BY <2>2, <3>1, <1>2 DEF Accounted, Larger
    <3> QED BY <3>1, <3>2, <1>2 DEF Accounted
  <2> QED BY <2>1, <2>2
<1>4. data'.ledger = ledger /\ data'.total = total /\ data'.reversed = data.reversed
  BY <1>1 DEF TypeOK, Data
<1> QED
  <2> HIDE DEF total, ledger, isNew
  <2> QED BY <1>1, <1>3, <1>4 DEF Goto

\* The copy a reversal writes back is the ledger of the row.
LEMMA CopyIsCurrent ==
    ASSUME TypeOK, Accounted, Reversing, NEW p \in Procs, pc[p] \in {"revoke", "stamp"}
    PROVE  snap[p].ledger = data.ledger /\ snap[p].total = data.total
<1>1. /\ snap[p].ledger \in SUBSET data.ledger
      /\ snap[p].total = Sum(snap[p].ledger) /\ snap[p].total >= Paid
  BY DEF Reversing
<1>2. data.ledger \in SUBSET issued /\ issued \in SUBSET Refunds /\ Sum(issued) <= Paid
  BY DEF Accounted, TypeOK
<1>3. Sum(data.ledger) <= Sum(issued) /\ Sum(data.ledger) \in Nat /\ Sum(issued) \in Nat
  BY <1>2, SumOfPart
<1>4. data.ledger \in SUBSET Refunds
  BY <1>2
<1>5. snap[p].ledger = data.ledger
  <2>1. /\ Sum(snap[p].ledger) \in Nat
        /\ Sum(data.ledger) <= Sum(snap[p].ledger) => snap[p].ledger = data.ledger
    BY <1>1, <1>4, SumOfPart
  <2> QED BY <2>1, <1>1, <1>2, <1>3, PaidAssumption
<1> QED BY <1>1, <1>5 DEF Accounted

\* What the stamp writes: nothing but the stamp, the audit and the status.
LEMMA StampEffect ==
    ASSUME TypeOK, Accounted, Reversing, NEW p \in Procs, Stamp(p)
    PROVE  /\ data'.ledger = data.ledger /\ data'.total = data.total
           /\ data'.reversed
<1>1. snap[p].ledger = data.ledger /\ snap[p].total = data.total
  BY CopyIsCurrent DEF Stamp
<1> QED BY <1>1 DEF Stamp, TypeOK, Data

\* Every step keeps the accounts.
LEMMA AccountedStep ==
    ASSUME ~NamelessEvents, TypeOK, Accounted, Reversing, [Next]_vars
    PROVE  Accounted'
<1> USE DEF Goto, providerVars, inboxVars, localVars, Procs
<1>1. ASSUME NEW r \in Refunds, Dashboard(r) \/ Settle(r) \/ Notify(r)
      PROVE  Accounted'
  BY <1>1 DEF Dashboard, Settle, Notify, Acceptable, Accounted, TypeOK
<1>2. ASSUME NEW p \in Panels, PanelStart(p)
      PROVE  Accounted'
  BY ProcsAssumption, <1>2 DEF PanelStart, Accounted, TypeOK
<1>3. ASSUME NEW p \in Panels, PostIssues(p)
      PROVE  Accounted'
  <2>1. PICK r \in Refunds :
          /\ Amount[r] = want[p] /\ Acceptable(r)
          /\ issued' = issued \cup {r} /\ keyed' = keyed \cup {r}
          /\ settled' \in {settled, settled \cup {r}}
          /\ Answered(p, r)
    BY <1>3 DEF PostIssues
  <2> QED BY ProcsAssumption, <2>1 DEF Answered, Acceptable, Accounted, TypeOK
<1>4. ASSUME NEW p \in Panels, PostReplays(p)
      PROVE  Accounted'
  <2>1. PICK r \in Replayed(want[p]) : UNCHANGED providerVars /\ Answered(p, r)
    BY <1>4 DEF PostReplays
  <2>2. r \in issued /\ Amount[r] = want[p]
    BY DEF Replayed, Accounted
  <2> QED BY ProcsAssumption, <2>1, <2>2 DEF Answered, Accounted, TypeOK
<1>5. ASSUME NEW p \in Panels, PostRefused(p) \/ PanelFresh(p)
      PROVE  Accounted'
  BY <1>5 DEF PostRefused, PanelFresh, Accounted, TypeOK
<1>6. ASSUME NEW p \in Panels, PanelRecord(p)
      PROVE  Accounted'
  <2>1. data'.ledger \subseteq settled /\ data'.total = Sum(data'.ledger)
    BY <1>6, RecordEffect
  <2> QED BY <1>6, <2>1 DEF PanelRecord, Accounted, TypeOK
<1>7. ASSUME NEW p \in Workers, NEW r \in Refunds, Load(p, r)
      PROVE  Accounted'
  BY <1>7 DEF Load, Accounted, TypeOK
<1>8. ASSUME NEW p \in Workers, WorkerLock(p)
      PROVE  Accounted'
  <2>1. CASE data.reversed
    BY <1>8, <2>1 DEF WorkerLock, Accounted, TypeOK
  <2>2. CASE ~data.reversed
    <3>1. /\ data'.ledger \subseteq settled /\ data'.total = Sum(data'.ledger)
          /\ \/ pc' = [pc EXCEPT ![p] = "revoke"]
             \/ pc' = [pc EXCEPT ![p] = "ack"]
          /\ ref[p] \in settled
      BY <1>8, <2>2, LockNamed DEF Accounted
    <3> QED BY <1>8, <3>1 DEF WorkerLock, Accounted, TypeOK
  <2> QED BY <2>1, <2>2
<1>9. ASSUME NEW p \in Procs, Stamp(p)
      PROVE  Accounted'
  <2>1. data'.ledger = data.ledger /\ data'.total = data.total
    BY <1>9, StampEffect
  <2> QED BY <1>9, <2>1 DEF Stamp, Accounted, TypeOK
<1>10. ASSUME NEW p \in Procs, Revoke(p) \/ Crash(p)
       PROVE  Accounted'
  BY <1>10 DEF Revoke, Crash, Accounted, TypeOK
<1>11. ASSUME NEW p \in Workers, Ack(p)
       PROVE  Accounted'
  BY <1>11 DEF Ack, Accounted, TypeOK
<1>12. CASE UNCHANGED vars
  BY <1>12 DEF vars, Accounted
<1> QED BY <1>1, <1>2, <1>3, <1>4, <1>5, <1>6, <1>7, <1>8, <1>9, <1>10, <1>11, <1>12
        DEF Next, PanelStep, WorkerStep

\* Every step keeps Reversing: the only writes to the ledger are the two under
\* the lock, which add to it, and the stamp, which changes nothing of it.
LEMMA ReversingStep ==
    ASSUME ~NamelessEvents, TypeOK, Accounted, Reversing, [Next]_vars
    PROVE  Reversing'
<1> USE DEF Goto, providerVars, inboxVars, localVars, Procs
<1>1. ASSUME NEW r \in Refunds, Dashboard(r) \/ Settle(r) \/ Notify(r)
      PROVE  Reversing'
  BY <1>1 DEF Dashboard, Settle, Notify, Reversing
<1>2. ASSUME NEW p \in Panels,
             PanelStart(p) \/ PostIssues(p) \/ PostReplays(p) \/ PostRefused(p)
      PROVE  Reversing'
  BY <1>2 DEF PanelStart, PostIssues, PostReplays, PostRefused, Answered, Reversing, TypeOK
<1>3. ASSUME NEW p \in Panels, PanelRecord(p)
      PROVE  Reversing'
  <2>1. /\ data.ledger \subseteq data'.ledger
        /\ data'.reversed = data.reversed
        /\ data.total <= data'.total
        /\ \/ data'.total >= Paid /\ pc' = [pc EXCEPT ![p] = "fresh"]
           \/ pc' = [pc EXCEPT ![p] = "idle"]
    BY <1>3, RecordEffect
  <2>2. data.total >= Paid => data'.total >= Paid
    <3>1. data.total \in Nat /\ data'.total \in Nat
      BY <1>3, TypeStep DEF TypeOK, Data, Next, PanelStep
    <3> QED BY <2>1, <3>1, PaidAssumption
  <2> QED BY <1>3, <2>1, <2>2 DEF PanelRecord, Reversing, TypeOK
<1>4. ASSUME NEW p \in Panels, PanelFresh(p)
      PROVE  Reversing'
  BY <1>4 DEF PanelFresh, Reversing, Accounted, TypeOK, Data
<1>5. ASSUME NEW p \in Workers, NEW r \in Refunds, Load(p, r)
      PROVE  Reversing'
  BY <1>5 DEF Load, Reversing, TypeOK
<1>6. ASSUME NEW p \in Workers, WorkerLock(p)
      PROVE  Reversing'
  <2>1. CASE data.reversed
    BY <1>6, <2>1 DEF WorkerLock, Reversing, TypeOK
  <2>2. CASE ~data.reversed
    <3>1. /\ data.ledger \subseteq data'.ledger
          /\ data'.total = Sum(data'.ledger)
          /\ data'.reversed = data.reversed
          /\ data.total <= data'.total
          /\ \/ /\ data'.total >= Paid
                /\ pc' = [pc EXCEPT ![p] = "revoke"]
                /\ snap' = [snap EXCEPT ![p] = data']
             \/ /\ pc' = [pc EXCEPT ![p] = "ack"]
                /\ UNCHANGED snap
      BY <1>6, <2>2, LockNamed
    <3>2. data.total >= Paid => data'.total >= Paid
      <4>1. data.total \in Nat /\ data'.total \in Nat
        BY <1>6, TypeStep DEF TypeOK, Data, Next, WorkerStep
      <4> QED BY <3>1, <4>1, PaidAssumption
    <3> QED BY <1>6, <3>1, <3>2 DEF WorkerLock, Reversing, TypeOK
  <2> QED BY <2>1, <2>2
<1>7. ASSUME NEW p \in Procs, Stamp(p)
      PROVE  Reversing'
  <2>1. /\ data'.ledger = data.ledger /\ data'.total = data.total
        /\ data.total >= Paid
    BY <1>7, StampEffect, CopyIsCurrent DEF Stamp, Reversing
  <2> QED BY <1>7, <2>1 DEF Stamp, Reversing, TypeOK
<1>8. ASSUME NEW p \in Procs, Revoke(p) \/ Crash(p)
      PROVE  Reversing'
  BY <1>8 DEF Revoke, Crash, Reversing, TypeOK
<1>9. ASSUME NEW p \in Workers, Ack(p)
      PROVE  Reversing'
  BY <1>9 DEF Ack, Reversing, TypeOK
<1>10. CASE UNCHANGED vars
  BY <1>10 DEF vars, Reversing
<1> QED BY <1>1, <1>2, <1>3, <1>4, <1>5, <1>6, <1>7, <1>8, <1>9, <1>10
        DEF Next, PanelStep, WorkerStep

\* Every step keeps Recorded.
LEMMA RecordedStep ==
    ASSUME ~NamelessEvents, IInv, [Next]_vars
    PROVE  Recorded'
<1> USE DEF Goto, providerVars, inboxVars, localVars, Procs, IInv
<1>1. ASSUME UNCHANGED <<status, data>>, Handled' \subseteq Handled
      PROVE  Recorded'
  <2>1. Handled' \in SUBSET Handled /\ Handled \in SUBSET Refunds
    BY <1>1 DEF Handled, TypeOK
  <2>2. Sum(Handled') <= Sum(Handled) /\ Sum(Handled') \in Nat /\ Sum(Handled) \in Nat
    BY <2>1, SumOfPart
  <2> QED BY <1>1, <2>2, PaidAssumption DEF Recorded
<1>2. ASSUME NEW r \in Refunds, Dashboard(r) \/ Settle(r) \/ Notify(r)
      PROVE  Recorded'
  <2>1. UNCHANGED <<status, data>> /\ Handled' \subseteq Handled
    BY <1>2 DEF Dashboard, Settle, Notify, Handled
  <2> QED BY <2>1, <1>1
<1>3. ASSUME NEW p \in Panels,
             \/ PanelStart(p) \/ PostIssues(p) \/ PostReplays(p)
             \/ PostRefused(p) \/ PanelFresh(p)
      PROVE  Recorded'
  <2>1. UNCHANGED <<status, data>> /\ Handled' \subseteq Handled
    <3>1. UNCHANGED <<status, data, acked>>
      BY <1>3 DEF PanelStart, PostIssues, PostReplays, PostRefused, PanelFresh, Answered
    <3>2. \A q \in Procs : pc'[q] = "ack" => pc[q] = "ack" /\ ref'[q] = ref[q]
      BY <1>3 DEF PanelStart, PostIssues, PostReplays, PostRefused, PanelFresh, Answered,
                  TypeOK
    <3> QED BY <3>1, <3>2 DEF Handled
  <2> QED BY <2>1, <1>1
<1>4. ASSUME NEW p \in Panels, PanelRecord(p)
      PROVE  Recorded'
  <2>1. data.ledger \subseteq data'.ledger /\ data'.reversed = data.reversed
    BY <1>4, RecordEffect
  <2>2. Handled' \subseteq Handled
    <3>1. \A q \in Procs : pc'[q] = "ack" => pc[q] = "ack" /\ ref'[q] = ref[q]
      BY <1>4 DEF PanelRecord, TypeOK
    <3> QED BY <1>4, <3>1 DEF Handled, PanelRecord
  <2>3. Sum(Handled') <= Sum(Handled) /\ Sum(Handled') \in Nat /\ Sum(Handled) \in Nat
    <3>1. Handled' \in SUBSET Handled /\ Handled \in SUBSET Refunds
      BY <2>2 DEF Handled, TypeOK
    <3> QED BY <3>1, SumOfPart
  <2> QED BY <1>4, <2>1, <2>2, <2>3, PaidAssumption DEF PanelRecord, Recorded
<1>5. ASSUME NEW p \in Workers, NEW r \in Refunds, Load(p, r)
      PROVE  Recorded'
  <2>1. CASE data.reversed
    BY <1>5, <2>1 DEF Load, Recorded
  <2>2. CASE ~data.reversed
    <3>1. status = "COMPLETED"
      BY <2>2 DEF Recorded, TypeOK
    <3>2. \A q \in Procs : pc'[q] = "ack" => pc[q] = "ack" /\ ref'[q] = ref[q]
      BY <1>5, <2>2, <3>1 DEF Load, TypeOK
    <3>3. UNCHANGED <<status, data>> /\ Handled' \subseteq Handled
      BY <1>5, <3>2 DEF Load, Handled
    <3> QED BY <3>3, <1>1
  <2> QED BY <2>1, <2>2
<1>6. ASSUME NEW p \in Workers, WorkerLock(p)
      PROVE  Recorded'
  <2>1. CASE data.reversed
    BY <1>6, <2>1 DEF WorkerLock, Recorded
  <2>2. CASE ~data.reversed
    <3>1. /\ data'.ledger = data.ledger \cup {ref[p]}
          /\ data'.total = Sum(data'.ledger)
          /\ data'.reversed = data.reversed
          /\ \/ pc' = [pc EXCEPT ![p] = "revoke"]
             \/ data'.total < Paid /\ pc' = [pc EXCEPT ![p] = "ack"]
      BY <1>6, <2>2, LockNamed
    <3>2. CASE pc' = [pc EXCEPT ![p] = "revoke"]
      <4>1. Handled' \subseteq Handled
        <5>1. \A q \in Procs : pc'[q] = "ack" => pc[q] = "ack" /\ ref'[q] = ref[q]
          BY <1>6, <3>2 DEF WorkerLock, TypeOK
        <5> QED BY <1>6, <5>1 DEF Handled, WorkerLock
      <4>2. Sum(Handled') <= Sum(Handled) /\ Sum(Handled') \in Nat /\ Sum(Handled) \in Nat
        <5>1. Handled' \in SUBSET Handled /\ Handled \in SUBSET Refunds
          BY <4>1 DEF Handled, TypeOK
        <5> QED BY <5>1, SumOfPart
      <4>3. status' = status
        BY <1>6 DEF WorkerLock
      <4> QED BY <3>1, <4>1, <4>2, <4>3, PaidAssumption DEF Recorded
    <3>3. CASE data'.total < Paid /\ pc' = [pc EXCEPT ![p] = "ack"]
      <4>1. Handled' \subseteq data'.ledger
        <5>1. Handled' \subseteq Handled \cup {ref[p]}
          BY <1>6, <3>3 DEF WorkerLock, Handled, TypeOK
        <5> QED BY <2>2, <3>1, <5>1 DEF Recorded
      <4>2. /\ Sum(Handled') <= Sum(data'.ledger)
            /\ Sum(Handled') \in Nat /\ Sum(data'.ledger) \in Nat
        <5>1. Handled' \in SUBSET data'.ledger /\ data'.ledger \in SUBSET Refunds
          BY <1>6, <3>1, <4>1 DEF TypeOK, Data
        <5> QED BY <5>1, SumOfPart
      <4>3. status' = status /\ status = "COMPLETED"
        BY <1>6, <2>2 DEF WorkerLock, Recorded, TypeOK
      <4>4. data'.total \in Nat /\ Sum(Handled') < Paid
        BY <3>1, <3>3, <4>2, PaidAssumption
      <4> QED BY <2>2, <3>1, <4>1, <4>3, <4>4 DEF Recorded
    <3> QED BY <3>1, <3>2, <3>3
  <2> QED BY <2>1, <2>2
<1>7. ASSUME NEW p \in Procs, Stamp(p)
      PROVE  Recorded'
  BY <1>7, StampEffect DEF Stamp, Recorded
<1>8. ASSUME NEW p \in Procs, Revoke(p) \/ Crash(p)
      PROVE  Recorded'
  <2>1. \A q \in Procs : pc'[q] = "ack" => pc[q] = "ack" /\ ref'[q] = ref[q]
    BY <1>8 DEF Revoke, Crash, TypeOK
  <2>2. UNCHANGED <<status, data>> /\ Handled' \subseteq Handled
    BY <1>8, <2>1 DEF Revoke, Crash, Handled
  <2> QED BY <2>2, <1>1
<1>9. ASSUME NEW p \in Workers, Ack(p)
      PROVE  Recorded'
  <2>1. UNCHANGED <<status, data>> /\ Handled' \subseteq Handled
    BY <1>9 DEF Ack, Handled, TypeOK
  <2> QED BY <2>1, <1>1
<1>10. CASE UNCHANGED vars
  BY <1>10, <1>1 DEF vars, Handled
<1> QED BY <1>2, <1>3, <1>4, <1>5, <1>6, <1>7, <1>8, <1>9, <1>10
        DEF Next, PanelStep, WorkerStep

------------------------------------------------------------------------------

\* The invariant holds at the start and is kept by every step.
THEOREM Inductive == ASSUME ~NamelessEvents PROVE Spec => []IInv
<1>1. Init => IInv
  <2> SUFFICES ASSUME Init PROVE IInv
    OBVIOUS
  <2>1. Sum({}) = 0 /\ Sum({}) < Paid
    BY SumFacts, PaidAssumption
  <2>2. TypeOK
    BY CrashAssumption DEF Init, TypeOK, Data, NoData, Statuses, NoStatus, Steps
  <2>3. Accounted
    BY <2>1, PaidAssumption DEF Init, Accounted, NoData
  <2>4. Reversing
    BY DEF Init, Reversing, NoData
  <2>5. Handled = {}
    BY DEF Init, Handled
  <2>6. Recorded
    BY <2>1, <2>5 DEF Init, Recorded, NoData
  <2> QED BY <2>2, <2>3, <2>4, <2>6 DEF IInv
<1>2. IInv /\ [Next]_vars => IInv'
  BY TypeStep, AccountedStep, ReversingStep, RecordedStep DEF IInv
<1> QED BY <1>1, <1>2, PTL DEF Spec

\* TypeOK holds in every behaviour (also with notifications without a refund id).
THEOREM TypeCorrect == Spec => []TypeOK
<1>1. Init => TypeOK
  BY CrashAssumption DEF Init, TypeOK, Data, NoData, Statuses, NoStatus, Steps
<1> QED BY <1>1, TypeStep, PTL DEF Spec

\* No reversal before the provider has given everything back.
THEOREM NoEarlyReversal == ASSUME ~NamelessEvents PROVE Spec => []ReversedOnlyInFull
<1>1. IInv => ReversedOnlyInFull
  <2> SUFFICES ASSUME IInv,
                      data.reversed \/ (\E p \in Procs : pc[p] \in {"revoke", "stamp"})
               PROVE  Sum(settled) >= Paid
    BY DEF ReversedOnlyInFull
  <2>1. data.total >= Paid
    BY CopyIsCurrent DEF IInv, Reversing
  <2>2. data.ledger \in SUBSET settled /\ settled \in SUBSET Refunds
    BY DEF IInv, Accounted, TypeOK
  <2>3. Sum(data.ledger) <= Sum(settled) /\ Sum(data.ledger) \in Nat /\ Sum(settled) \in Nat
    BY <2>2, SumOfPart
  <2> QED BY <2>1, <2>3, PaidAssumption DEF IInv, Accounted
<1> QED BY <1>1, Inductive, PTL

\* The panel, the workers and the stamp never lose a recorded refund.
THEOREM LedgerNeverShrinks == ASSUME ~NamelessEvents PROVE Spec => LedgerKept
<1>1. IInv /\ [Next]_vars =>
        [data.ledger \subseteq data'.ledger /\ data.total <= data'.total]_vars
  <2> SUFFICES ASSUME IInv, Next
               PROVE  data.ledger \subseteq data'.ledger /\ data.total <= data'.total
    OBVIOUS
  <2> USE DEF IInv
  <2>1. data.total \in Nat
    BY DEF TypeOK, Data
  <2>2. CASE UNCHANGED data
    BY <2>1, <2>2
  <2>3. ASSUME NEW p \in Panels, PanelRecord(p)
        PROVE  data.ledger \subseteq data'.ledger /\ data.total <= data'.total
    BY <2>3, RecordEffect
  <2>4. ASSUME NEW p \in Workers, WorkerLock(p)
        PROVE  data.ledger \subseteq data'.ledger /\ data.total <= data'.total
    <3>1. CASE data.reversed
      BY <2>1, <2>4, <3>1 DEF WorkerLock
    <3>2. CASE ~data.reversed
      BY <2>4, <3>2, LockNamed
    <3> QED BY <3>1, <3>2
  <2>5. ASSUME NEW p \in Procs, Stamp(p)
        PROVE  data.ledger \subseteq data'.ledger /\ data.total <= data'.total
    BY <2>1, <2>5, StampEffect
  <2> QED
    BY <2>2, <2>3, <2>4, <2>5
    DEF Next, PanelStep, WorkerStep, Procs, Dashboard, Settle, Notify, PanelStart,
        PostIssues, PostReplays, PostRefused, Answered, PanelFresh, Load, Ack, Revoke, Crash
<1> QED BY <1>1, Inductive, PTL DEF Spec, LedgerKept

\* A payment whose refunds were all processed is reversed.
THEOREM ProcessedIsReversed == ASSUME ~NamelessEvents PROVE Spec => []AckedIsReversed
<1>1. IInv => AckedIsReversed
  <2> SUFFICES ASSUME IInv, Sum(acked) >= Paid
               PROVE  data.reversed /\ status = "CANCELED"
    BY DEF AckedIsReversed
  <2>1. acked \in SUBSET Handled /\ Handled \in SUBSET Refunds
    BY DEF IInv, Handled, TypeOK, Procs
  <2>2. Sum(acked) <= Sum(Handled) /\ Sum(acked) \in Nat /\ Sum(Handled) \in Nat
    BY <2>1, SumOfPart
  <2> QED BY <2>2, PaidAssumption DEF IInv, Recorded
<1> QED BY <1>1, Inductive, PTL

-----------------------------------------------------------------------------
(* Profile sync: what its proofs speak of                                  *)

\* The steps a worker that holds a job can be at.
Pcs == {"claim", "reload", "create", "link", "patch", "detach", "recheck", "ensure",
        "delete", "retire", "complete", "fail"}
\* A worker that holds a job.
Busy(w) == at[w] # Idle
\* A job that removes a profile from the panel.
Removes(j) == Created(j) /\ job[j].action = "DELETE"
\* What a worker holds is of its type: the first of the four parts of SyncTypeOK.
AtOK == at \in [SyncWorkers -> Work \cup {Idle}]
\* The rows of the jobs are of their type.
JobOK == job \in [Jobs -> Job \cup {NoJob}]
\* The queue's entries are of their type.
QueueOK == queue \in [Jobs -> [state : {"none", "waiting", "active", "kept"}, tries : 0..MaxTries]]

\* What is not a worker, a job or the queue.
RestOK ==
    /\ scenario \in Scenarios
    /\ row \in Row
    /\ panel \in [id : 0..MaxProfiles, term : 0..MaxTerm] /\ panel.id <= profiles
    /\ profiles \in 0..MaxProfiles
    /\ forcing \in 0..MaxJobs /\ over \in 0..MaxTerm /\ scanned \in BOOLEAN
    /\ cleaning \in [link : 0..MaxProfiles, term : 0..MaxTerm] \cup {Nothing}
    /\ events \subseteq [id : 0..MaxProfiles, term : 0..MaxTerm, ended : BOOLEAN]
    /\ decided \in BOOLEAN /\ condemned \in BOOLEAN /\ orphaned \in BOOLEAN
    /\ overwritten \in BOOLEAN /\ adopted \in BOOLEAN
    /\ wedged \subseteq Jobs

-----------------------------------------------------------------------------
(* Types                                                                   *)

\* SyncTypeOK is the conjunction of the four parts the lemmas below use one by one.
LEMMA TypeParts == SyncTypeOK <=> AtOK /\ JobOK /\ QueueOK /\ RestOK
BY DEF SyncTypeOK, AtOK, JobOK, QueueOK, RestOK

\* The bounds are numbers, and there is room for one.
LEMMA Numbers ==
  /\ MaxJobs \in Nat /\ MaxProfiles \in Nat /\ MaxTerm \in Nat /\ MaxRounds \in Nat /\ MaxTries \in Nat
  /\ 1 \in Jobs /\ 1 \in 0..MaxProfiles /\ 1 \in 0..MaxTerm /\ 1 \in 1..MaxRounds
  /\ 0 \in 0..MaxProfiles /\ 0 \in 0..MaxTerm /\ 0 \in 0..MaxTries /\ 0 \in 0..MaxJobs
  /\ Jobs \subseteq 0..MaxJobs
<1>1. MaxJobs \in Nat \ {0} /\ MaxProfiles \in Nat \ {0} /\ MaxTerm \in Nat \ {0} /\ MaxRounds \in Nat \ {0}
  BY ProfileSyncAssumption
<1> QED BY <1>1, ProfileSyncAssumption DEF Jobs

\* A worker with a step to take is at work on a job.
LEMMA AtWork ==
  ASSUME AtOK, NEW w \in SyncWorkers
  PROVE  /\ Busy(w) <=> at[w] \in Work
         /\ Busy(w) <=> at[w].pc \in Pcs
         /\ ~Busy(w) <=> at[w].pc = "idle"
         /\ Busy(w) => at[w].job \in Jobs /\ at[w].cur \in Row /\ at[w].round \in 1..MaxRounds
                       /\ at[w].found \in 0..MaxProfiles /\ at[w].passing \in BOOLEAN
BY DEF AtOK, Work, Idle, Busy, Pcs

\* A job that is created has all its fields.
LEMMA IsJob ==
  ASSUME JobOK, NEW j \in Jobs
  PROVE  /\ Created(j) <=> job[j] \in Job
         /\ ~Created(j) <=> job[j] = NoJob
         /\ job[j].action = "none" <=> ~Created(j)
BY DEF JobOK, Job, NoJob, Created

\* The number of a new job is one that is free.
LEMMA FirstOfFree ==
  ASSUME Free # {}
  PROVE  FirstFree \in Jobs /\ ~Created(FirstFree)
<1>1. Free \in SUBSET Nat
  BY ProfileSyncAssumption DEF Free, Jobs
<1>2. \E d \in Free : \A e \in Free : ~ (<<e, d>> \in OpToRel(<, Nat))
  BY <1>1, NatLessThanWellFounded, WFMin
<1>3. \A e, d \in Nat : <<e, d>> \in OpToRel(<, Nat) <=> e < d
  BY DEF OpToRel
<1>4. PICK d \in Free : \A e \in Free : ~(e < d)
  BY <1>1, <1>2, <1>3, Zenon
<1>5. \A e \in Free : d <= e
  BY <1>1, <1>4
<1>6. FirstFree \in Free
  BY <1>5 DEF FirstFree
<1>7. QED
  BY <1>6 DEF Free

\* A job as the table gets it is a row of the table, and not the empty one.
LEMMA NewJobTyped ==
  ASSUME NEW a \in {"CREATE", "UPDATE", "DELETE"}, NEW t \in 0..MaxProfiles
  PROVE  NewJob(a, t) \in Job /\ NewJob(a, t) # NoJob
BY DEF NewJob, Job, NoJob, Nobody

\* What a worker does is its own.
Moved(w) ==
    /\ Busy(w)
    /\ at' \in [SyncWorkers -> Work \cup {Idle}]
    /\ \A v \in SyncWorkers : v # w => at'[v] = at[v]
    /\ at'[w] = Idle \/ (at'[w] \in Work /\ at'[w].job = at[w].job)

\* One worker moves, to a step of the same job or to rest: the others stay as they are.
LEMMA Moving ==
  ASSUME AtOK, NEW w \in SyncWorkers, Busy(w), NEW to,
         to = Idle \/ (to \in Work /\ to.job = at[w].job), at' = [at EXCEPT ![w] = to]
  PROVE  Moved(w) /\ at'[w] = to
BY DEF AtOK, Moved

\* The same for a step to another pc with the row as it was read.
LEMMA MovingTo ==
  ASSUME AtOK, NEW w \in SyncWorkers, Busy(w), NEW s \in Pcs, MoveTo(w, s)
  PROVE  Moved(w) /\ at'[w] = [at[w] EXCEPT !.pc = s]
<1>1. at[w] \in Work
  BY AtWork
<1>2. [at[w] EXCEPT !.pc = s] \in Work /\ [at[w] EXCEPT !.pc = s].job = at[w].job
  BY <1>1 DEF Work, Pcs
<1> QED BY <1>2, Moving DEF MoveTo

\* Where a worker is after a step that read the row again.
AtWith(w, s, r) == at'[w] = [at[w] EXCEPT !.pc = s, !.cur = r]

\* The same for a step to another pc with a row read now.
LEMMA MovingWith ==
  ASSUME AtOK, NEW w \in SyncWorkers, Busy(w), NEW s \in Pcs, NEW r \in Row, MoveToWith(w, s, r)
  PROVE  Moved(w) /\ AtWith(w, s, r)
<1>1. at[w] \in Work
  BY AtWork
<1>2. [at[w] EXCEPT !.pc = s, !.cur = r] \in Work /\ [at[w] EXCEPT !.pc = s, !.cur = r].job = at[w].job
  BY <1>1 DEF Work, Pcs
<1>3. [at EXCEPT ![w].pc = s, ![w].cur = r] = [at EXCEPT ![w] = [at[w] EXCEPT !.pc = s, !.cur = r]]
  BY <1>1 DEF AtOK
<1> QED BY <1>2, <1>3, Moving DEF MoveToWith, AtWith

\* The same for a step that gives up, with the error passing or for good.
LEMMA MovingFailing ==
  ASSUME AtOK, NEW w \in SyncWorkers, Busy(w), NEW b \in BOOLEAN, Failing(w, b)
  PROVE  Moved(w) /\ at'[w] = [at[w] EXCEPT !.pc = "fail", !.passing = b]
<1>1. at[w] \in Work
  BY AtWork
<1>2. [at[w] EXCEPT !.pc = "fail", !.passing = b] \in Work
      /\ [at[w] EXCEPT !.pc = "fail", !.passing = b].job = at[w].job
  BY <1>1 DEF Work
<1>3. [at EXCEPT ![w].pc = "fail", ![w].passing = b]
      = [at EXCEPT ![w] = [at[w] EXCEPT !.pc = "fail", !.passing = b]]
  BY <1>1 DEF AtOK
<1> QED BY <1>2, <1>3, Moving DEF Failing

\* A worker that is done with its job is at rest, and the others stay as they are.
LEMMA MovingDone ==
  ASSUME AtOK, NEW w \in SyncWorkers, Busy(w), Done(w)
  PROVE  Moved(w) /\ at'[w] = Idle
BY Moving DEF Done

\* The worker whose step it is has something to do.
LEMMA Stepping ==
  ASSUME AtOK, NEW w \in SyncWorkers, SyncStep(w)
  PROVE  Busy(w)
BY AtWork DEF SyncStep, Claim, Reload, Create, Link, Patch, Detach, Recheck, Ensure, Delete,
   Retire, Complete, Fail, Pcs

-----------------------------------------------------------------------------
(* What each step does                                                     *)

\* A new job, with or without its place in the queue.
Hired(action, target, rows) ==
    \E k \in Jobs :
        /\ ~Created(k)
        /\ job' = [rows EXCEPT ![k] = NewJob(action, target)]
        /\ queue' \in {queue, [queue EXCEPT ![k] = Added(queue[k])]}

\* Where a worker is after a step that keeps what it read.
At(w, s) == at'[w] = [at[w] EXCEPT !.pc = s]
\* Where a worker is after a step that gives up.
AtFail(w) == \E b \in BOOLEAN : at'[w] = [at[w] EXCEPT !.pc = "fail", !.passing = b]

\* scheduleProfileSync puts a job in the table and leaves it outside the queue, or adds it.
LEMMA Scheduling ==
  ASSUME NEW a, NEW t, NEW rows, Schedule(a, t, rows)
  PROVE  Hired(a, t, rows)
BY FirstOfFree DEF Schedule, Hired

\* A compensation schedules the removal, and ends the job or fails it.
LEMMA Compensating ==
  ASSUME AtOK, NEW w \in SyncWorkers, Busy(w), NEW id, Compensate(w, id)
  PROVE  Moved(w) /\ Hired("DELETE", id, job) /\ (At(w, "complete") \/ AtFail(w))
<1>1. Hired("DELETE", id, job)
  BY FirstOfFree DEF Compensate, Hired
<1>2. MoveTo(w, "complete") \/ Failing(w, FALSE)
  BY DEF Compensate
<1> QED BY <1>1, <1>2, MovingTo, MovingFailing DEF At, AtFail, Pcs

\* What claiming does: the job is RUNNING under this worker's lease, or the worker lets it be.
LEMMA ClaimEffect ==
  ASSUME AtOK, JobOK, NEW w \in SyncWorkers, Claim(w), Created(at[w].job)
  PROVE  /\ Moved(w) /\ at[w].pc = "claim"
         /\ \/ /\ job[at[w].job].status \in {"PENDING", "FAILED"} /\ ~job[at[w].job].superseded
               /\ job' = [job EXCEPT ![at[w].job] = [@ EXCEPT !.status = "RUNNING", !.lease = w]]
               /\ At(w, Handler(at[w].job, at[w].cur))
               /\ queue' = queue
            \/ job' = job /\ Done(w) /\ at'[w] = Idle
<1>1. Busy(w)
  BY Stepping DEF SyncStep
<1>2. at[w].pc = "claim"
  BY DEF Claim
<1>3. Handler(at[w].job, at[w].cur) \in Pcs
  BY DEF Handler, Pcs
<1>4. CASE job[at[w].job].status \in {"PENDING", "FAILED"} /\ ~job[at[w].job].superseded
  <2>1. MoveTo(w, Handler(at[w].job, at[w].cur)) /\ queue' = queue
        /\ job' = [job EXCEPT ![at[w].job].status = "RUNNING", ![at[w].job].lease = w]
    BY <1>4 DEF Claim
  <2>2. job' = [job EXCEPT ![at[w].job] = [@ EXCEPT !.status = "RUNNING", !.lease = w]]
    <3>1. at[w].job \in Jobs /\ job[at[w].job] \in Job
      BY <1>1, AtWork, IsJob
    <3> QED BY <2>1, <3>1 DEF JobOK
  <2> QED BY <1>1, <1>2, <1>3, <1>4, <2>1, <2>2, MovingTo DEF At
<1>5. CASE ~(job[at[w].job].status \in {"PENDING", "FAILED"} /\ ~job[at[w].job].superseded)
  BY <1>1, <1>2, <1>5, MovingDone DEF Claim
<1> QED BY <1>4, <1>5

\* What a retry's second reading does: the row as it is, and the handler its link calls for.
LEMMA ReloadEffect ==
  ASSUME AtOK, RestOK, NEW w \in SyncWorkers, Reload(w)
  PROVE  /\ Moved(w) /\ at[w].pc = "reload"
         /\ at'[w] = [at[w] EXCEPT !.cur = row, !.round = 1,
                                   !.pc = IF row.link = 0 THEN "create" ELSE "patch"]
<1>1. Busy(w)
  BY Stepping DEF SyncStep
<1> DEFINE to == [at[w] EXCEPT !.cur = row, !.round = 1,
                               !.pc = IF row.link = 0 THEN "create" ELSE "patch"]
<1>2. at[w] \in Work
  BY <1>1, AtWork
<1>3. row \in Row /\ 1 \in 1..MaxRounds
  BY Numbers DEF RestOK
<1>4. to \in Work /\ to.job = at[w].job
  BY <1>2, <1>3 DEF Work
<1>5. at[w].pc = "reload"
  BY DEF Reload
<1>6. at' = [at EXCEPT ![w] = to]
  BY <1>2 DEF Reload, AtOK
<1> HIDE DEF to
<1>7. Moved(w) /\ at'[w] = to
  BY <1>1, <1>4, <1>6, Moving
<1> QED BY <1>5, <1>7 DEF to

\* What handleCreate does on the panel: it finds the profile there, or it makes one.
LEMMA CreateEffect ==
  ASSUME AtOK, RestOK, NEW w \in SyncWorkers, Create(w)
  PROVE  /\ Moved(w) /\ at[w].pc = "create"
         /\ \/ /\ panel.id # 0 /\ UNCHANGED <<panel, profiles, orphaned>>
               /\ at'[w] = [at[w] EXCEPT !.pc = "link", !.found = panel.id]
               /\ adopted' = (adopted \/ panel.term # row.term)
            \/ /\ panel.id = 0 /\ profiles < MaxProfiles
               /\ profiles' = profiles + 1 /\ panel' = [id |-> profiles', term |-> at[w].cur.term]
               /\ UNCHANGED adopted
               /\ \/ at'[w] = [at[w] EXCEPT !.pc = "link", !.found = profiles'] /\ UNCHANGED orphaned
                  \/ AtFail(w) /\ orphaned' = TRUE
            \/ AtFail(w) /\ UNCHANGED <<panel, profiles, orphaned, adopted>>
<1>1. Busy(w) /\ at[w] \in Work
  BY Stepping, AtWork DEF SyncStep
<1>2. at[w].pc = "create"
  BY DEF Create
<1>3. ASSUME NEW id \in 0..MaxProfiles, at' = [at EXCEPT ![w].pc = "link", ![w].found = id]
      PROVE  Moved(w) /\ at'[w] = [at[w] EXCEPT !.pc = "link", !.found = id]
  <2> DEFINE to == [at[w] EXCEPT !.pc = "link", !.found = id]
  <2>1. to \in Work /\ to.job = at[w].job
    BY <1>1 DEF Work
  <2>2. at' = [at EXCEPT ![w] = to]
    BY <1>1, <1>3 DEF AtOK
  <2> QED BY <1>1, <2>1, <2>2, Moving
<1>4. ASSUME NEW b \in BOOLEAN, Failing(w, b) PROVE Moved(w) /\ AtFail(w)
  BY <1>1, <1>4, MovingFailing DEF AtFail
<1>5. panel.id \in 0..MaxProfiles /\ (profiles < MaxProfiles => profiles + 1 \in 0..MaxProfiles)
  BY ProfileSyncAssumption DEF RestOK
<1>6. (panel.id = 0) \in BOOLEAN
  OBVIOUS
<1> QED BY <1>2, <1>3, <1>4, <1>5, <1>6 DEF Create

\* What persistProfileLink does: the row points at the profile, and if the row went out of use its
\* removal is scheduled.
LEMMA LinkEffect ==
  ASSUME AtOK, NEW w \in SyncWorkers, Link(w)
  PROVE  /\ Moved(w) /\ at[w].pc = "link" /\ at'[w] # Idle
         /\ row' = [row EXCEPT !.link = at[w].found]
         /\ \/ /\ Unwanted(row.status) /\ ~Removing(at[w].found)
               /\ Hired("DELETE", at[w].found, job) /\ (At(w, "complete") \/ AtFail(w))
            \/ /\ ~(Unwanted(row.status) /\ ~Removing(at[w].found))
               /\ At(w, "complete") /\ job' = job /\ queue' = queue
<1>1. Busy(w) /\ at[w] \in Work
  BY Stepping, AtWork DEF SyncStep
<1>2. at[w].pc = "link" /\ row' = [row EXCEPT !.link = at[w].found]
  BY DEF Link
<1>3. CASE Unwanted(row.status) /\ ~Removing(at[w].found)
  <2>1. Compensate(w, at[w].found)
    BY <1>3 DEF Link
  <2> QED BY <1>1, <1>2, <1>3, <2>1, Compensating DEF At, AtFail, Idle, Work
<1>4. CASE ~(Unwanted(row.status) /\ ~Removing(at[w].found))
  <2>1. MoveTo(w, "complete") /\ job' = job /\ queue' = queue
    BY <1>4 DEF Link
  <2> QED BY <1>1, <1>2, <1>4, <2>1, MovingTo DEF At, Idle, Work, Pcs
<1> QED BY <1>3, <1>4

\* What updating the profile does: it writes the term as read, finds no profile, or fails.
LEMMA PatchEffect ==
  ASSUME AtOK, NEW w \in SyncWorkers, Patch(w)
  PROVE  /\ Moved(w) /\ at[w].pc = "patch"
         /\ \/ /\ panel.id = at[w].cur.link /\ panel' = [panel EXCEPT !.term = at[w].cur.term]
               /\ adopted' = FALSE /\ (At(w, "recheck") \/ AtFail(w))
            \/ /\ panel.id # at[w].cur.link /\ At(w, "detach") /\ UNCHANGED <<panel, adopted>>
            \/ AtFail(w) /\ UNCHANGED <<panel, adopted>>
<1>1. Busy(w)
  BY Stepping DEF SyncStep
<1>2. ASSUME NEW s \in {"recheck", "detach"}, MoveTo(w, s) PROVE Moved(w) /\ At(w, s)
  BY <1>1, <1>2, MovingTo DEF At, Pcs
<1>3. ASSUME Failing(w, TRUE) PROVE Moved(w) /\ AtFail(w)
  BY <1>1, <1>3, MovingFailing DEF AtFail
<1> QED BY <1>2, <1>3 DEF Patch

\* What detachLostProfile does: the link goes if it is still the lost one, and the row is read again.
LEMMA DetachEffect ==
  ASSUME AtOK, RestOK, NEW w \in SyncWorkers, Detach(w)
  PROVE  /\ Moved(w) /\ at[w].pc = "detach" /\ row' \in Row
         /\ row' = IF row.link = at[w].cur.link THEN [row EXCEPT !.link = 0] ELSE row
         /\ AtWith(w, IF row'.link = 0 THEN "create" ELSE "reload", row')
<1>1. Busy(w)
  BY Stepping DEF SyncStep
<1>2. row' = IF row.link = at[w].cur.link THEN [row EXCEPT !.link = 0] ELSE row
  BY DEF Detach
<1>3. row' \in Row
  BY <1>2, ProfileSyncAssumption DEF RestOK, Row
<1>4. MoveToWith(w, IF row'.link = 0 THEN "create" ELSE "reload", row')
  BY DEF Detach
<1>5. PICK s \in Pcs : s = IF row'.link = 0 THEN "create" ELSE "reload"
  BY DEF Pcs
<1>6. Moved(w) /\ AtWith(w, s, row')
  <2>1. PICK r \in Row : r = row'
    BY <1>3
  <2>2. MoveToWith(w, s, r)
    BY <1>4, <1>5, <2>1
  <2>3. AtWith(w, s, r) /\ Moved(w)
    BY <1>1, <2>2, MovingWith
  <2> QED BY <2>1, <2>3
<1>7. AtWith(w, IF row'.link = 0 THEN "create" ELSE "reload", row')
  BY <1>5, <1>6
<1> QED BY <1>2, <1>3, <1>6, <1>7 DEF Detach

\* What reading the row after the update does: it is as it was, or the worker starts over or gives up.
LEMMA RecheckEffect ==
  ASSUME AtOK, RestOK, NEW w \in SyncWorkers, Recheck(w)
  PROVE  /\ Moved(w) /\ at[w].pc = "recheck"
         /\ \/ SameProfile(row, at[w].cur) /\ At(w, "ensure")
            \/ /\ ~SameProfile(row, at[w].cur)
               /\ \/ AtFail(w)
                  \/ \E n \in 1..MaxRounds :
                        at'[w] = [at[w] EXCEPT !.cur = row, !.round = n,
                                               !.pc = IF row.link = 0 THEN "create" ELSE "patch"]
<1>1. Busy(w) /\ at[w] \in Work
  BY Stepping, AtWork DEF SyncStep
<1>2. CASE SameProfile(row, at[w].cur)
  BY <1>1, <1>2, MovingTo DEF Recheck, At, Pcs
<1>3. CASE ~SameProfile(row, at[w].cur) /\ at[w].round < MaxRounds
  <2> DEFINE to == [at[w] EXCEPT !.cur = row, !.round = at[w].round + 1,
                                 !.pc = IF row.link = 0 THEN "create" ELSE "patch"]
  <2>1. at[w].round \in 1..MaxRounds /\ row \in Row
    BY <1>1 DEF Work, RestOK
  <2>2. at[w].round + 1 \in 1..MaxRounds
    BY <1>3, <2>1, Numbers
  <2>3. to \in Work /\ to.job = at[w].job
    BY <1>1, <2>1, <2>2 DEF Work
  <2>4. at' = [at EXCEPT ![w] = to]
    BY <1>1, <1>3 DEF Recheck, AtOK
  <2>5. at[w].pc = "recheck"
    BY DEF Recheck
  <2> HIDE DEF to
  <2>6. Moved(w) /\ at'[w] = to
    BY <1>1, <2>3, <2>4, Moving
  <2> QED BY <1>3, <2>2, <2>5, <2>6 DEF to
<1>4. CASE ~SameProfile(row, at[w].cur) /\ ~(at[w].round < MaxRounds)
  <2>1. Failing(w, TRUE)
    BY <1>4 DEF Recheck
  <2> QED BY <1>1, <1>4, <2>1, MovingFailing DEF Recheck, AtFail
<1> QED BY <1>2, <1>3, <1>4

\* What the last look at the row does: on a deleted one the removal of its profile is scheduled.
LEMMA EnsureEffect ==
  ASSUME AtOK, NEW w \in SyncWorkers, Ensure(w)
  PROVE  /\ Moved(w) /\ at[w].pc = "ensure"
         /\ \/ /\ row.status = "DELETED" /\ ~Removing(at[w].cur.link)
               /\ Hired("DELETE", at[w].cur.link, job) /\ (At(w, "complete") \/ AtFail(w))
            \/ /\ ~(row.status = "DELETED" /\ ~Removing(at[w].cur.link))
               /\ At(w, "complete") /\ job' = job /\ queue' = queue
<1>1. Busy(w)
  BY Stepping DEF SyncStep
<1>2. CASE row.status = "DELETED" /\ ~Removing(at[w].cur.link)
  BY <1>1, <1>2, Compensating DEF Ensure
<1>3. CASE ~(row.status = "DELETED" /\ ~Removing(at[w].cur.link))
  BY <1>1, <1>3, MovingTo DEF Ensure, At, Pcs
<1> QED BY <1>2, <1>3

\* The panel without the profile.
Emptied(id) == IF panel.id = id THEN [id |-> 0, term |-> 0] ELSE panel

\* What handleDelete does on the panel: the profile goes, or the call fails with or without effect.
LEMMA DeleteEffect ==
  ASSUME AtOK, NEW w \in SyncWorkers, Delete(w)
  PROVE  /\ Moved(w) /\ at[w].pc = "delete"
         /\ \/ panel' = Emptied(job[at[w].job].target) /\ At(w, "retire")
            \/ panel' \in {Emptied(job[at[w].job].target), panel} /\ AtFail(w)
<1>1. Busy(w)
  BY Stepping DEF SyncStep
<1>2. ASSUME MoveTo(w, "retire") PROVE Moved(w) /\ At(w, "retire")
  BY <1>1, <1>2, MovingTo DEF At, Pcs
<1>3. ASSUME Failing(w, TRUE) PROVE Moved(w) /\ AtFail(w)
  BY <1>1, <1>3, MovingFailing DEF AtFail
<1> QED BY <1>2, <1>3 DEF Delete, Emptied

\* What ends a removal: the row that pointed at the profile is DELETED and points at none.
LEMMA RetireEffect ==
  ASSUME AtOK, NEW w \in SyncWorkers, Retire(w)
  PROVE  /\ Moved(w) /\ at[w].pc = "retire" /\ At(w, "complete")
         /\ row' = IF row.link = job[at[w].job].target
                   THEN [row EXCEPT !.link = 0, !.status = "DELETED"] ELSE row
<1>1. Busy(w)
  BY Stepping DEF SyncStep
<1> QED BY <1>1, MovingTo DEF Retire, At, Pcs

\* The queue is done with the job, or will try it again.
Left(j) ==
    \E s \in {"waiting", "kept"}, n \in 0..MaxTries : queue' = [queue EXCEPT ![j] = [state |-> s, tries |-> n]]

\* What the end of a job does: it is recorded, or the lease is lost and nothing is.
LEMMA ClosingEffect ==
  ASSUME AtOK, JobOK, QueueOK, NEW w \in SyncWorkers, Complete(w) \/ Fail(w), Created(at[w].job)
  PROVE  /\ Moved(w) /\ at'[w] = Idle /\ Left(at[w].job)
         /\ \/ job' = job
            \/ at[w].pc = "complete" /\ job' = [job EXCEPT ![at[w].job] = [@ EXCEPT !.status = "COMPLETED"]]
            \/ /\ at[w].pc = "fail"
               /\ \E b \in BOOLEAN :
                    job' = [job EXCEPT ![at[w].job] = [@ EXCEPT !.status = "FAILED", !.transient = b]]
<1>1. Busy(w) /\ at[w] \in Work
  BY Stepping, AtWork DEF SyncStep
<1> DEFINE j == at[w].job
<1>2. j \in Jobs /\ job[j] \in Job /\ queue[j].tries \in 0..MaxTries
  BY <1>1, IsJob DEF QueueOK, Work
<1>3. CASE Complete(w)
  <2>1. Moved(w) /\ at'[w] = Idle
    BY <1>1, <1>3, MovingDone DEF Complete
  <2>2. queue' = [queue EXCEPT ![j] = [state |-> "kept", tries |-> queue[j].tries]]
    <3>1. queue' = [queue EXCEPT ![j].state = "kept"]
      BY <1>3 DEF Complete, Done
    <3>2. queue[j] \in [state : {"none", "waiting", "active", "kept"}, tries : 0..MaxTries]
      BY <1>2 DEF QueueOK
    <3>3. [queue[j] EXCEPT !.state = "kept"] = [state |-> "kept", tries |-> queue[j].tries]
      BY <3>2
    <3> QED BY <3>1, <3>3
  <2>3. job' = job \/ job' = [job EXCEPT ![j] = [@ EXCEPT !.status = "COMPLETED"]]
    BY <1>2, <1>3 DEF Complete, JobOK
  <2>4. Left(j)
    BY <1>2, <2>2 DEF Left
  <2>5. at[w].pc = "complete"
    BY <1>3 DEF Complete
  <2> QED BY <2>1, <2>3, <2>4, <2>5
<1>4. CASE Fail(w)
  <2>1. Moved(w) /\ at'[w] = Idle
    BY <1>1, <1>4, Moving DEF Fail
  <2>2. job' = job \/ job' = [job EXCEPT ![j] = [@ EXCEPT !.status = "FAILED", !.transient = at[w].passing]]
    BY <1>2, <1>4 DEF Fail, JobOK
  <2>3. at[w].passing \in BOOLEAN /\ at[w].pc = "fail"
    BY <1>1, <1>4 DEF Fail, Work
  <2>4. Left(j)
    <3>1. CASE queue[j].tries + 1 < MaxTries
      <4>1. queue[j].tries + 1 \in 0..MaxTries
        BY <1>2, <3>1, ProfileSyncAssumption
      <4>2. queue' = [queue EXCEPT ![j] = [state |-> "waiting", tries |-> queue[j].tries + 1]]
        BY <1>4, <3>1 DEF Fail
      <4> QED BY <4>1, <4>2 DEF Left
    <3>2. CASE ~(queue[j].tries + 1 < MaxTries)
      <4>1. queue' = [queue EXCEPT ![j] = [state |-> "kept", tries |-> queue[j].tries]]
        BY <1>4, <3>2 DEF Fail
      <4> QED BY <1>2, <4>1 DEF Left
    <3> QED BY <3>1, <3>2
  <2> QED BY <2>1, <2>2, <2>3, <2>4
<1> QED BY <1>3, <1>4

-----------------------------------------------------------------------------
(* Types, and one worker to a job                                          *)

\* Only jobs that were created are queued, worked on or forced.
Known ==
    /\ \A j \in Jobs : queue[j].state # "none" => Created(j)
    /\ \A w \in SyncWorkers : Busy(w) => Created(at[w].job)
    /\ forcing # 0 => Created(forcing)

\* The first tier of the inductive invariant: types, and that the queue and the workers agree on who
\* holds which job.
Shaped == AtOK /\ JobOK /\ QueueOK /\ RestOK /\ Known /\ OneWorkerEach

\* Jobs stay, and keep their action and their target.
JobsStay ==
    \A j \in Jobs : Created(j) =>
        /\ Created(j)' /\ job'[j].action = job[j].action /\ job'[j].target = job[j].target

\* The workers stay with their jobs.
SameJobs ==
    \A v \in SyncWorkers : /\ Busy(v)' <=> Busy(v)
                           /\ Busy(v) => at'[v].job = at[v].job
\* No job becomes held, or stops being held, by this step.
SameActive ==
    \A j \in Jobs : /\ queue'[j].state = "active" <=> queue[j].state = "active"
                    /\ queue'[j].state # "none" => queue[j].state # "none" \/ Created(j)'

\* Scheduling a job keeps the table and the queue in their types and their jobs as they are.
LEMMA HiredShape ==
  ASSUME JobOK, QueueOK, Known,
         NEW a \in {"CREATE", "UPDATE", "DELETE"}, NEW t \in 0..MaxProfiles,
         NEW rows \in [Jobs -> Job \cup {NoJob}],
         \A j \in Jobs : Created(j) => /\ rows[j] # NoJob
                                       /\ rows[j].action = job[j].action /\ rows[j].target = job[j].target,
         Hired(a, t, rows)
  PROVE  JobOK' /\ QueueOK' /\ JobsStay /\ SameActive
<1>1. PICK k \in Jobs : /\ ~Created(k)
                        /\ job' = [rows EXCEPT ![k] = NewJob(a, t)]
                        /\ queue' \in {queue, [queue EXCEPT ![k] = Added(queue[k])]}
  BY DEF Hired
<1>2. NewJob(a, t) \in Job /\ NewJob(a, t) # NoJob
  BY NewJobTyped
<1>3. JobOK'
  BY <1>1, <1>2 DEF JobOK
<1>4. JobsStay /\ Created(k)'
  BY <1>1, <1>2 DEF JobsStay, Created
<1>5. queue[k].state = "none"
  BY <1>1 DEF Known
<1>6. queue' \in {queue, [queue EXCEPT ![k] = [state |-> "waiting", tries |-> 0]]}
  BY <1>1, <1>5 DEF Added
<1>7. QueueOK'
  BY <1>6, Numbers DEF QueueOK
<1>8. SameActive
  BY <1>4, <1>5, <1>6 DEF SameActive, QueueOK
<1> QED BY <1>3, <1>4, <1>7, <1>8

\* The rows themselves will do for the rows.
LEMMA HiredNow ==
  ASSUME JobOK, QueueOK, Known,
         NEW a \in {"CREATE", "UPDATE", "DELETE"}, NEW t \in 0..MaxProfiles, Hired(a, t, job)
  PROVE  JobOK' /\ QueueOK' /\ JobsStay /\ SameActive
<1>1. job \in [Jobs -> Job \cup {NoJob}]
  BY DEF JobOK
<1>2. PICK rows \in [Jobs -> Job \cup {NoJob}] : rows = job
  BY <1>1
<1>3. Hired(a, t, rows)
  BY <1>2
<1>4. \A j \in Jobs : Created(j) => /\ rows[j] # NoJob
                                    /\ rows[j].action = job[j].action /\ rows[j].target = job[j].target
  BY <1>2 DEF Created
<1> QED BY <1>3, <1>4, HiredShape

\* Nothing happens to the rows or the queue.
LEMMA JobsUnchanged ==
  ASSUME JobOK, QueueOK, job' = job, queue' = queue
  PROVE  JobOK' /\ QueueOK' /\ JobsStay /\ SameActive
BY DEF JobOK, QueueOK, JobsStay, SameActive, Created

\* A row changes its status and what goes with it.
LEMMA OneRow ==
  ASSUME JobOK, NEW j \in Jobs, NEW r \in Job, r.action = job[j].action, r.target = job[j].target,
         job' = [job EXCEPT ![j] = r]
  PROVE  JobOK' /\ JobsStay
BY DEF JobOK, JobsStay, Created, Job, NoJob

\* A worker that goes on with its job changes nothing of who holds which job.
LEMMA MovedOn ==
  ASSUME AtOK, NEW w \in SyncWorkers, Moved(w), at'[w] # Idle
  PROVE  SameJobs /\ AtOK'
BY DEF AtOK, Moved, SameJobs, Busy

\* A worker that lets its job go is at rest, and the rest is as it was.
LEMMA MovedOff ==
  ASSUME AtOK, NEW w \in SyncWorkers, Moved(w), at'[w] = Idle
  PROVE  AtOK' /\ ~Busy(w)' /\ \A v \in SyncWorkers : v # w => (Busy(v)' <=> Busy(v)) /\ at'[v] = at[v]
BY DEF AtOK, Moved, Busy

\* Nothing changes hands.
LEMMA SameHands ==
  ASSUME OneWorkerEach, Known, JobsStay, SameJobs, SameActive, AtOK,
         forcing' \in {0, forcing}, forcing \in 0..MaxJobs
  PROVE  OneWorkerEach' /\ Known'
<1>1. OneWorkerEach'
  BY DEF OneWorkerEach, SameJobs, SameActive, Busy
<1>2. \A w \in SyncWorkers : Busy(w) => at[w].job \in Jobs
  BY AtWork
<1>3. \A w \in SyncWorkers : Busy(w)' => Created(at[w].job)'
  BY <1>2 DEF SameJobs, JobsStay, Known, Created
<1>4. forcing # 0 => forcing \in Jobs
  BY Numbers DEF Jobs
<1>5. forcing' # 0 => Created(forcing)'
  BY <1>4 DEF Known, JobsStay, Created
<1>6. \A j \in Jobs : queue'[j].state # "none" => Created(j)'
  BY DEF SameActive, JobsStay, Known
<1> QED BY <1>1, <1>3, <1>5, <1>6 DEF Known

\* A job is left.
LEMMA HandsOff ==
  ASSUME OneWorkerEach, Known, JobsStay, AtOK, QueueOK, RestOK, NEW w \in SyncWorkers,
         Moved(w), at'[w] = Idle, Left(at[w].job), UNCHANGED forcing
  PROVE  OneWorkerEach' /\ Known' /\ QueueOK' /\ AtOK'
<1> DEFINE j == at[w].job
<1>1. j \in Jobs /\ Busy(w)
  BY AtWork DEF Moved
<1>2. PICK s \in {"waiting", "kept"}, n \in 0..MaxTries : queue' = [queue EXCEPT ![j] = [state |-> s, tries |-> n]]
  BY DEF Left
<1>3. QueueOK'
  BY <1>1, <1>2 DEF QueueOK
<1>4. AtOK' /\ ~Busy(w)' /\ \A v \in SyncWorkers : v # w => (Busy(v)' <=> Busy(v)) /\ at'[v] = at[v]
  BY MovedOff
<1>5. /\ queue'[j].state # "active"
      /\ \A i \in Jobs : i # j => queue'[i] = queue[i]
  BY <1>1, <1>2 DEF QueueOK
<1>6. \A v \in SyncWorkers : Busy(v) /\ at[v].job = j => v = w
  BY <1>1 DEF OneWorkerEach, Busy
<1>7. OneWorkerEach'
  <2>1. \A i \in Jobs : i # j => (queue'[i].state = "active" <=> \E v \in SyncWorkers : Busy(v)' /\ at'[v].job = i)
    <3> SUFFICES ASSUME NEW i \in Jobs, i # j
                 PROVE  queue'[i].state = "active" <=> \E v \in SyncWorkers : Busy(v)' /\ at'[v].job = i
      OBVIOUS
    <3>1. queue'[i].state = "active" <=> \E v \in SyncWorkers : Busy(v) /\ at[v].job = i
      BY <1>5 DEF OneWorkerEach, Busy
    <3> QED BY <3>1, <1>4
  <2>2. ~\E v \in SyncWorkers : Busy(v)' /\ at'[v].job = j
    BY <1>4, <1>6
  <2>3. \A v, u \in SyncWorkers : Busy(v)' /\ Busy(u)' /\ at'[v].job = at'[u].job => v = u
    BY <1>4 DEF OneWorkerEach, Busy
  <2> QED BY <2>1, <2>2, <2>3, <1>5 DEF OneWorkerEach, Busy
<1>8. Known'
  <2>1. \A i \in Jobs : queue'[i].state # "none" => Created(i)'
    BY <1>1, <1>5 DEF Known, JobsStay
  <2>2. \A v \in SyncWorkers : Busy(v) => at[v].job \in Jobs
    BY AtWork
  <2>3. \A v \in SyncWorkers : Busy(v)' => Created(at[v].job)'
    BY <1>4, <2>2 DEF Known, JobsStay, Created
  <2>4. forcing # 0 => forcing \in Jobs
    BY Numbers DEF Jobs, RestOK
  <2>5. forcing' # 0 => Created(forcing)'
    BY <2>4 DEF Known, JobsStay, Created
  <2> QED BY <2>1, <2>3, <2>5 DEF Known
<1> QED BY <1>3, <1>4, <1>7, <1>8

\* What a worker's step leaves alone.
LEMMA WorkerLeaves ==
  ASSUME NEW w \in SyncWorkers, SyncStep(w) \/ \E j \in Jobs : Pick(w, j)
  PROVE  UNCHANGED <<scenario, forcing, over, scanned, cleaning, events, env, decided, overwritten, wedged>>
BY DEF SyncStep, Claim, Reload, Create, Link, Patch, Detach, Recheck, Ensure, Delete, Retire, Complete,
   Fail, Pick, workerRest, crons

\* A worker's step keeps the first tier.
LEMMA WorkerShaped ==
  ASSUME Shaped, NEW w \in SyncWorkers, SyncStep(w)
  PROVE  Shaped' /\ JobsStay
<1>1. Busy(w) /\ at[w] \in Work /\ at[w].job \in Jobs /\ Created(at[w].job) /\ job[at[w].job] \in Job
  BY Stepping, AtWork, IsJob DEF Shaped, Known
<1>2. UNCHANGED <<scenario, forcing, over, scanned, cleaning, events, decided, overwritten, wedged>>
  BY WorkerLeaves
<1> DEFINE Rest == RestOK'
           Hands == OneWorkerEach' /\ Known' /\ AtOK' /\ JobOK' /\ QueueOK' /\ JobsStay
<1>3. ASSUME Moved(w), at'[w] # Idle, JobOK', QueueOK', JobsStay, SameActive PROVE Hands
  BY <1>2, <1>3, MovedOn, SameHands DEF Shaped, RestOK
<1>4. ASSUME Moved(w), at'[w] # Idle, job' = job, queue' = queue PROVE Hands
  BY <1>3, <1>4, JobsUnchanged DEF Shaped
<1>5. ASSUME Moved(w), at'[w] = Idle, Left(at[w].job), JobOK', JobsStay PROVE Hands
  BY <1>2, <1>5, HandsOff DEF Shaped
<1>6. ASSUME NEW s \in Pcs, At(w, s) PROVE at'[w] # Idle
  <2>1. at'[w].pc = s
    BY <1>1, <1>6 DEF At, Work
  <2> QED BY <2>1 DEF Idle, Pcs
<1>7. AtFail(w) => at'[w] # Idle
  BY <1>1 DEF AtFail, Work, Idle
<1>8. RestOK
  BY DEF Shaped
<1>9. CASE Claim(w)
  <2>1. Rest
    BY <1>2, <1>8, <1>9 DEF Claim, RestOK
  <2>2. CASE job' = job /\ Done(w) /\ at'[w] = Idle
    <3>1. \E n \in 0..MaxTries : [queue[at[w].job] EXCEPT !.state = "kept"] = [state |-> "kept", tries |-> n]
      BY <1>1 DEF Shaped, QueueOK
    <3>2. Left(at[w].job)
      BY <2>2, <3>1 DEF Done, Left
    <3>3. JobOK' /\ JobsStay
      BY <2>2 DEF JobOK, JobsStay, Created, Shaped
    <3>4. Moved(w)
      BY <1>1, <1>9, ClaimEffect DEF Shaped
    <3> QED BY <1>5, <2>1, <2>2, <3>2, <3>3, <3>4 DEF Shaped
  <2>3. CASE /\ job' = [job EXCEPT ![at[w].job] = [@ EXCEPT !.status = "RUNNING", !.lease = w]]
             /\ At(w, Handler(at[w].job, at[w].cur))
             /\ queue' = queue
    <3>1. Handler(at[w].job, at[w].cur) \in Pcs
      BY DEF Handler, Pcs
    <3>2. at'[w] # Idle
      BY <1>6, <2>3, <3>1
    <3>3. PICK r \in Job : r = [job[at[w].job] EXCEPT !.status = "RUNNING", !.lease = w]
      BY <1>1 DEF Job
    <3>4. r.action = job[at[w].job].action /\ r.target = job[at[w].job].target
          /\ job' = [job EXCEPT ![at[w].job] = r]
      BY <1>1, <2>3, <3>3 DEF Job
    <3>5. JobOK' /\ JobsStay
      BY <1>1, <3>4, OneRow DEF Shaped
    <3>6. QueueOK' /\ SameActive
      BY <2>3 DEF QueueOK, SameActive, Shaped
    <3>7. Moved(w)
      BY <1>1, <1>9, ClaimEffect DEF Shaped
    <3> QED BY <1>3, <2>1, <3>2, <3>5, <3>6, <3>7 DEF Shaped
  <2> QED BY <1>1, <1>9, <2>2, <2>3, ClaimEffect DEF Shaped
<1>10. CASE Reload(w)
  <2>1. Rest /\ job' = job /\ queue' = queue
    BY <1>2, <1>8, <1>10 DEF Reload, RestOK
  <2>2. Moved(w) /\ at'[w] # Idle
    BY <1>1, <1>10, ReloadEffect DEF Shaped, Work, Idle
  <2> QED BY <1>4, <2>1, <2>2 DEF Shaped
<1>11. CASE Create(w)
  <2>1. job' = job /\ queue' = queue /\ UNCHANGED <<row, condemned>>
    BY <1>11 DEF Create
  <2>2. Moved(w) /\ at'[w] # Idle
    BY <1>1, <1>7, <1>11, CreateEffect DEF Shaped, Work, Idle
  <2>3. at[w].cur.term \in 0..MaxTerm
    BY <1>1 DEF Work, Row
  <2>4. panel' \in [id : 0..MaxProfiles, term : 0..MaxTerm] /\ profiles' \in 0..MaxProfiles
        /\ panel'.id <= profiles' /\ adopted' \in BOOLEAN /\ orphaned' \in BOOLEAN
    <3>1. CASE UNCHANGED <<panel, profiles, orphaned, adopted>>
      BY <1>8, <3>1 DEF RestOK
    <3>2. CASE UNCHANGED <<panel, profiles, orphaned>> /\ adopted' = (adopted \/ panel.term # row.term)
      BY <1>8, <3>2 DEF RestOK
    <3>3. CASE /\ profiles < MaxProfiles
               /\ profiles' = profiles + 1 /\ panel' = [id |-> profiles', term |-> at[w].cur.term]
               /\ UNCHANGED adopted /\ orphaned' \in {orphaned, TRUE}
      <4>1. profiles + 1 \in 0..MaxProfiles
        BY <1>8, <3>3, Numbers DEF RestOK
      <4>2. PICK n \in 0..MaxProfiles : n = profiles + 1
        BY <4>1
      <4>3. panel' = [id |-> n, term |-> at[w].cur.term] /\ profiles' = n
        BY <3>3, <4>2
      <4>4. panel' \in [id : 0..MaxProfiles, term : 0..MaxTerm] /\ panel'.id <= profiles'
        BY <2>3, <4>3, Numbers
      <4>5. adopted' \in BOOLEAN /\ orphaned' \in BOOLEAN
        BY <1>8, <3>3 DEF RestOK
      <4> QED BY <4>3, <4>4, <4>5
    <3> QED BY <1>8, <1>11, <3>1, <3>2, <3>3, CreateEffect DEF Shaped
  <2>5. Rest
    BY <1>2, <1>8, <2>1, <2>4 DEF RestOK
  <2> QED BY <1>4, <2>1, <2>2, <2>5 DEF Shaped
<1>12. CASE Link(w)
  <2>1. at[w].found \in 0..MaxProfiles
    BY <1>1 DEF Work
  <2>2. Rest
    <3>1. row' \in Row
      BY <1>8, <1>12, <2>1, LinkEffect DEF Shaped, RestOK, Row
    <3> QED BY <1>2, <1>8, <1>12, <3>1 DEF Link, RestOK
  <2>3. CASE Hired("DELETE", at[w].found, job)
    <3>1. JobOK' /\ QueueOK' /\ JobsStay /\ SameActive
      BY <2>1, <2>3, HiredNow DEF Shaped
    <3> QED BY <1>3, <1>12, <2>2, <3>1, LinkEffect DEF Shaped
  <2>4. CASE job' = job /\ queue' = queue
    BY <1>4, <1>12, <2>2, <2>4, LinkEffect DEF Shaped
  <2> QED BY <1>12, <2>3, <2>4, LinkEffect DEF Shaped
<1>13. CASE Patch(w)
  <2>1. job' = job /\ queue' = queue /\ UNCHANGED <<row, profiles, condemned, orphaned>>
    BY <1>13 DEF Patch
  <2>2. Moved(w) /\ at'[w] # Idle
    BY <1>6, <1>7, <1>13, PatchEffect DEF Shaped, Pcs
  <2>3. at[w].cur.term \in 0..MaxTerm
    BY <1>1 DEF Work, Row
  <2>4. panel' \in [id : 0..MaxProfiles, term : 0..MaxTerm] /\ panel'.id = panel.id /\ adopted' \in BOOLEAN
    BY <1>8, <1>13, <2>3, PatchEffect DEF Shaped, RestOK
  <2>5. Rest
    BY <1>2, <1>8, <2>1, <2>4 DEF RestOK
  <2> QED BY <1>4, <2>1, <2>2, <2>5 DEF Shaped
<1>14. CASE Detach(w)
  <2>1. job' = job /\ queue' = queue /\ Moved(w) /\ row' \in Row
        /\ UNCHANGED <<panel, profiles, condemned, orphaned, adopted>>
    BY <1>14, DetachEffect DEF Detach, Shaped
  <2>2. at'[w] # Idle
    BY <1>1, <1>14, DetachEffect DEF Shaped, AtWith, Work, Idle
  <2>3. Rest
    BY <1>2, <1>8, <2>1 DEF RestOK
  <2> QED BY <1>4, <2>1, <2>2, <2>3 DEF Shaped
<1>15. CASE Recheck(w)
  <2>1. Rest /\ job' = job /\ queue' = queue
    BY <1>2, <1>8, <1>15 DEF Recheck, RestOK
  <2>2. Moved(w) /\ at'[w] # Idle
    <3>1. \A n : at'[w] = [at[w] EXCEPT !.cur = row, !.round = n,
                                        !.pc = IF row.link = 0 THEN "create" ELSE "patch"] => at'[w] # Idle
      BY <1>1 DEF Work, Idle
    <3> QED BY <1>6, <1>7, <1>15, <3>1, RecheckEffect DEF Shaped, Pcs
  <2> QED BY <1>4, <2>1, <2>2 DEF Shaped
<1>16. CASE Ensure(w)
  <2>1. at[w].cur.link \in 0..MaxProfiles
    BY <1>1 DEF Work, Row
  <2>2. Rest
    BY <1>2, <1>8, <1>16 DEF Ensure, RestOK
  <2>3. Moved(w) /\ at'[w] # Idle
    BY <1>6, <1>7, <1>16, EnsureEffect DEF Shaped, Pcs
  <2>4. CASE Hired("DELETE", at[w].cur.link, job)
    <3>1. JobOK' /\ QueueOK' /\ JobsStay /\ SameActive
      BY <2>1, <2>4, HiredNow DEF Shaped
    <3> QED BY <1>3, <2>2, <2>3, <3>1 DEF Shaped
  <2>5. CASE job' = job /\ queue' = queue
    BY <1>4, <2>2, <2>3, <2>5 DEF Shaped
  <2> QED BY <1>16, <2>4, <2>5, EnsureEffect DEF Shaped
<1>17. CASE Delete(w)
  <2>1. job' = job /\ queue' = queue /\ UNCHANGED <<row, profiles, condemned, orphaned, adopted>>
    BY <1>17 DEF Delete
  <2>2. Moved(w) /\ at'[w] # Idle
    BY <1>6, <1>7, <1>17, DeleteEffect DEF Shaped, Pcs
  <2>3. panel' \in {panel, [id |-> 0, term |-> 0]}
    BY <1>17, DeleteEffect DEF Shaped, Emptied
  <2>4. panel' \in [id : 0..MaxProfiles, term : 0..MaxTerm] /\ panel'.id <= profiles
    BY <1>8, <2>3, Numbers DEF RestOK
  <2>5. Rest
    BY <1>2, <1>8, <2>1, <2>4 DEF RestOK
  <2> QED BY <1>4, <2>1, <2>2, <2>5 DEF Shaped
<1>18. CASE Retire(w)
  <2>1. job' = job /\ queue' = queue /\ UNCHANGED <<panel, profiles, condemned, orphaned, adopted>>
    BY <1>18 DEF Retire
  <2>2. Moved(w) /\ at'[w] # Idle
    BY <1>6, <1>18, RetireEffect DEF Shaped, Pcs
  <2>3. row' \in Row
    BY <1>8, <1>18, RetireEffect, Numbers DEF Shaped, RestOK, Row
  <2>4. Rest
    BY <1>2, <1>8, <2>1, <2>3 DEF RestOK
  <2> QED BY <1>4, <2>1, <2>2, <2>4 DEF Shaped
<1>19. CASE Complete(w) \/ Fail(w)
  <2>1. Rest
    BY <1>2, <1>8, <1>19 DEF Complete, Fail, RestOK
  <2>2. JobOK' /\ JobsStay
    <3> DEFINE j == at[w].job
    <3>1. CASE job' = job
      BY <3>1 DEF JobOK, JobsStay, Created, Shaped
    <3>2. CASE job' = [job EXCEPT ![j] = [@ EXCEPT !.status = "COMPLETED"]]
      <4>1. PICK r \in Job : r = [job[j] EXCEPT !.status = "COMPLETED"]
        BY <1>1 DEF Job
      <4>2. r.action = job[j].action /\ r.target = job[j].target /\ job' = [job EXCEPT ![j] = r]
        BY <1>1, <3>2, <4>1 DEF Job
      <4> QED BY <1>1, <4>2, OneRow DEF Shaped
    <3>3. ASSUME NEW b \in BOOLEAN, job' = [job EXCEPT ![j] = [@ EXCEPT !.status = "FAILED", !.transient = b]]
          PROVE  JobOK' /\ JobsStay
      <4>1. PICK r \in Job : r = [job[j] EXCEPT !.status = "FAILED", !.transient = b]
        BY <1>1 DEF Job
      <4>2. r.action = job[j].action /\ r.target = job[j].target /\ job' = [job EXCEPT ![j] = r]
        BY <1>1, <3>3, <4>1 DEF Job
      <4> QED BY <1>1, <4>2, OneRow DEF Shaped
    <3> QED BY <1>1, <1>19, <3>1, <3>2, <3>3, ClosingEffect DEF Shaped
  <2> QED BY <1>1, <1>5, <1>19, <2>1, <2>2, ClosingEffect DEF Shaped
<1> QED BY <1>9, <1>10, <1>11, <1>12, <1>13, <1>14, <1>15, <1>16, <1>17, <1>18, <1>19 DEF SyncStep

\* In every step of a worker that worker is the one that moves.
LEMMA WorkerMoves ==
  ASSUME Shaped, NEW w \in SyncWorkers, SyncStep(w)
  PROVE  Moved(w)
<1>1. Created(at[w].job)
  BY Stepping DEF Shaped, Known
<1> QED BY <1>1, ClaimEffect, ReloadEffect, CreateEffect, LinkEffect, PatchEffect, DetachEffect, RecheckEffect,
        EnsureEffect, DeleteEffect, RetireEffect, ClosingEffect DEF SyncStep, Shaped

\* Superseding changes nothing else.
LEMMA RetiredRows ==
  ASSUME JobOK
  PROVE  /\ Retired \in [Jobs -> Job \cup {NoJob}]
         /\ \A j \in Jobs : ~Created(j) => Retired[j] = job[j]
         /\ \A j \in Jobs : Created(j) =>
              /\ Retired[j] # NoJob
              /\ Retired[j].action = job[j].action /\ Retired[j].target = job[j].target
              /\ Retired[j].status = job[j].status
              /\ job[j].action = "DELETE" => Retired[j] = job[j]
<1> SUFFICES ASSUME NEW j \in Jobs
             PROVE  /\ Retired[j] \in Job \cup {NoJob}
                    /\ ~Created(j) => Retired[j] = job[j]
                    /\ Created(j) => /\ Retired[j] # NoJob
                                     /\ Retired[j].action = job[j].action /\ Retired[j].target = job[j].target
                                     /\ Retired[j].status = job[j].status
                                     /\ job[j].action = "DELETE" => Retired[j] = job[j]
  BY DEF Retired
<1>1. CASE Created(j) /\ job[j].action # "DELETE" /\ job[j].status \in Open
  <2>1. job[j] \in Job /\ Retired[j] = [job[j] EXCEPT !.superseded = TRUE]
    BY <1>1, IsJob DEF Retired
  <2>2. Retired[j] \in Job
    BY <2>1 DEF Job
  <2> QED BY <1>1, <2>1, <2>2 DEF Job, NoJob
<1>2. CASE ~(Created(j) /\ job[j].action # "DELETE" /\ job[j].status \in Open)
  <2>1. Retired[j] = job[j]
    BY <1>2 DEF Retired
  <2> QED BY <1>2, <2>1 DEF JobOK, Created
<1> QED BY <1>1, <1>2

\* A deletion: of a profile that is linked, a job is made.
LEMMA DeleteRowShape ==
  ASSUME Shaped, DeleteRow
  PROVE  JobOK' /\ QueueOK' /\ JobsStay /\ SameActive /\ row' \in Row
<1>1. row' \in Row /\ row.link \in 0..MaxProfiles
  BY DEF DeleteRow, Shaped, RestOK, Row
<1>2. PICK rows \in [Jobs -> Job \cup {NoJob}] : rows = Retired
  BY RetiredRows DEF Shaped
<1>3. \A j \in Jobs : Created(j) =>
        rows[j] # NoJob /\ rows[j].action = job[j].action /\ rows[j].target = job[j].target
  BY <1>2, RetiredRows DEF Shaped
<1>4. CASE row.link # 0
  <2>1. PICK t \in 0..MaxProfiles : t = row.link
    BY <1>1
  <2>2. Hired("DELETE", t, rows)
    BY <1>2, <1>4, <2>1, Scheduling DEF DeleteRow
  <2> QED BY <1>1, <1>3, <2>2, HiredShape DEF Shaped
<1>5. CASE row.link = 0
  <2>1. job' = rows /\ queue' = queue
    BY <1>2, <1>5 DEF DeleteRow
  <2> QED BY <1>1, <1>3, <2>1 DEF Shaped, JobOK, QueueOK, JobsStay, SameActive, Created
<1> QED BY <1>4, <1>5

\* What the subscription goes through.
Outside == \/ Renew \/ Disable \/ Remove \/ TermEnds \/ ScanExpired \/ MarkExpired
           \/ PickExpired \/ Cleanup \/ PanelEvent \/ \E e \in events : HearEvent(e)

\* What the users, the sweeps and the panel's events do keeps the first tier.
LEMMA OutsideShaped ==
  ASSUME Shaped, Outside
  PROVE  Shaped' /\ JobsStay
<1> DEFINE Jobwise == JobOK' /\ QueueOK' /\ JobsStay /\ SameActive
<1>1. at' = at /\ forcing' = forcing
  BY DEF Outside, Renew, Disable, Remove, TermEnds, ScanExpired, MarkExpired, PickExpired, Cleanup, PanelEvent,
         HearEvent, crons
<1>2. RestOK
  BY DEF Shaped
<1>3. ASSUME RestOK', Jobwise PROVE Shaped' /\ JobsStay
  <2>1. AtOK' /\ SameJobs
    BY <1>1 DEF Shaped, AtOK, SameJobs, Busy
  <2> QED BY <1>1, <1>2, <1>3, <2>1, SameHands DEF Shaped, RestOK
<1>4. ASSUME job' = job, queue' = queue PROVE Jobwise
  BY <1>4, JobsUnchanged DEF Shaped
<1>5. ASSUME NEW a \in {"CREATE", "UPDATE", "DELETE"}, NEW t \in 0..MaxProfiles, Schedule(a, t, job) PROVE Jobwise
  BY <1>5, Scheduling, HiredNow DEF Shaped
<1>6. CASE Renew
  <2>1. SyncAction \in {"CREATE", "UPDATE", "DELETE"}
    BY DEF SyncAction
  <2>2. row.term + 1 \in 0..MaxTerm
    BY <1>2, <1>6, Numbers DEF Renew, RestOK, Row
  <2>3. row' \in Row
    BY <1>2, <1>6, <2>2 DEF Renew, RestOK, Row
  <2>4. RestOK'
    BY <1>2, <1>6, <2>3 DEF Renew, RestOK, crons, history
  <2> QED BY <1>3, <1>5, <1>6, <2>1, <2>4, Numbers DEF Renew
<1>7. CASE Disable
  <2>1. row' \in Row
    BY <1>2, <1>7 DEF Disable, RestOK, Row
  <2>2. RestOK'
    BY <1>2, <1>7, <2>1 DEF Disable, RestOK, crons, history
  <2> QED BY <1>3, <1>4, <1>5, <1>7, <2>2, Numbers DEF Disable
<1>8. CASE Remove
  <2>1. Jobwise /\ row' \in Row
    BY <1>8, DeleteRowShape DEF Remove
  <2>2. RestOK'
    BY <1>2, <1>8, <2>1 DEF Remove, RestOK, crons
  <2> QED BY <1>3, <2>1, <2>2
<1>9. CASE TermEnds \/ ScanExpired \/ MarkExpired \/ PickExpired \/ PanelEvent
  <2>1. job' = job /\ queue' = queue
    BY <1>9 DEF TermEnds, ScanExpired, MarkExpired, PickExpired, PanelEvent
  <2>2. ASSUME TermEnds PROVE RestOK'
    BY <1>2, <2>2 DEF TermEnds, RestOK, Row, history
  <2>3. ASSUME ScanExpired PROVE RestOK'
    BY <1>2, <2>3 DEF ScanExpired, RestOK, history
  <2>4. ASSUME MarkExpired PROVE RestOK'
    <3>1. row' \in Row
      BY <1>2, <2>4 DEF MarkExpired, RestOK, Row
    <3> QED BY <1>2, <2>4, <3>1 DEF MarkExpired, RestOK, history
  <2>5. ASSUME PickExpired PROVE RestOK'
    BY <1>2, <2>5 DEF PickExpired, RestOK, Row, history
  <2>6. ASSUME PanelEvent PROVE RestOK'
    <3>1. [id |-> panel.id, term |-> panel.term, ended |-> panel.term <= over]
            \in [id : 0..MaxProfiles, term : 0..MaxTerm, ended : BOOLEAN]
      BY <1>2 DEF RestOK
    <3> QED BY <1>2, <2>6, <3>1 DEF PanelEvent, RestOK, history
  <2> QED BY <1>3, <1>4, <1>9, <2>1, <2>2, <2>3, <2>4, <2>5, <2>6
<1>10. CASE Cleanup
  <2>1. cleaning' = Nothing
        /\ UNCHANGED <<scenario, panel, profiles, at, forcing, over, scanned, events, condemned,
                      orphaned, wedged, adopted>>
    BY <1>10 DEF Cleanup
  <2>2. CASE DeleteRow /\ decided' = (decided \/ row.term <= over) /\ UNCHANGED overwritten
    <3>1. Jobwise /\ row' \in Row
      BY <2>2, DeleteRowShape
    <3>2. RestOK'
      BY <1>2, <2>1, <2>2, <3>1 DEF RestOK
    <3> QED BY <1>3, <3>1, <3>2
  <2>3. CASE /\ row' = [row EXCEPT !.term = panel.term, !.status = "ACTIVE"]
             /\ overwritten' = (overwritten \/ panel.term < row.term \/ row.status = "DELETED")
             /\ UNCHANGED <<job, queue, decided, faults>>
    <3>1. row' \in Row
      BY <1>2, <2>3 DEF RestOK, Row
    <3>2. RestOK'
      BY <1>2, <2>1, <2>3, <3>1 DEF RestOK
    <3> QED BY <1>3, <1>4, <2>3, <3>2
  <2>4. CASE UNCHANGED <<row, job, queue, decided, overwritten, faults>>
    <3>1. RestOK'
      BY <1>2, <2>1, <2>4 DEF RestOK
    <3> QED BY <1>3, <1>4, <2>4, <3>1
  <2> QED BY <1>10, <2>2, <2>3, <2>4 DEF Cleanup
<1>11. ASSUME NEW e \in events, HearEvent(e) PROVE Shaped' /\ JobsStay
  <2>1. e \in [id : 0..MaxProfiles, term : 0..MaxTerm, ended : BOOLEAN]
    BY <1>2 DEF RestOK
  <2>2. row' \in Row /\ overwritten' \in BOOLEAN
    BY <1>2, <1>11, <2>1 DEF HearEvent, RestOK, Row
  <2>3. RestOK'
    BY <1>2, <1>11, <2>2 DEF HearEvent, RestOK
  <2> QED BY <1>3, <1>4, <1>11, <2>3 DEF HearEvent
<1> QED BY <1>6, <1>7, <1>8, <1>9, <1>10, <1>11 DEF Outside

\* What taking a job off the queue does: the worker holds it, with the row as it is, or the entry is
\* let go.
LEMMA PickEffect ==
  ASSUME Shaped, NEW w \in SyncWorkers, NEW j \in Jobs, Pick(w, j)
  PROVE  /\ queue[j].state = "waiting" /\ ~Busy(w) /\ Created(j)
         /\ \A v \in SyncWorkers : v # w => at'[v] = at[v]
         /\ \/ at' = at /\ queue' = [queue EXCEPT ![j].state = "kept"]
            \/ /\ job[j].status # "COMPLETED" /\ ~job[j].superseded
               /\ queue' = [queue EXCEPT ![j].state = "active"]
               /\ at'[w] \in Work /\ at'[w] # Idle
               /\ at'[w] = [pc |-> "claim", job |-> j, cur |-> row, round |-> 1, found |-> 0, passing |-> FALSE]
               /\ at' \in [SyncWorkers -> Work \cup {Idle}]
<1>1. queue[j].state = "waiting" /\ ~Busy(w) /\ Created(j)
  BY DEF Pick, Busy, Shaped, Known
<1> DEFINE to == [pc |-> "claim", job |-> j, cur |-> row, round |-> 1, found |-> 0, passing |-> FALSE]
<1>2. to \in Work /\ to # Idle
  BY Numbers DEF Work, Idle, Shaped, RestOK
<1> HIDE DEF to
<1>3. CASE job[j].status = "COMPLETED" \/ job[j].superseded
  BY <1>1, <1>3 DEF Pick
<1>4. CASE ~(job[j].status = "COMPLETED" \/ job[j].superseded)
  <2>1. at' = [at EXCEPT ![w] = to] /\ queue' = [queue EXCEPT ![j].state = "active"]
    BY <1>4 DEF Pick, to
  <2>2. /\ at'[w] = to /\ at' \in [SyncWorkers -> Work \cup {Idle}]
        /\ \A v \in SyncWorkers : v # w => at'[v] = at[v]
    BY <1>2, <2>1 DEF Shaped, AtOK
  <2> QED BY <1>1, <1>2, <1>4, <2>1, <2>2 DEF to
<1> QED BY <1>3, <1>4

\* Taking a job off the queue keeps the first tier.
LEMMA PickShaped ==
  ASSUME Shaped, NEW w \in SyncWorkers, NEW j \in Jobs, Pick(w, j)
  PROVE  Shaped' /\ JobsStay
<1>1. job' = job /\ RestOK' /\ forcing' = forcing
  BY WorkerLeaves DEF Pick, Shaped, RestOK, workerRest, crons
<1>2. JobOK' /\ JobsStay
  BY <1>1 DEF JobOK, JobsStay, Created, Shaped
<1>3. CASE at' = at /\ queue' = [queue EXCEPT ![j].state = "kept"]
  <2>1. QueueOK' /\ SameActive
    BY <1>3, PickEffect DEF Shaped, QueueOK, SameActive
  <2>2. AtOK' /\ SameJobs
    BY <1>3 DEF Shaped, AtOK, SameJobs, Busy
  <2> QED BY <1>1, <1>2, <2>1, <2>2, SameHands DEF Shaped, RestOK
<1>4. CASE /\ queue' = [queue EXCEPT ![j].state = "active"] /\ at'[w] \in Work /\ at'[w].job = j
           /\ at'[w] # Idle /\ at' \in [SyncWorkers -> Work \cup {Idle}]
  <2>1. QueueOK' /\ queue'[j].state = "active" /\ \A i \in Jobs : i # j => queue'[i] = queue[i]
    BY <1>4 DEF Shaped, QueueOK
  <2>2. AtOK'
    BY <1>4 DEF AtOK
  <2>3. /\ Busy(w)' /\ \A v \in SyncWorkers : v # w => at'[v] = at[v]
        /\ ~Busy(w) /\ queue[j].state # "active" /\ Created(j)
    BY <1>4, PickEffect DEF Busy
  <2>4. OneWorkerEach'
    BY <1>4, <2>1, <2>3 DEF OneWorkerEach, Busy, Shaped
  <2>5. Known'
    BY <1>1, <1>4, <2>1, <2>3 DEF Known, Busy, Created, Shaped
  <2> QED BY <1>1, <1>2, <2>1, <2>2, <2>4, <2>5 DEF Shaped
<1>5. \/ at' = at /\ queue' = [queue EXCEPT ![j].state = "kept"]
      \/ /\ queue' = [queue EXCEPT ![j].state = "active"] /\ at'[w] \in Work /\ at'[w] # Idle
         /\ at'[w] = [pc |-> "claim", job |-> j, cur |-> row, round |-> 1, found |-> 0, passing |-> FALSE]
         /\ at' \in [SyncWorkers -> Work \cup {Idle}]
  BY PickEffect
<1> QED BY <1>3, <1>4, <1>5

\* The death of the processes keeps the first tier.
LEMMA DieShaped ==
  ASSUME Shaped, Die
  PROVE  Shaped' /\ JobsStay
<1>1. job' = job /\ forcing' = 0 /\ at' = [w \in SyncWorkers |-> Idle]
      /\ queue' = [j \in Jobs |-> IF queue[j].state = "active"
                                  THEN [queue[j] EXCEPT !.state = "waiting"] ELSE queue[j]]
  BY DEF Die
<1>2. RestOK'
  <2>1. forcing \in Jobs \cup {0}
    BY Numbers DEF Shaped, RestOK, Jobs
  <2>2. wedged' \subseteq Jobs /\ orphaned' \in BOOLEAN
    BY <2>1 DEF Die, Shaped, RestOK
  <2> QED BY <2>2, Numbers DEF Die, Shaped, RestOK
<1>3. JobOK' /\ JobsStay
  BY <1>1 DEF JobOK, JobsStay, Created, Shaped
<1>4. QueueOK' /\ \A j \in Jobs : queue'[j].state # "active" /\ (queue'[j].state # "none" => queue[j].state # "none")
  BY <1>1 DEF Shaped, QueueOK
<1>5. AtOK' /\ \A w \in SyncWorkers : ~Busy(w)'
  BY <1>1 DEF AtOK, Busy
<1>6. OneWorkerEach'
  BY <1>4, <1>5 DEF OneWorkerEach, Busy
<1>7. Known'
  BY <1>1, <1>4, <1>5 DEF Known, Shaped, Created
<1> QED BY <1>2, <1>3, <1>4, <1>5, <1>6, <1>7 DEF Shaped

\* The three sweeps of the cron keep the first tier.
LEMMA CronShaped ==
  ASSUME Shaped, Cron
  PROVE  Shaped' /\ JobsStay
<1>1. at' = at /\ AtOK' /\ SameJobs
  <2>1. ASSUME \E j \in Jobs : SweepPending(j) \/ Recover(j) PROVE at' = at
    BY <2>1 DEF SweepPending, Recover, cronRest
  <2>2. ASSUME Requeue PROVE at' = at
    BY <2>2 DEF Requeue, cronRest
  <2>3. at' = at
    BY <2>1, <2>2 DEF Cron
  <2> QED BY <2>3 DEF Shaped, AtOK, SameJobs, Busy
<1>2. RestOK /\ forcing \in Jobs \cup {0}
  BY Numbers DEF Shaped, RestOK, Jobs
<1>3. ASSUME NEW j \in Jobs, SweepPending(j) PROVE Shaped' /\ JobsStay
  <2>1. Created(j) /\ job' = job /\ forcing' = forcing /\ RestOK'
    BY <1>2, <1>3 DEF SweepPending, cronRest, RestOK
  <2>2. queue' = [queue EXCEPT ![j] = [state |-> "waiting", tries |-> 0]] /\ queue[j].state = "none"
    BY <1>3 DEF SweepPending, Added
  <2>3. JobOK' /\ JobsStay
    BY <2>1 DEF JobOK, JobsStay, Created, Shaped
  <2>4. QueueOK' /\ SameActive
    BY <2>1, <2>2, Numbers DEF Shaped, QueueOK, SameActive, Created
  <2> QED BY <1>1, <1>2, <2>1, <2>3, <2>4, SameHands DEF Shaped, RestOK
<1>4. ASSUME NEW j \in Jobs, Recover(j) PROVE Shaped' /\ JobsStay
  <2>1. Created(j) /\ queue' = queue /\ forcing' = j /\ forcing = 0
    BY <1>4 DEF Recover
  <2>2. RestOK'
    BY <1>2, <1>4, <2>1, Numbers DEF Recover, cronRest, RestOK
  <2>3. job[j] \in Job
    BY <2>1, IsJob DEF Shaped
  <2>4. PICK r \in Job : r = [job[j] EXCEPT !.status = "PENDING"]
    BY <2>3 DEF Job
  <2>5. r.action = job[j].action /\ r.target = job[j].target /\ job' = [job EXCEPT ![j] = r]
    BY <1>4, <2>3, <2>4 DEF Recover, Job
  <2>6. JobOK' /\ JobsStay
    BY <2>5, OneRow DEF Shaped
  <2>7. QueueOK' /\ SameActive
    BY <2>1 DEF Shaped, QueueOK, SameActive
  <2>8. OneWorkerEach'
    BY <1>1, <2>1 DEF OneWorkerEach, Shaped
  <2>9. \A w \in SyncWorkers : Busy(w) => at[w].job \in Jobs
    BY AtWork DEF Shaped
  <2>10. Known'
    BY <1>1, <2>1, <2>6, <2>9 DEF Known, JobsStay, Created, Busy, Shaped
  <2> QED BY <1>1, <2>2, <2>6, <2>7, <2>8, <2>10 DEF Shaped
<1>5. ASSUME Requeue PROVE Shaped' /\ JobsStay
  <2>1. job' = job /\ forcing' = 0 /\ forcing \in Jobs /\ wedged' \subseteq Jobs
    BY <1>2, <1>5 DEF Requeue, cronRest, RestOK
  <2>2. RestOK'
    BY <1>2, <1>5, <2>1, Numbers DEF Requeue, cronRest, RestOK
  <2>3. JobOK' /\ JobsStay
    BY <2>1 DEF JobOK, JobsStay, Created, Shaped
  <2>4. queue' \in {queue, [queue EXCEPT ![forcing] = [state |-> "waiting", tries |-> 0]]}
        /\ (queue[forcing].state = "active" => queue' = queue)
    <3>1. [queue EXCEPT ![forcing] = queue[forcing]] = queue
      BY DEF Shaped, QueueOK
    <3> QED BY <1>5, <3>1 DEF Requeue, Forced
  <2>6. QueueOK' /\ SameActive
    <3>1. CASE queue' = queue
      BY <3>1 DEF Shaped, QueueOK, SameActive
    <3>2. CASE queue' = [queue EXCEPT ![forcing] = [state |-> "waiting", tries |-> 0]]
               /\ queue[forcing].state # "active"
      <4>1. QueueOK' /\ queue'[forcing].state = "waiting"
            /\ \A i \in Jobs : i # forcing => queue'[i] = queue[i]
        BY <2>1, <3>2, Numbers DEF Shaped, QueueOK
      <4>2. Created(forcing)
        BY <1>5 DEF Requeue, Shaped, Known
      <4> QED BY <2>1, <3>2, <4>1, <4>2 DEF SameActive, Created
    <3> QED BY <2>4, <3>1, <3>2
  <2> QED BY <1>1, <1>2, <2>1, <2>2, <2>3, <2>6, SameHands DEF Shaped, RestOK
<1> QED BY <1>3, <1>4, <1>5 DEF Cron

\* Every step keeps the first tier.
LEMMA ShapedStep ==
  ASSUME Shaped, [SyncNext]_syncVars
  PROVE  Shaped' /\ JobsStay
<1>1. CASE UNCHANGED syncVars
  BY <1>1 DEF syncVars, crons, history, env, Shaped, AtOK, JobOK, QueueOK, RestOK, Known, OneWorkerEach,
     JobsStay, Created, Busy
<1>2. CASE SyncNext
  BY <1>2, OutsideShaped, WorkerShaped, PickShaped, CronShaped, DieShaped DEF SyncNext, Outside
<1> QED BY <1>1, <1>2

\* The first tier holds at the start.
LEMMA ShapedInit == SyncInit => Shaped
<1> SUFFICES ASSUME SyncInit PROVE Shaped
  OBVIOUS
<1> USE DEF SyncInit
<1>1. AtOK /\ \A w \in SyncWorkers : ~Busy(w)
  BY DEF AtOK, Busy
<1>2. RestOK
  <2>1. row \in Row
    BY Numbers DEF Row
  <2>2. panel \in [id : 0..MaxProfiles, term : 0..MaxTerm] /\ profiles \in 0..MaxProfiles /\ panel.id <= profiles
    BY Numbers
  <2> QED BY <2>1, <2>2, Numbers DEF RestOK
<1>3. JobOK
  <2>1. NewJob("CREATE", 0) \in Job /\ NewJob("UPDATE", 0) \in Job
    BY NewJobTyped, Numbers
  <2> QED BY <2>1 DEF JobOK
<1>4. QueueOK
  BY Numbers DEF QueueOK
<1>5. OneWorkerEach
  BY <1>1 DEF OneWorkerEach, Busy
<1>6. Known
  <2>1. \A j \in Jobs : queue[j].state # "none" => j = 1 /\ scenario.start # "linked"
    OBVIOUS
  <2>2. scenario.start \in {"new", "lost", "linked"}
    BY ProfileSyncAssumption
  <2>3. scenario.start # "linked" => job[1] \in {NewJob("CREATE", 0), NewJob("UPDATE", 0)}
    BY <2>2, Numbers
  <2>4. \A j \in Jobs : queue[j].state # "none" => Created(j)
    BY <2>1, <2>3, NewJobTyped, Numbers DEF Created
  <2> QED BY <1>1, <2>4 DEF Known
<1> QED BY <1>1, <1>2, <1>3, <1>4, <1>5, <1>6 DEF Shaped

-----------------------------------------------------------------------------
(* Deletions                                                               *)

\* The steps of a job that makes or updates a profile.
Handling == {"reload", "create", "link", "patch", "detach", "recheck", "ensure"}
\* The steps of the update of a profile the row pointed at.
Linked == {"patch", "detach", "recheck", "ensure"}

\* What a worker knows: its job is not done, it works on profiles that were
\* created, and once it has deleted one that one is gone.
WorkerOK(w) ==
    /\ job[at[w].job].status # "COMPLETED"
    /\ at[w].cur.link <= profiles /\ at[w].found <= profiles
    /\ at[w].pc \in {"delete", "retire"} => Removes(at[w].job)
    /\ at[w].pc \in Handling => ~Removes(at[w].job)
    /\ at[w].pc \in Linked => at[w].cur.link # 0
    /\ at[w].pc = "link" => at[w].found # 0
    /\ at[w].pc \in {"retire", "complete"} /\ Removes(at[w].job) => panel.id # job[at[w].job].target

\* What every worker knows of the job it holds.
WorkersOK == \A w \in SyncWorkers : Busy(w) => WorkerOK(w)

\* A job that removes a profile comes of a decision, and is never superseded.
Removals ==
    \A j \in Jobs : Removes(j) =>
        /\ ~job[j].superseded
        /\ job[j].target # 0 /\ job[j].target <= profiles
        /\ decided \/ condemned

\* The link is a profile that was made, and the cleanup never read a term still to come.
RowOK ==
    /\ row.link <= profiles
    /\ cleaning # Nothing => cleaning.term <= over

\* The second tier: no removal is scheduled for another reason than the ones the code has.
Deletions == WorkersOK /\ Removals /\ RowOK /\ DeletedByDecision

\* What never goes back, and the ids the panel gives out.
Onward ==
    /\ profiles \in Nat /\ profiles' \in Nat /\ profiles <= profiles'
    /\ over \in Nat /\ over' \in Nat /\ over <= over'
    /\ decided => decided'
    /\ condemned => condemned'
    /\ panel'.id \in {panel.id, 0, profiles + 1}

\* Every step goes onward.
LEMMA GoesOnward ==
  ASSUME Shaped, [SyncNext]_syncVars
  PROVE  Onward
<1>1. /\ profiles \in Nat /\ over \in Nat /\ row.term \in Nat
      /\ decided \in BOOLEAN /\ condemned \in BOOLEAN /\ panel.id \in Nat
  BY Numbers DEF Shaped, RestOK, Row
<1>2. CASE UNCHANGED syncVars
  BY <1>1, <1>2 DEF Onward, syncVars, crons, history
<1>3. CASE Outside
  <2>1. panel' = panel /\ profiles' = profiles /\ condemned' = condemned
    BY <1>3 DEF Outside, Renew, Disable, Remove, TermEnds, ScanExpired, MarkExpired, PickExpired, Cleanup,
           PanelEvent, HearEvent, history
  <2>2. over' = over \/ (over < row.term /\ over' = row.term)
    BY <1>3 DEF Outside, Renew, Disable, Remove, TermEnds, ScanExpired, MarkExpired, PickExpired, Cleanup,
           PanelEvent, HearEvent, crons
  <2>3. decided => decided'
    <3>1. CASE Renew \/ Disable \/ Remove \/ TermEnds \/ ScanExpired \/ MarkExpired \/ PickExpired \/ PanelEvent
      BY <3>1 DEF Renew, Disable, Remove, TermEnds, ScanExpired, MarkExpired, PickExpired, PanelEvent, history
    <3>2. ASSUME Cleanup, decided PROVE decided'
      BY <3>2 DEF Cleanup
    <3>3. CASE \E e \in events : HearEvent(e)
      BY <3>3 DEF HearEvent
    <3> QED BY <1>3, <3>1, <3>2, <3>3 DEF Outside
  <2> QED BY <1>1, <2>1, <2>2, <2>3 DEF Onward
<1>4. ASSUME NEW w \in SyncWorkers, SyncStep(w) PROVE Onward
  <2>1. over' = over /\ decided' = decided
    BY <1>4, WorkerLeaves
  <2>2. condemned => condemned'
    BY <1>4 DEF SyncStep, Claim, Reload, Create, Link, Patch, Detach, Recheck, Ensure, Delete, Retire, Complete, Fail
  <2>3. CASE Create(w)
    <3>1. CASE panel' = panel /\ profiles' = profiles
      BY <1>1, <2>1, <2>2, <3>1 DEF Onward
    <3>2. CASE profiles' = profiles + 1 /\ panel' = [id |-> profiles', term |-> at[w].cur.term]
      <4>1. panel'.id = profiles + 1
        BY <3>2
      <4> QED BY <1>1, <2>1, <2>2, <3>2, <4>1 DEF Onward
    <3> QED BY <2>3, <3>1, <3>2, CreateEffect DEF Create, Shaped
  <2>4. CASE Delete(w)
    <3>1. panel'.id \in {panel.id, 0} /\ profiles' = profiles
      <4>1. panel' \in {panel, [id |-> 0, term |-> 0]} /\ profiles' = profiles
        BY <2>4, DeleteEffect DEF Delete, Shaped, Emptied
      <4> QED BY <4>1
    <3> QED BY <1>1, <2>1, <2>2, <3>1 DEF Onward
  <2>5. CASE Patch(w)
    <3>1. panel'.id = panel.id /\ profiles' = profiles
      BY <2>5 DEF Patch, Shaped, RestOK
    <3> QED BY <1>1, <2>1, <2>2, <3>1 DEF Onward
  <2>6. CASE ~(Create(w) \/ Delete(w) \/ Patch(w))
    <3>1. panel' = panel /\ profiles' = profiles
      BY <1>4, <2>6 DEF SyncStep, Claim, Reload, Link, Detach, Recheck, Ensure, Retire, Complete, Fail
    <3> QED BY <1>1, <2>1, <2>2, <3>1 DEF Onward
  <2> QED BY <2>3, <2>4, <2>5, <2>6
<1>5. ASSUME (\E w \in SyncWorkers : \E j \in Jobs : Pick(w, j)) \/ Cron \/ Die PROVE Onward
  <2>1. UNCHANGED <<panel, profiles, over, decided, condemned>>
    BY <1>5 DEF Pick, Cron, SweepPending, Recover, Requeue, Die, workerRest, cronRest, crons
  <2> QED BY <1>1, <2>1 DEF Onward
<1> QED BY <1>2, <1>3, <1>4, <1>5 DEF SyncNext, Outside

\* What a step does to the jobs: a new one is pending, and one that removes a
\* profile has its reason; done is what its worker has finished; superseded is
\* what a deletion finds.
JobChanges ==
    /\ \A j \in Jobs : ~Created(j) /\ Created(j)' =>
         /\ job'[j].status = "PENDING" /\ ~job'[j].superseded
         /\ job'[j].action = "DELETE" =>
              /\ job'[j].target # 0 /\ job'[j].target <= profiles
              /\ row'.status = "DELETED" \/ condemned'
              /\ decided' \/ condemned'
    /\ \A j \in Jobs : Created(j) =>
         /\ job[j].action = "DELETE" => job'[j].superseded = job[j].superseded
         /\ job'[j].superseded => job[j].superseded \/ row'.status = "DELETED"
         /\ job'[j].status = "COMPLETED" =>
              \/ job[j].status = "COMPLETED"
              \/ /\ panel' = panel /\ row' = row
                 /\ \E w \in SyncWorkers : Busy(w) /\ at[w].pc = "complete" /\ at[w].job = j /\ at'[w] = Idle

\* Scheduling a job, with the reason a removal needs, changes the jobs as allowed.
LEMMA HiredChanges ==
  ASSUME JobOK, NEW a, NEW t, NEW rows \in [Jobs -> Job \cup {NoJob}], Hired(a, t, rows),
         a = "DELETE" => t # 0 /\ t <= profiles /\ (row'.status = "DELETED" \/ condemned') /\ (decided' \/ condemned'),
         \A j \in Jobs : ~Created(j) => rows[j] = job[j],
         \A j \in Jobs : Created(j) => /\ job[j].action = "DELETE" => rows[j].superseded = job[j].superseded
                                       /\ rows[j].superseded => job[j].superseded \/ row'.status = "DELETED"
                                       /\ rows[j].status = job[j].status
  PROVE  JobChanges
<1>1. PICK k \in Jobs : ~Created(k) /\ job' = [rows EXCEPT ![k] = NewJob(a, t)]
  BY DEF Hired
<1>2. job'[k] = NewJob(a, t) /\ \A j \in Jobs : j # k => job'[j] = rows[j]
  BY <1>1
<1>3. ASSUME NEW j \in Jobs, j # k, Created(j)' PROVE Created(j)
  BY <1>2, <1>3 DEF Created
<1>4. job'[k].status = "PENDING" /\ ~job'[k].superseded /\ job'[k].action = a /\ job'[k].target = t
  BY <1>2 DEF NewJob
<1> QED BY <1>1, <1>2, <1>3, <1>4 DEF JobChanges

\* The same where the table is as it was.
LEMMA HiredNowChanges ==
  ASSUME JobOK, NEW a, NEW t, Hired(a, t, job),
         a = "DELETE" => t # 0 /\ t <= profiles /\ (row'.status = "DELETED" \/ condemned') /\ (decided' \/ condemned')
  PROVE  JobChanges
<1>1. PICK rows \in [Jobs -> Job \cup {NoJob}] : rows = job
  BY DEF JobOK
<1>2. Hired(a, t, rows)
  BY <1>1
<1> QED BY <1>1, <1>2, HiredChanges

\* Leaving the jobs alone changes them as allowed.
LEMMA NoChanges ==
  ASSUME job' = job
  PROVE  JobChanges
BY DEF JobChanges, Created

\* So does deleting the subscription, which supersedes what is under way and schedules the removal.
LEMMA DeleteRowChanges ==
  ASSUME Shaped, RowOK, DeleteRow, decided' \/ condemned'
  PROVE  JobChanges /\ row' = [row EXCEPT !.status = "DELETED"]
<1>1. row' = [row EXCEPT !.status = "DELETED"] /\ row'.status = "DELETED"
  BY DEF DeleteRow, Shaped, RestOK, Row
<1>2. PICK rows \in [Jobs -> Job \cup {NoJob}] : rows = Retired
  BY RetiredRows DEF Shaped
<1>3. /\ \A j \in Jobs : ~Created(j) => rows[j] = job[j]
      /\ \A j \in Jobs : Created(j) => /\ job[j].action = "DELETE" => rows[j].superseded = job[j].superseded
                                       /\ rows[j].superseded => job[j].superseded \/ row'.status = "DELETED"
                                       /\ rows[j].status = job[j].status
  BY <1>1, <1>2, RetiredRows DEF Shaped
<1>4. CASE row.link # 0
  <2>1. Hired("DELETE", row.link, rows)
    BY <1>2, <1>4, Scheduling DEF DeleteRow
  <2>2. PICK t : t = row.link
    OBVIOUS
  <2>3. Hired("DELETE", t, rows) /\ t # 0 /\ t <= profiles
    BY <1>4, <2>1, <2>2 DEF RowOK
  <2> QED BY <1>1, <1>3, <2>3, HiredChanges DEF Shaped
<1>5. CASE row.link = 0
  <2>1. job' = rows
    BY <1>2, <1>5 DEF DeleteRow
  <2>2. \A j \in Jobs : ~Created(j) => ~Created(j)'
    BY <1>3, <2>1 DEF Created
  <2> QED BY <1>1, <1>3, <2>1, <2>2 DEF JobChanges
<1> QED BY <1>1, <1>4, <1>5

\* Every step changes the jobs as allowed.
LEMMA JobsChange ==
  ASSUME Shaped, Deletions, [SyncNext]_syncVars
  PROVE  JobChanges
<1>1. JobOK
  BY DEF Shaped
<1>2. CASE UNCHANGED syncVars
  BY <1>2, NoChanges DEF syncVars
<1>3. CASE Renew
  <2>1. Schedule(SyncAction, 0, job) /\ SyncAction # "DELETE"
    BY <1>3 DEF Renew, SyncAction
  <2>2. PICK a : a = SyncAction
    OBVIOUS
  <2> QED BY <1>1, <2>1, <2>2, Scheduling, HiredNowChanges
<1>4. CASE Disable
  <2>1. job' = job \/ Schedule("UPDATE", 0, job)
    BY <1>4 DEF Disable
  <2> QED BY <1>1, <2>1, Scheduling, HiredNowChanges, NoChanges
<1>5. CASE Remove
  BY <1>5, DeleteRowChanges DEF Remove, Deletions
<1>6. CASE TermEnds \/ ScanExpired \/ MarkExpired \/ PickExpired \/ PanelEvent \/ \E e \in events : HearEvent(e)
  BY <1>6, NoChanges DEF TermEnds, ScanExpired, MarkExpired, PickExpired, PanelEvent, HearEvent
<1>7. CASE Cleanup
  <2>1. CASE DeleteRow /\ cleaning # Nothing /\ Unchanged(cleaning) /\ decided' = (decided \/ row.term <= over)
    <3>1. row.term <= over
      BY <2>1 DEF Unchanged, Deletions, RowOK
    <3> QED BY <2>1, <3>1, DeleteRowChanges DEF Deletions
  <2>2. CASE job' = job
    BY <2>2, NoChanges
  <2> QED BY <1>7, <2>1, <2>2 DEF Cleanup
<1>8. CASE \E w \in SyncWorkers : \E j \in Jobs : Pick(w, j)
  BY <1>8, NoChanges DEF Pick
<1>9. CASE Die
  BY <1>9, NoChanges DEF Die
<1>10. CASE Cron
  <2>1. CASE Requeue \/ \E j \in Jobs : SweepPending(j)
    BY <2>1, NoChanges DEF Requeue, SweepPending
  <2>2. ASSUME NEW j \in Jobs, Recover(j) PROVE JobChanges
    <3>1. job[j] \in Job
      BY <2>2, IsJob DEF Recover, Shaped
    <3>2. /\ job'[j] = [job[j] EXCEPT !.status = "PENDING"]
          /\ \A i \in Jobs : i # j => job'[i] = job[i]
      BY <2>2, <3>1 DEF Recover, Shaped, JobOK
    <3>3. job'[j] \in Job /\ job'[j].superseded = job[j].superseded /\ job'[j].status # "COMPLETED"
      BY <3>1, <3>2 DEF Job
    <3> QED BY <2>2, <3>2, <3>3 DEF Recover, JobChanges, Created
  <2> QED BY <1>10, <2>1, <2>2 DEF Cron
<1>11. ASSUME NEW w \in SyncWorkers, SyncStep(w) PROVE JobChanges
  <2>1. Busy(w) /\ at[w].job \in Jobs /\ Created(at[w].job) /\ job[at[w].job] \in Job /\ WorkerOK(w)
    BY <1>11, Stepping, AtWork, IsJob DEF Shaped, Known, Deletions, WorkersOK
  <2> DEFINE j == at[w].job
  <2>2. ASSUME NEW r \in Job, job' = [job EXCEPT ![j] = r], r.superseded = job[j].superseded,
               \/ r.status # "COMPLETED"
               \/ at[w].pc = "complete" /\ at'[w] = Idle /\ panel' = panel /\ row' = row
        PROVE  JobChanges
    <3>1. job'[j] = r /\ \A i \in Jobs : i # j => job'[i] = job[i]
      BY <2>1, <2>2 DEF Shaped, JobOK
    <3> QED BY <2>1, <2>2, <3>1 DEF JobChanges, Created
  <2>3. CASE Claim(w)
    <3>1. CASE job' = job
      BY <3>1, NoChanges
    <3>2. CASE job' = [job EXCEPT ![j] = [@ EXCEPT !.status = "RUNNING", !.lease = w]]
      <4>1. PICK r \in Job : r = [job[j] EXCEPT !.status = "RUNNING", !.lease = w]
        BY <2>1 DEF Job
      <4>2. job' = [job EXCEPT ![j] = r] /\ r.superseded = job[j].superseded /\ r.status # "COMPLETED"
        BY <2>1, <3>2, <4>1 DEF Job
      <4> QED BY <2>2, <4>2
    <3> QED BY <2>1, <2>3, <3>1, <3>2, ClaimEffect DEF Shaped
  <2>4. CASE Complete(w) \/ Fail(w)
    <3>1. panel' = panel /\ row' = row
      BY <2>4 DEF Complete, Fail
    <3>2. CASE job' = job
      BY <3>2, NoChanges
    <3>3. CASE at[w].pc = "complete" /\ job' = [job EXCEPT ![j] = [@ EXCEPT !.status = "COMPLETED"]]
      <4>1. PICK r \in Job : r = [job[j] EXCEPT !.status = "COMPLETED"]
        BY <2>1 DEF Job
      <4>2. job' = [job EXCEPT ![j] = r] /\ r.superseded = job[j].superseded
        BY <2>1, <3>3, <4>1 DEF Job
      <4>3. at'[w] = Idle
        BY <2>1, <2>4, ClosingEffect DEF Shaped
      <4> QED BY <2>2, <3>1, <3>3, <4>2, <4>3
    <3>4. ASSUME NEW b \in BOOLEAN, job' = [job EXCEPT ![j] = [@ EXCEPT !.status = "FAILED", !.transient = b]]
          PROVE  JobChanges
      <4>1. PICK r \in Job : r = [job[j] EXCEPT !.status = "FAILED", !.transient = b]
        BY <2>1 DEF Job
      <4>2. job' = [job EXCEPT ![j] = r] /\ r.superseded = job[j].superseded /\ r.status # "COMPLETED"
        BY <2>1, <3>4, <4>1 DEF Job
      <4> QED BY <2>2, <4>2
    <3> QED BY <2>1, <2>4, <3>2, <3>3, <3>4, ClosingEffect DEF Shaped
  <2>5. CASE Link(w)
    <3>1. CASE job' = job
      BY <3>1, NoChanges
    <3>2. CASE Unwanted(row.status) /\ Hired("DELETE", at[w].found, job)
      <4>1. at[w].found # 0 /\ at[w].found <= profiles
        BY <2>1, <2>5 DEF WorkerOK, Link
      <4>2. row'.status = row.status
        BY <2>5 DEF Link, Shaped, RestOK, Row
      <4>3. row.status = "DELETED" \/ condemned'
        BY <2>5, <3>2 DEF Link
      <4>4. decided' = decided /\ (condemned => condemned')
        BY <1>11, <2>5, WorkerLeaves DEF Link
      <4>5. decided' \/ condemned'
        BY <4>3, <4>4 DEF Deletions, DeletedByDecision
      <4>6. PICK t : t = at[w].found
        OBVIOUS
      <4> QED BY <1>1, <3>2, <4>1, <4>2, <4>3, <4>5, <4>6, HiredNowChanges
    <3> QED BY <2>5, <3>1, <3>2, LinkEffect DEF Shaped
  <2>6. CASE Ensure(w)
    <3>1. CASE job' = job
      BY <3>1, NoChanges
    <3>2. CASE row.status = "DELETED" /\ Hired("DELETE", at[w].cur.link, job)
      <4>1. at[w].cur.link # 0 /\ at[w].cur.link <= profiles
        BY <2>1, <2>6 DEF WorkerOK, Ensure, Linked
      <4>2. row' = row /\ condemned' = condemned /\ decided' = decided
        BY <1>11, <2>6, WorkerLeaves DEF Ensure
      <4>3. decided' \/ condemned'
        BY <3>2, <4>2 DEF Deletions, DeletedByDecision
      <4>4. PICK t : t = at[w].cur.link
        OBVIOUS
      <4> QED BY <1>1, <3>2, <4>1, <4>2, <4>3, <4>4, HiredNowChanges
    <3> QED BY <2>6, <3>1, <3>2, EnsureEffect DEF Shaped
  <2>7. CASE Reload(w) \/ Create(w) \/ Patch(w) \/ Detach(w) \/ Recheck(w) \/ Delete(w) \/ Retire(w)
    BY <2>7, NoChanges DEF Reload, Create, Patch, Detach, Recheck, Delete, Retire
  <2> QED BY <1>11, <2>3, <2>4, <2>5, <2>6, <2>7 DEF SyncStep
<1> QED BY <1>2, <1>3, <1>4, <1>5, <1>6, <1>7, <1>8, <1>9, <1>10, <1>11 DEF SyncNext

\* A worker that goes on has its job as it was.
LEMMA JobGoesOn ==
  ASSUME Shaped, Deletions, JobsStay, JobChanges, Onward,
         NEW v \in SyncWorkers, Busy(v), at'[v] # Idle, NEW j \in Jobs, j = at[v].job
  PROVE  /\ job'[j].status # "COMPLETED"
         /\ Created(j) /\ Created(j)' /\ job'[j].action = job[j].action /\ job'[j].target = job[j].target
         /\ Removes(j)' <=> Removes(j)
         /\ Removes(j) => job[j].target # 0 /\ job[j].target <= profiles /\ job[j].target \in Nat
         /\ Removes(j) /\ panel.id # job[j].target => panel'.id # job'[j].target
<1>1. Created(j) /\ job[j].status # "COMPLETED"
  BY DEF Shaped, Known, Deletions, WorkersOK, WorkerOK
<1>2. Created(j)' /\ job'[j].action = job[j].action /\ job'[j].target = job[j].target
  BY <1>1 DEF JobsStay
<1>3. job'[j].status # "COMPLETED"
  <2>1. ASSUME NEW w \in SyncWorkers, Busy(w), at[w].job = j, at'[w] = Idle PROVE FALSE
    BY <2>1 DEF Shaped, OneWorkerEach, Busy
  <2> QED BY <1>1, <2>1 DEF JobChanges
<1>4. Removes(j)' <=> Removes(j)
  BY <1>1, <1>2 DEF Removes
<1>5. Removes(j) => job[j].target # 0 /\ job[j].target <= profiles /\ job[j].target \in Nat
  BY <1>1, IsJob, Numbers DEF Deletions, Removals, Shaped, Job
<1>6. Removes(j) /\ panel.id # job[j].target => panel'.id # job'[j].target
  BY <1>2, <1>5 DEF Onward
<1> QED BY <1>1, <1>2, <1>3, <1>4, <1>5, <1>6

\* A worker that takes no step goes on knowing what it knew.
LEMMA IdleStays ==
  ASSUME Shaped, Deletions, JobsStay, JobChanges, Onward,
         NEW v \in SyncWorkers, Busy(v), at'[v] = at[v]
  PROVE  WorkerOK(v)'
<1>1. at[v] \in Work /\ at[v].job \in Jobs /\ WorkerOK(v) /\ at'[v] # Idle
  BY AtWork DEF Shaped, Deletions, WorkersOK, Busy
<1>2. PICK j \in Jobs : j = at[v].job
  BY <1>1
<1>3. /\ job'[j].status # "COMPLETED" /\ job'[j].target = job[j].target
      /\ Removes(j)' <=> Removes(j)
      /\ Removes(j) /\ panel.id # job[j].target => panel'.id # job'[j].target
  BY <1>1, <1>2, JobGoesOn
<1>4. at[v].cur.link \in Nat /\ at[v].found \in Nat
  BY <1>1, Numbers DEF Work, Row
<1>5. at[v].cur.link <= profiles' /\ at[v].found <= profiles'
  BY <1>1, <1>4 DEF WorkerOK, Onward
<1>6. Removes(at[v].job)' <=> Removes(at[v].job)
  BY <1>2, <1>3 DEF Removes, Created
<1> QED BY <1>1, <1>2, <1>3, <1>5, <1>6 DEF WorkerOK

\* What the worker who moves has to know where it comes to.
LEMMA MoverKnows ==
  ASSUME Shaped, Deletions, JobsStay, JobChanges, Onward,
         NEW w \in SyncWorkers, Moved(w), at'[w] # Idle,
         at'[w].cur.link <= profiles', at'[w].found <= profiles',
         at'[w].pc \in {"delete", "retire"} => Removes(at[w].job),
         at'[w].pc \in Handling => ~Removes(at[w].job),
         at'[w].pc \in Linked => at'[w].cur.link # 0,
         at'[w].pc = "link" => at'[w].found # 0,
         at'[w].pc \in {"retire", "complete"} /\ Removes(at[w].job) =>
             panel.id # job[at[w].job].target \/ panel'.id # job[at[w].job].target
  PROVE  WorkerOK(w)'
<1>1. at[w].job \in Jobs /\ Busy(w) /\ at'[w].job = at[w].job
  BY AtWork DEF Shaped, Moved
<1>2. PICK j \in Jobs : j = at[w].job
  BY <1>1
<1>3. /\ job'[j].status # "COMPLETED" /\ job'[j].target = job[j].target
      /\ Removes(j)' <=> Removes(j)
      /\ Removes(j) /\ panel.id # job[j].target => panel'.id # job'[j].target
  BY <1>1, <1>2, JobGoesOn
<1>4. Removes(at[w].job)' <=> Removes(at[w].job)
  BY <1>1, <1>2, <1>3 DEF Removes, Created
<1> QED BY <1>1, <1>2, <1>3, <1>4 DEF WorkerOK

\* A worker that takes a step knows, at the next one, what it has to.
LEMMA MoversKnow ==
  ASSUME Shaped, Deletions, JobsStay, JobChanges, Onward, NEW w \in SyncWorkers, SyncStep(w), at'[w] # Idle
  PROVE  WorkerOK(w)' /\ Moved(w)
<1>1. Busy(w) /\ at[w] \in Work /\ at[w].job \in Jobs /\ Created(at[w].job) /\ WorkerOK(w)
  BY Stepping, AtWork DEF Shaped, Known, Deletions, WorkersOK
<1>2. /\ at[w].cur.link \in Nat /\ at[w].found \in Nat /\ row.link \in Nat
      /\ at[w].cur.link <= profiles' /\ at[w].found <= profiles' /\ row.link <= profiles'
  <2>1. at[w].cur.link \in Nat /\ at[w].found \in Nat /\ row.link \in Nat
    BY <1>1, Numbers DEF Work, Row, Shaped, RestOK
  <2> QED BY <1>1, <2>1 DEF WorkerOK, Onward, Deletions, RowOK
<1> DEFINE Good == WorkerOK(w)' /\ Moved(w)
<1>3. ASSUME Moved(w), AtFail(w) PROVE Good
  <2>1. at'[w].pc = "fail" /\ at'[w].cur = at[w].cur /\ at'[w].found = at[w].found
    BY <1>1, <1>3 DEF AtFail, Work
  <2> QED BY <1>2, <1>3, <2>1, MoverKnows DEF Handling, Linked
<1>4. ASSUME NEW s \in Pcs, Moved(w), At(w, s),
             s \in {"delete", "retire"} => Removes(at[w].job),
             s \in Handling => ~Removes(at[w].job),
             s \in Linked => at[w].cur.link # 0,
             s # "link",
             s \in {"retire", "complete"} /\ Removes(at[w].job) =>
               panel.id # job[at[w].job].target \/ panel'.id # job[at[w].job].target
      PROVE  Good
  <2>1. at'[w].pc = s /\ at'[w].cur = at[w].cur /\ at'[w].found = at[w].found
    BY <1>1, <1>4 DEF At, Work
  <2> QED BY <1>2, <1>4, <2>1, MoverKnows
<1>5. CASE Claim(w)
  <2>1. Moved(w) /\ At(w, Handler(at[w].job, at[w].cur))
    BY <1>1, <1>5, ClaimEffect DEF Shaped
  <2>2. PICK s \in Pcs : s = Handler(at[w].job, at[w].cur)
    BY DEF Handler, Pcs
  <2>3. s \in {"delete", "create", "reload"} /\ (s = "delete" <=> Removes(at[w].job))
    BY <1>1, <2>2 DEF Handler, Removes
  <2> QED BY <1>4, <2>1, <2>2, <2>3 DEF Handling, Linked
<1>6. CASE Reload(w)
  <2>1. /\ Moved(w) /\ at'[w].cur = row /\ at'[w].found = at[w].found
        /\ at'[w].pc = IF row.link = 0 THEN "create" ELSE "patch"
    <3>1. /\ Moved(w)
          /\ at'[w] = [at[w] EXCEPT !.cur = row, !.round = 1,
                                    !.pc = IF row.link = 0 THEN "create" ELSE "patch"]
      BY <1>6, ReloadEffect DEF Shaped
    <3> QED BY <1>1, <3>1 DEF Work
  <2>2. ~Removes(at[w].job)
    BY <1>1, <1>6 DEF WorkerOK, Reload, Handling
  <2> QED BY <1>2, <2>1, <2>2, MoverKnows DEF Linked
<1>7. CASE Create(w)
  <2>1. ~Removes(at[w].job) /\ Moved(w)
    BY <1>1, <1>7, CreateEffect DEF WorkerOK, Create, Handling, Shaped
  <2>2. ASSUME NEW id, id # 0, id <= profiles', at'[w] = [at[w] EXCEPT !.pc = "link", !.found = id] PROVE Good
    <3>1. at'[w].pc = "link" /\ at'[w].cur = at[w].cur /\ at'[w].found = id
      BY <1>1, <2>2 DEF Work
    <3> QED BY <1>2, <2>1, <2>2, <3>1, MoverKnows DEF Linked
  <2>3. panel.id <= profiles' /\ (profiles' = profiles + 1 => profiles' # 0)
    BY Numbers DEF Shaped, RestOK, Onward
  <2>4. profiles' <= profiles'
    BY DEF Onward
  <2> QED BY <1>3, <1>7, <2>1, <2>2, <2>3, <2>4, CreateEffect DEF Shaped
<1>8. CASE Link(w)
  <2>1. ~Removes(at[w].job) /\ Moved(w)
    BY <1>1, <1>8, LinkEffect DEF WorkerOK, Link, Handling, Shaped
  <2> QED BY <1>3, <1>4, <1>8, <2>1, LinkEffect DEF Pcs, Handling, Linked, Shaped
<1>9. CASE Patch(w)
  <2>1. ~Removes(at[w].job) /\ Moved(w) /\ at[w].cur.link # 0
    BY <1>1, <1>9, PatchEffect DEF WorkerOK, Patch, Handling, Linked, Shaped
  <2> QED BY <1>3, <1>4, <1>9, <2>1, PatchEffect DEF Pcs, Shaped
<1>10. CASE Detach(w)
  <2>1. ~Removes(at[w].job) /\ Moved(w)
    BY <1>1, <1>10, DetachEffect DEF WorkerOK, Detach, Handling, Shaped
  <2>2. /\ at'[w].cur = row' /\ at'[w].found = at[w].found
        /\ at'[w].pc \in {"create", "reload"}
    BY <1>1, <1>10, DetachEffect DEF AtWith, Shaped, Work
  <2>3. row'.link <= profiles'
    <3>1. row' = row \/ row'.link = 0
      BY <1>10, DetachEffect DEF Shaped, RestOK, Row
    <3> QED BY <1>2, <3>1 DEF Onward
  <2> QED BY <1>2, <2>1, <2>2, <2>3, MoverKnows DEF Linked
<1>11. CASE Recheck(w)
  <2>1. ~Removes(at[w].job) /\ Moved(w) /\ at[w].cur.link # 0
    BY <1>1, <1>11, RecheckEffect DEF WorkerOK, Recheck, Handling, Linked, Shaped
  <2>2. ASSUME NEW n, at'[w] = [at[w] EXCEPT !.cur = row, !.round = n,
                                             !.pc = IF row.link = 0 THEN "create" ELSE "patch"]
        PROVE  Good
    <3>1. /\ at'[w].cur = row /\ at'[w].found = at[w].found
          /\ at'[w].pc = IF row.link = 0 THEN "create" ELSE "patch"
      BY <1>1, <2>2 DEF Work
    <3> QED BY <1>2, <2>1, <3>1, MoverKnows DEF Linked
  <2>3. CASE At(w, "ensure")
    BY <1>4, <2>1, <2>3 DEF Pcs
  <2> QED BY <1>3, <1>11, <2>1, <2>2, <2>3, RecheckEffect DEF Shaped
<1>12. CASE Ensure(w)
  <2>1. ~Removes(at[w].job) /\ Moved(w)
    BY <1>1, <1>12, EnsureEffect DEF WorkerOK, Ensure, Handling, Shaped
  <2> QED BY <1>3, <1>4, <1>12, <2>1, EnsureEffect DEF Pcs, Handling, Linked, Shaped
<1>13. CASE Delete(w)
  <2>1. Removes(at[w].job) /\ Moved(w)
    BY <1>1, <1>13, DeleteEffect DEF WorkerOK, Delete, Shaped
  <2>2. CASE panel' = Emptied(job[at[w].job].target) /\ At(w, "retire")
    <3>1. job[at[w].job].target # 0
      BY <1>1, <2>1 DEF Deletions, Removals
    <3>2. panel'.id # job[at[w].job].target
      BY <2>2, <3>1 DEF Emptied
    <3> QED BY <1>4, <2>1, <2>2, <3>2 DEF Pcs, Handling, Linked
  <2> QED BY <1>3, <1>13, <2>1, <2>2, DeleteEffect DEF Shaped
<1>14. CASE Retire(w)
  <2>1. Removes(at[w].job) /\ Moved(w) /\ At(w, "complete") /\ panel.id # job[at[w].job].target
    BY <1>1, <1>14, RetireEffect DEF WorkerOK, Retire, Shaped
  <2> QED BY <1>4, <2>1 DEF Pcs, Handling, Linked
<1>15. CASE Complete(w) \/ Fail(w)
  BY <1>1, <1>15, ClosingEffect DEF Shaped
<1> QED BY <1>5, <1>6, <1>7, <1>8, <1>9, <1>10, <1>11, <1>12, <1>13, <1>14, <1>15 DEF SyncStep

\* Without a step of its own a worker stays where it is, or starts, or dies.
LEMMA Hands ==
  ASSUME Shaped, [SyncNext]_syncVars, NEW v \in SyncWorkers
  PROVE  \/ at'[v] = at[v]
         \/ Die /\ at'[v] = Idle
         \/ SyncStep(v)
         \/ \E j \in Jobs : Pick(v, j)
<1>1. CASE UNCHANGED syncVars
  BY <1>1 DEF syncVars
<1>2. CASE Outside \/ Cron
  <2>1. ASSUME Outside PROVE at' = at
    BY <2>1 DEF Outside, Renew, Disable, Remove, TermEnds, ScanExpired, MarkExpired, PickExpired, Cleanup, PanelEvent, HearEvent
  <2>2. ASSUME Cron PROVE at' = at
    BY <2>2 DEF Cron, SweepPending, Recover, Requeue, cronRest
  <2> QED BY <1>2, <2>1, <2>2
<1>3. ASSUME Die PROVE at'[v] = Idle
  BY <1>3 DEF Die
<1>4. ASSUME NEW w \in SyncWorkers, SyncStep(w), w # v PROVE at'[v] = at[v]
  BY <1>4, WorkerMoves DEF Moved
<1>5. ASSUME NEW w \in SyncWorkers, NEW j \in Jobs, Pick(w, j), w # v PROVE at'[v] = at[v]
  BY <1>5, PickEffect
<1> QED BY <1>1, <1>2, <1>3, <1>4, <1>5 DEF SyncNext, Outside

\* How the row changes: who may link or delete it.
RowChanges ==
    \/ row' = row
    \/ row' \in Row /\ row'.link = row.link /\ row'.status # "DELETED"
    \/ /\ DeleteRow /\ row' = [row EXCEPT !.status = "DELETED"] /\ (decided' \/ condemned')
       /\ panel' = panel
    \/ \E w \in SyncWorkers : Link(w) /\ row' = [row EXCEPT !.link = at[w].found]
    \/ \E w \in SyncWorkers : Detach(w) /\ row' = [row EXCEPT !.link = 0]
    \/ \E w \in SyncWorkers :
         Retire(w) /\ row.link = job[at[w].job].target /\ row' = [row EXCEPT !.link = 0, !.status = "DELETED"]

\* Every step changes the row as allowed.
LEMMA RowMoves ==
  ASSUME Shaped, Deletions, [SyncNext]_syncVars
  PROVE  RowChanges
<1>1. row \in Row /\ row' \in Row
  BY ShapedStep DEF Shaped, RestOK
<1>2. CASE UNCHANGED syncVars
  BY <1>2 DEF syncVars, RowChanges
<1>3. CASE Renew \/ Disable \/ MarkExpired
  BY <1>1, <1>3 DEF Renew, Disable, MarkExpired, RowChanges, Row
<1>4. CASE Remove
  <2>1. DeleteRow /\ decided' = TRUE /\ panel' = panel
    BY <1>4 DEF Remove
  <2>2. row' = [row EXCEPT !.status = "DELETED"]
    BY <2>1 DEF DeleteRow
  <2> QED BY <2>1, <2>2 DEF RowChanges
<1>5. CASE TermEnds \/ ScanExpired \/ PickExpired \/ PanelEvent
  BY <1>5 DEF TermEnds, ScanExpired, PickExpired, PanelEvent, RowChanges
<1>6. CASE Cleanup
  <2>1. panel' = panel /\ cleaning # Nothing
    BY <1>6 DEF Cleanup
  <2>2. CASE DeleteRow /\ Unchanged(cleaning) /\ decided' = (decided \/ row.term <= over)
    <3>1. decided'
      BY <2>1, <2>2 DEF Unchanged, Deletions, RowOK
    <3>2. row' = [row EXCEPT !.status = "DELETED"]
      BY <2>2 DEF DeleteRow
    <3> QED BY <2>1, <2>2, <3>1, <3>2 DEF RowChanges
  <2>3. CASE row' = [row EXCEPT !.term = panel.term, !.status = "ACTIVE"]
    <3>1. row'.link = row.link /\ row'.status = "ACTIVE"
      BY <1>1, <2>3 DEF Row
    <3> QED BY <1>1, <3>1 DEF RowChanges
  <2>4. CASE row' = row
    BY <2>4 DEF RowChanges
  <2> QED BY <1>6, <2>2, <2>3, <2>4 DEF Cleanup
<1>7. ASSUME NEW e \in events, HearEvent(e) PROVE RowChanges
  <2>1. row' = row \/ (row'.link = row.link /\ row'.status # "DELETED")
    BY <1>1, <1>7 DEF HearEvent, Row
  <2> QED BY <1>1, <2>1 DEF RowChanges
<1>8. ASSUME NEW w \in SyncWorkers, SyncStep(w) PROVE RowChanges
  <2>1. CASE Link(w)
    BY <2>1 DEF Link, RowChanges
  <2>2. CASE Detach(w)
    BY <2>2 DEF Detach, RowChanges
  <2>3. CASE Retire(w)
    BY <2>3 DEF Retire, RowChanges
  <2>4. CASE Claim(w) \/ Reload(w) \/ Create(w) \/ Patch(w) \/ Recheck(w) \/ Ensure(w) \/ Delete(w) \/ Complete(w) \/ Fail(w)
    BY <2>4 DEF Claim, Reload, Create, Patch, Recheck, Ensure, Delete, Complete, Fail, RowChanges
  <2> QED BY <1>8, <2>1, <2>2, <2>3, <2>4 DEF SyncStep
<1>9. CASE (\E w \in SyncWorkers : \E j \in Jobs : Pick(w, j)) \/ Cron \/ Die
  BY <1>9 DEF Pick, Cron, SweepPending, Recover, Requeue, Die, cronRest, RowChanges
<1> QED BY <1>2, <1>3, <1>4, <1>5, <1>6, <1>7, <1>8, <1>9 DEF SyncNext

\* Every step keeps the second tier.
LEMMA DeletionsStep ==
  ASSUME Shaped, Deletions, [SyncNext]_syncVars
  PROVE  Deletions'
<1>1. Shaped' /\ JobsStay /\ JobChanges /\ Onward /\ RowChanges
  BY ShapedStep, JobsChange, GoesOnward, RowMoves
<1>2. row \in Row /\ row.link \in Nat /\ row.link <= profiles'
  BY <1>1, Numbers DEF Shaped, RestOK, Row, Deletions, RowOK, Onward
<1>3. \A w \in SyncWorkers : Busy(w) => WorkerOK(w) /\ at[w] \in Work /\ Created(at[w].job) /\ at[w].job \in Jobs
  BY AtWork DEF Deletions, WorkersOK, Shaped, Known
<1>4. WorkersOK'
  <2> SUFFICES ASSUME NEW v \in SyncWorkers, Busy(v)' PROVE WorkerOK(v)'
    BY DEF WorkersOK
  <2>1. at'[v] # Idle
    BY DEF Busy
  <2>2. CASE at'[v] = at[v]
    BY <1>1, <2>1, <2>2, IdleStays DEF Busy
  <2>3. CASE SyncStep(v)
    BY <1>1, <2>1, <2>3, MoversKnow
  <2>4. ASSUME NEW j \in Jobs, Pick(v, j) PROVE WorkerOK(v)'
    <3>1. job' = job /\ profiles' = profiles /\ row' = row
      BY <2>4 DEF Pick
    <3>2. CASE at' = at
      BY <1>1, <2>1, <3>2, IdleStays DEF Busy
    <3>3. CASE /\ job[j].status # "COMPLETED"
               /\ at'[v] = [pc |-> "claim", job |-> j, cur |-> row, round |-> 1, found |-> 0, passing |-> FALSE]
      <4>1. at'[v].pc = "claim" /\ at'[v].job = j /\ at'[v].cur = row /\ at'[v].found = 0
        BY <3>3
      <4>2. 0 <= profiles'
        BY <1>1 DEF Onward
      <4> QED BY <1>2, <3>1, <3>3, <4>1, <4>2 DEF WorkerOK, Handling, Linked
    <3> QED BY <2>4, <3>2, <3>3, PickEffect
  <2> QED BY <2>1, <2>2, <2>3, <2>4, Hands
<1>5. Removals'
  <2> SUFFICES ASSUME NEW j \in Jobs, Removes(j)'
               PROVE  /\ ~job'[j].superseded /\ job'[j].target # 0 /\ job'[j].target <= profiles'
                      /\ decided' \/ condemned'
    BY DEF Removals
  <2>1. Created(j)' /\ job'[j].action = "DELETE"
    BY DEF Removes
  <2>2. CASE Created(j)
    <3>1. Removes(j) /\ job'[j].target = job[j].target /\ job'[j].superseded = job[j].superseded
      BY <1>1, <2>1, <2>2 DEF Removes, JobsStay, JobChanges
    <3>2. job[j].target \in Nat
      BY <2>2, IsJob, Numbers DEF Shaped, Job
    <3> QED BY <1>1, <3>1, <3>2 DEF Deletions, Removals, Onward
  <2>3. CASE ~Created(j)
    <3>1. job'[j].target \in Nat
      <4>1. job'[j] \in Job
        BY <1>1, <2>1 DEF Shaped, JobOK, Created
      <4> QED BY <4>1, Numbers DEF Job
    <3> QED BY <1>1, <2>1, <2>3, <3>1 DEF JobChanges, Onward
  <2> QED BY <2>2, <2>3
<1>6. row'.link <= profiles'
  <2>1. 0 <= profiles'
    BY <1>1 DEF Onward
  <2>2. ASSUME NEW w \in SyncWorkers, Link(w), row' = [row EXCEPT !.link = at[w].found] PROVE row'.link <= profiles'
    <3>1. Busy(w)
      BY <2>2, Stepping DEF SyncStep, Shaped
    <3>2. at[w].found <= profiles /\ at[w].found \in Nat
      BY <1>3, <3>1, Numbers DEF WorkerOK, Work
    <3> QED BY <1>1, <1>2, <2>2, <3>2 DEF Onward, Row
  <2> QED BY <1>1, <1>2, <2>1, <2>2 DEF RowChanges, Row
<1>7. cleaning' # Nothing => cleaning'.term <= over'
  <2>1. cleaning' = cleaning \/ cleaning' = Nothing \/ PickExpired
    <3>1. CASE UNCHANGED syncVars
      BY <3>1 DEF syncVars, crons
    <3>2. CASE Outside
      BY <3>2 DEF Outside, Renew, Disable, Remove, TermEnds, ScanExpired, MarkExpired, Cleanup, PanelEvent, HearEvent, crons
    <3>3. ASSUME NEW w \in SyncWorkers, SyncStep(w) \/ \E j \in Jobs : Pick(w, j) PROVE cleaning' = cleaning
      BY <3>3, WorkerLeaves
    <3>4. CASE Cron \/ Die
      BY <3>4 DEF Cron, SweepPending, Recover, Requeue, Die, cronRest
    <3> QED BY <3>1, <3>2, <3>3, <3>4 DEF SyncNext, Outside
  <2>2. CASE PickExpired
    <3>1. cleaning'.term = row.term /\ row.term <= over /\ over' = over
      BY <2>2 DEF PickExpired
    <3> QED BY <3>1
  <2>3. cleaning # Nothing => cleaning.term \in Nat
    BY Numbers DEF Shaped, RestOK
  <2> QED BY <1>1, <2>1, <2>2, <2>3 DEF Onward, Deletions, RowOK
<1>8. DeletedByDecision'
  <2> SUFFICES ASSUME row'.status = "DELETED" PROVE decided' \/ condemned'
    BY DEF DeletedByDecision
  <2>1. CASE row.status = "DELETED"
    BY <1>1, <2>1 DEF Deletions, DeletedByDecision, Onward
  <2>2. ASSUME NEW w \in SyncWorkers, Retire(w) PROVE decided' \/ condemned'
    <3>1. Busy(w) /\ at[w].pc = "retire"
      BY <2>2, Stepping DEF SyncStep, Shaped, Retire
    <3>2. Removes(at[w].job) /\ at[w].job \in Jobs
      BY <1>3, <3>1 DEF WorkerOK
    <3> QED BY <1>1, <3>2 DEF Deletions, Removals, Onward
  <2> QED BY <1>1, <1>2, <2>1, <2>2 DEF RowChanges, Row
<1> QED BY <1>4, <1>5, <1>6, <1>7, <1>8 DEF Deletions, RowOK

-----------------------------------------------------------------------------
(* A deletion stays on record                                              *)

\* A removal that is scheduled is one that is under way.
LEMMA HiredRemoval ==
  ASSUME NEW t, NEW rows \in [Jobs -> Job \cup {NoJob}], Hired("DELETE", t, rows)
  PROVE  Removing(t)'
<1>1. PICK k \in Jobs : job' = [rows EXCEPT ![k] = NewJob("DELETE", t)]
  BY DEF Hired
<1>2. job'[k] = NewJob("DELETE", t)
  BY <1>1
<1>3. NewJob("DELETE", t).action = "DELETE" /\ NewJob("DELETE", t).target = t
      /\ NewJob("DELETE", t).status = "PENDING" /\ NewJob("DELETE", t) # NoJob
  BY DEF NewJob, NoJob
<1> QED BY <1>2, <1>3 DEF Removing, Created, Open

\* As long as the profile is there, its removal is open.
LEMMA RemovingStays ==
  ASSUME Shaped, Deletions, [SyncNext]_syncVars, NEW id, Removing(id), panel'.id = id
  PROVE  Removing(id)'
<1>1. Shaped' /\ JobsStay /\ JobChanges /\ Onward
  BY ShapedStep, JobsChange, GoesOnward
<1>2. PICK j \in Jobs : Created(j) /\ job[j].action = "DELETE" /\ job[j].target = id /\ job[j].status \in Open
  BY DEF Removing
<1>3. Removes(j) /\ id # 0 /\ id <= profiles /\ id \in Nat
  BY <1>2, IsJob, Numbers DEF Removes, Deletions, Removals, Shaped, Job
<1>4. panel.id = id
  BY <1>1, <1>3 DEF Onward
<1>5. Created(j)' /\ job'[j].action = "DELETE" /\ job'[j].target = id
  BY <1>1, <1>2 DEF JobsStay
<1>6. job'[j].status # "COMPLETED"
  <2>1. ASSUME NEW w \in SyncWorkers, Busy(w), at[w].pc = "complete", at[w].job = j PROVE FALSE
    BY <1>2, <1>3, <1>4, <2>1 DEF Deletions, WorkersOK, WorkerOK
  <2>2. job[j].status # "COMPLETED"
    BY <1>2 DEF Open
  <2> QED BY <1>1, <1>2, <2>1, <2>2 DEF JobChanges
<1>7. job'[j] \in Job
  BY <1>1, <1>5 DEF Shaped, JobOK, Created
<1>8. job'[j].status \in Open
  BY <1>6, <1>7 DEF Job, Open
<1> QED BY <1>5, <1>8 DEF Removing, Created

\* Every step keeps the removal on record.
LEMMA RecordStep ==
  ASSUME Shaped, Deletions, RemovalOnRecord, [SyncNext]_syncVars
  PROVE  RemovalOnRecord'
<1> SUFFICES ASSUME row'.status = "DELETED", row'.link # 0, panel'.id = row'.link
             PROVE  Removing(row.link)'
  BY DEF RemovalOnRecord
<1>1. Shaped' /\ JobsStay /\ JobChanges /\ Onward /\ RowChanges
  BY ShapedStep, JobsChange, GoesOnward, RowMoves
<1>2. row \in Row /\ row.link \in Nat /\ row.link <= profiles
  BY Numbers DEF Shaped, RestOK, Row, Deletions, RowOK
<1>3. PICK id : id = row'.link
  OBVIOUS
<1>4. SUFFICES Removing(id)'
  BY <1>3 DEF Removing, Created
<1>5. CASE row' = row
  <2>1. panel.id = row.link
    BY <1>1, <1>2, <1>5 DEF Onward
  <2>2. Removing(id)
    BY <1>3, <1>5, <2>1 DEF RemovalOnRecord
  <2> QED BY <1>3, <2>2, RemovingStays
<1>6. CASE DeleteRow /\ row' = [row EXCEPT !.status = "DELETED"]
  <2>1. row'.link = row.link
    BY <1>2, <1>6 DEF Row
  <2>2. Hired("DELETE", row.link, Retired)
    BY <1>6, <2>1, Scheduling DEF DeleteRow
  <2>3. PICK rows \in [Jobs -> Job \cup {NoJob}] : rows = Retired
    BY RetiredRows DEF Shaped
  <2>4. Hired("DELETE", id, rows)
    BY <1>3, <2>1, <2>2, <2>3
  <2> QED BY <2>4, HiredRemoval
<1>7. ASSUME NEW w \in SyncWorkers, Link(w), row' = [row EXCEPT !.link = at[w].found] PROVE Removing(id)'
  <2>1. id = at[w].found /\ row.status = "DELETED" /\ Unwanted(row.status)
    BY <1>2, <1>3, <1>7 DEF Row, Unwanted
  <2>2. CASE Removing(at[w].found)
    BY <1>3, <2>1, <2>2, RemovingStays
  <2>3. CASE ~Removing(at[w].found)
    <3>1. PICK rows \in [Jobs -> Job \cup {NoJob}] : rows = job
      BY DEF Shaped, JobOK
    <3>2. Hired("DELETE", id, rows)
      BY <1>7, <2>1, <2>3, <3>1, LinkEffect DEF Shaped
    <3> QED BY <3>2, HiredRemoval
  <2> QED BY <2>2, <2>3
<1>8. CASE row'.link = 0
  BY <1>8
<1> QED BY <1>1, <1>2, <1>5, <1>6, <1>7, <1>8 DEF RowChanges, Row

\* The second tier, and the removal on record, hold at the start.
LEMMA RowInit == SyncInit => Deletions /\ RemovalOnRecord
<1> SUFFICES ASSUME SyncInit PROVE Deletions /\ RemovalOnRecord
  OBVIOUS
<1>1. \A w \in SyncWorkers : ~Busy(w)
  BY DEF SyncInit, Busy
<1>2. \A j \in Jobs : ~Removes(j)
  <2> SUFFICES ASSUME NEW j \in Jobs, Created(j) PROVE job[j].action # "DELETE"
    BY DEF Removes
  <2>1. job[j] \in {NoJob, NewJob("CREATE", 0), NewJob("UPDATE", 0)}
    BY DEF SyncInit
  <2> QED BY <2>1 DEF NewJob, NoJob
<1>3. row.status = "ACTIVE" /\ row.link <= profiles /\ cleaning = Nothing
  BY DEF SyncInit
<1> QED BY <1>1, <1>2, <1>3 DEF Deletions, WorkersOK, Removals, RowOK, DeletedByDecision, RemovalOnRecord

-----------------------------------------------------------------------------
(* What is kept while nothing old is written and nothing is condemned      *)

\* Nothing outside the synchronisation wrote the profile, and no removal was scheduled on linking.
Calm == ~overwritten /\ ~condemned
\* The subscription has not been deleted.
Live == row.status # "DELETED"

\* Only what is deleted has its jobs superseded, or its profile removed.
DeletionsFinal ==
    \A j \in Jobs : Created(j) /\ (job[j].action = "DELETE" \/ job[j].superseded) => ~Live

\* Neither the panel nor a worker is ahead of the row.
Behind == panel.term <= row.term /\ \A w \in SyncWorkers : Busy(w) => at[w].cur.term <= row.term

\* The panel has no other profile than the one a row is linked to.
RowLinked == row.link # 0 /\ panel.id # 0 => row.link = panel.id
\* What a worker of a live subscription knows of the link.
WorkerLinks(w) ==
    /\ at[w].pc = "link" => panel.id # 0 /\ at[w].found = panel.id
    /\ at[w].pc = "create" => panel.id # 0 \/ row.link = 0
    /\ at[w].pc = "claim" => at[w].cur.link # 0 \/ panel.id # 0 \/ row.link = 0
    /\ at[w].pc = "detach" => at[w].cur.link # panel.id
    /\ at[w].pc \in {"recheck", "ensure"} => at[w].cur.link = panel.id
    /\ at[w].cur.link # 0 /\ at[w].cur.link = panel.id => row.link = panel.id
\* The row and the workers know of no other profile than the one on the panel.
LinksOK == RowLinked /\ \A w \in SyncWorkers : Busy(w) => WorkerLinks(w)

\* Without a profile no job is done, and who would create an outdated one is
\* not alone.
NotYet(w) ==
    /\ at[w].pc \notin {"link", "recheck", "ensure", "complete"}
    /\ at[w].cur.term = row.term \/ \E j \in Jobs : Created(j) /\ j # at[w].job
\* Until the panel has a profile no job is done, and no worker is past making it.
Untouched ==
    panel.id = 0 => /\ \A j \in Jobs : Created(j) => job[j].status # "COMPLETED"
                    /\ \A w \in SyncWorkers : Busy(w) => NotYet(w)

\* A job that is not done, whose worker has still to write what the row says.
Owing(w) ==
    \/ at[w].pc \in {"claim", "reload", "create", "patch", "detach", "fail"}
    \/ at[w].pc = "recheck" /\ at[w].cur.term # row.term
\* A job that has not ended well.
Unsettled(j) == Created(j) /\ job[j].status # "COMPLETED"
\* A job that will write the row's term to the panel.
OwesTerm(j) == Unsettled(j) /\ \A w \in SyncWorkers : Busy(w) /\ at[w].job = j => Owing(w)
\* A job that will link the profile to the row.
OwesLink(j) == Unsettled(j) /\ \A w \in SyncWorkers : Busy(w) /\ at[w].job = j => Owing(w) \/ at[w].pc = "link"

\* The row points at the profile on the panel.
LinkedUp == panel.id # 0 /\ row.link = panel.id
\* The panel has the row's term, or a job owes it.
TermOK == panel.term = row.term \/ adopted \/ \E j \in Jobs : OwesTerm(j)
\* The row points at the profile, or a job owes it.
LinkOK == LinkedUp \/ \E j \in Jobs : OwesLink(j)
\* What holds of a live subscription.
LiveOK == LinksOK /\ Untouched /\ TermOK /\ LinkOK

\* A profile is linked, or on its way to it, or to be removed.
Linking(w) == Busy(w) /\ at[w].pc = "link" /\ at[w].found = panel.id
\* A profile on the panel is the row's, one being removed, one a worker has yet to link, or one whose
\* creator was lost before it could.
ProfileOwned ==
    panel.id # 0 => \/ Live /\ row.link = panel.id
                    \/ orphaned
                    \/ Removing(panel.id)
                    \/ \E w \in SyncWorkers : Linking(w)

\* The third tier: what the synchronisation owes, while nothing else writes and nothing was condemned.
Kept == Calm => DeletionsFinal /\ Behind /\ ProfileOwned /\ (Live => LiveOK)

\* What was not calm does not become so.
LEMMA CalmBefore ==
  ASSUME Shaped, [SyncNext]_syncVars, Calm'
  PROVE  Calm
<1>1. overwritten => overwritten'
  <2>1. CASE UNCHANGED syncVars
    BY <2>1 DEF syncVars, history
  <2>2. CASE Renew \/ Disable \/ Remove \/ TermEnds \/ ScanExpired \/ MarkExpired \/ PickExpired \/ PanelEvent
    BY <2>2 DEF Renew, Disable, Remove, TermEnds, ScanExpired, MarkExpired, PickExpired, PanelEvent, history
  <2>3. CASE Cleanup
    BY <2>3 DEF Cleanup
  <2>4. CASE \E e \in events : HearEvent(e)
    BY <2>4 DEF HearEvent
  <2>5. ASSUME NEW w \in SyncWorkers, SyncStep(w) \/ \E j \in Jobs : Pick(w, j) PROVE overwritten' = overwritten
    BY <2>5, WorkerLeaves
  <2>6. CASE Cron \/ Die
    BY <2>6 DEF Cron, SweepPending, Recover, Requeue, Die, cronRest
  <2> QED BY <2>1, <2>2, <2>3, <2>4, <2>5, <2>6 DEF SyncNext
<1> QED BY <1>1, GoesOnward DEF Onward, Calm

\* In calm a deletion is final, and only a renewal changes the term.
CalmRows == (~Live => ~Live') /\ (row'.term = row.term \/ (Renew /\ row'.term = row.term + 1))

\* While calm, every step changes the row as allowed.
LEMMA CalmRow ==
  ASSUME Shaped, Behind, Calm', [SyncNext]_syncVars
  PROVE  CalmRows
<1>1. row \in Row /\ row.term \in Nat /\ panel.term \in Nat
  BY Numbers DEF Shaped, RestOK, Row
<1>2. CASE row' = row
  BY <1>2 DEF CalmRows, Live
<1>3. CASE Renew
  BY <1>1, <1>3 DEF Renew, CalmRows, Live, Row
<1>4. CASE Disable \/ MarkExpired
  BY <1>1, <1>4 DEF Disable, MarkExpired, CalmRows, Live, Row
<1>5. CASE DeleteRow
  BY <1>1, <1>5 DEF DeleteRow, CalmRows, Live, Row
<1>6. CASE Cleanup
  <2>1. CASE /\ row' = [row EXCEPT !.term = panel.term, !.status = "ACTIVE"]
             /\ overwritten' = (overwritten \/ panel.term < row.term \/ row.status = "DELETED")
    <3>1. ~(panel.term < row.term) /\ Live
      BY <2>1, Zenon DEF Calm, Live
    <3>2. panel.term = row.term
      BY <1>1, <3>1 DEF Behind
    <3> QED BY <1>1, <2>1, <3>1, <3>2 DEF CalmRows, Live, Row
  <2> QED BY <1>2, <1>5, <1>6, <2>1 DEF Cleanup
<1>7. ASSUME NEW e \in events, HearEvent(e) PROVE CalmRows
  <2>1. CASE ~(row.link = e.id /\ row.status # "DELETED")
    BY <1>2, <1>7, <2>1 DEF HearEvent
  <2>2. CASE row.link = e.id /\ row.status # "DELETED"
    <3>1. e.term = row.term /\ row'.term = e.term
      BY <1>1, <1>7, <2>2 DEF HearEvent, Calm, Row
    <3> QED BY <2>2, <3>1 DEF CalmRows, Live
  <2> QED BY <2>1, <2>2
<1>8. ASSUME NEW w \in SyncWorkers, SyncStep(w) PROVE CalmRows
  <2>1. CASE Link(w)
    BY <1>1, <2>1 DEF Link, CalmRows, Live, Row
  <2>2. CASE Detach(w)
    BY <1>1, <2>2 DEF Detach, CalmRows, Live, Row
  <2>3. CASE Retire(w)
    BY <1>1, <2>3 DEF Retire, CalmRows, Live, Row
  <2>4. CASE Claim(w) \/ Reload(w) \/ Create(w) \/ Patch(w) \/ Recheck(w) \/ Ensure(w) \/ Delete(w) \/ Complete(w) \/ Fail(w)
    BY <1>2, <2>4 DEF Claim, Reload, Create, Patch, Recheck, Ensure, Delete, Complete, Fail
  <2> QED BY <1>8, <2>1, <2>2, <2>3, <2>4 DEF SyncStep
<1>9. CASE UNCHANGED syncVars
  BY <1>2, <1>9 DEF syncVars
<1>10. CASE TermEnds \/ ScanExpired \/ PickExpired \/ PanelEvent
  BY <1>2, <1>10 DEF TermEnds, ScanExpired, PickExpired, PanelEvent
<1>11. CASE (\E w \in SyncWorkers : \E j \in Jobs : Pick(w, j)) \/ Cron \/ Die
  BY <1>2, <1>11 DEF Pick, Cron, SweepPending, Recover, Requeue, Die, cronRest
<1>12. CASE Remove
  BY <1>5, <1>12 DEF Remove
<1> QED BY <1>3, <1>4, <1>6, <1>7, <1>8, <1>9, <1>10, <1>11, <1>12 DEF SyncNext

\* While calm, a deleted subscription stays deleted.
LEMMA FinalStep ==
  ASSUME Shaped, Deletions, Behind, DeletionsFinal, Calm', [SyncNext]_syncVars
  PROVE  DeletionsFinal'
<1>1. JobsStay /\ JobChanges /\ CalmRows
  BY ShapedStep, JobsChange, CalmRow
<1> SUFFICES ASSUME NEW j \in Jobs, Created(j)', job'[j].action = "DELETE" \/ job'[j].superseded
             PROVE  ~Live'
  BY DEF DeletionsFinal
<1>2. CASE Created(j)
  BY <1>1, <1>2 DEF JobsStay, JobChanges, CalmRows, DeletionsFinal, Live
<1>3. CASE ~Created(j)
  BY <1>1, <1>3 DEF JobChanges, Calm, Live
<1> QED BY <1>2, <1>3

\* A live subscription has no job that removes its profile, nor a superseded one.
LEMMA NothingRemoves ==
  ASSUME Shaped, Deletions, DeletionsFinal, Live, NEW w \in SyncWorkers, Busy(w)
  PROVE  ~Removes(at[w].job) /\ at[w].pc \notin {"delete", "retire"}
<1>1. at[w].job \in Jobs
  BY AtWork DEF Shaped
<1>2. ~Removes(at[w].job)
  BY <1>1 DEF Removes, DeletionsFinal
<1> QED BY <1>2 DEF Deletions, WorkersOK, WorkerOK

\* Who writes to the panel.
PanelMoves ==
    \/ panel' = panel /\ (profiles' = profiles)
    \/ \E w \in SyncWorkers :
          /\ Create(w) /\ panel.id = 0 /\ profiles' = profiles + 1
          /\ panel' = [id |-> profiles + 1, term |-> at[w].cur.term]
    \/ \E w \in SyncWorkers :
          /\ Patch(w) /\ panel.id = at[w].cur.link /\ profiles' = profiles
          /\ panel' = [panel EXCEPT !.term = at[w].cur.term]
    \/ \E w \in SyncWorkers : Delete(w) /\ panel' \in {[id |-> 0, term |-> 0], panel}

\* Every step changes the panel as allowed.
LEMMA PanelMove ==
  ASSUME Shaped, [SyncNext]_syncVars
  PROVE  PanelMoves
<1>1. CASE UNCHANGED syncVars
  BY <1>1 DEF syncVars, PanelMoves
<1>2. CASE Outside
  BY <1>2 DEF Outside, Renew, Disable, Remove, TermEnds, ScanExpired, MarkExpired, PickExpired, Cleanup,
         PanelEvent, HearEvent, PanelMoves
<1>3. CASE (\E w \in SyncWorkers : \E j \in Jobs : Pick(w, j)) \/ Cron \/ Die
  BY <1>3 DEF Pick, Cron, SweepPending, Recover, Requeue, Die, cronRest, PanelMoves
<1>4. ASSUME NEW w \in SyncWorkers, SyncStep(w) PROVE PanelMoves
  <2>1. CASE Create(w)
    BY <2>1, CreateEffect DEF PanelMoves, Shaped
  <2>2. CASE Patch(w)
    BY <2>2 DEF Patch, PanelMoves
  <2>3. CASE Delete(w)
    BY <2>3 DEF Delete, PanelMoves
  <2>4. CASE Claim(w) \/ Reload(w) \/ Link(w) \/ Detach(w) \/ Recheck(w) \/ Ensure(w) \/ Retire(w) \/ Complete(w) \/ Fail(w)
    BY <2>4 DEF Claim, Reload, Link, Detach, Recheck, Ensure, Retire, Complete, Fail, PanelMoves
  <2> QED BY <1>4, <2>1, <2>2, <2>3, <2>4 DEF SyncStep
<1> QED BY <1>1, <1>2, <1>3, <1>4 DEF SyncNext, Outside

\* Where a worker comes to, and what of the row and the panel goes with it.
Turn(w, s, cur, id) == at'[w].pc = s /\ at'[w].cur = cur /\ at'[w].found = id
\* A step that leaves the row and the panel alone.
Same == row' = row /\ panel' = panel

\* What a step of this worker may do to the row and the panel, by where it is.
Turns(w) ==
    LET a == at[w] IN
    \/ at'[w] = Idle
    \/ Turn(w, "fail", a.cur, a.found)
    \/ a.pc = "claim" /\ Turn(w, Handler(a.job, a.cur), a.cur, a.found) /\ Same
    \/ a.pc = "reload" /\ Turn(w, IF row.link = 0 THEN "create" ELSE "patch", row, a.found) /\ Same
    \/ /\ a.pc = "create" /\ panel.id # 0 /\ Turn(w, "link", a.cur, panel.id) /\ Same
       /\ adopted' = (adopted \/ panel.term # row.term)
    \/ /\ a.pc = "create" /\ panel.id = 0 /\ Turn(w, "link", a.cur, profiles + 1)
       /\ row' = row /\ panel' = [id |-> profiles + 1, term |-> a.cur.term]
    \/ a.pc = "link" /\ Turn(w, "complete", a.cur, a.found)
       /\ row' = [row EXCEPT !.link = a.found] /\ panel' = panel
    \/ /\ a.pc = "patch" /\ panel.id = a.cur.link /\ Turn(w, "recheck", a.cur, a.found)
       /\ row' = row /\ panel' = [panel EXCEPT !.term = a.cur.term]
    \/ a.pc = "patch" /\ panel.id # a.cur.link /\ Turn(w, "detach", a.cur, a.found) /\ Same
    \/ /\ a.pc = "detach" /\ Turn(w, IF row'.link = 0 THEN "create" ELSE "reload", row', a.found)
       /\ panel' = panel /\ row' = IF row.link = a.cur.link THEN [row EXCEPT !.link = 0] ELSE row
    \/ a.pc = "recheck" /\ SameProfile(row, a.cur) /\ Turn(w, "ensure", a.cur, a.found) /\ Same
    \/ /\ a.pc = "recheck" /\ ~SameProfile(row, a.cur)
       /\ Turn(w, IF row.link = 0 THEN "create" ELSE "patch", row, a.found) /\ Same
    \/ a.pc = "ensure" /\ Turn(w, "complete", a.cur, a.found) /\ Same
    \/ a.pc \in {"delete", "retire"}

\* Every step of a worker is one of those.
LEMMA TurnsTaken ==
  ASSUME Shaped, NEW w \in SyncWorkers, SyncStep(w)
  PROVE  Turns(w) /\ (at'[w] # Idle => at'[w].job = at[w].job)
<1>1. Busy(w) /\ at[w] \in Work /\ Created(at[w].job) /\ Moved(w)
  BY Stepping, AtWork, WorkerMoves DEF Shaped, Known
<1>2. at'[w] # Idle => at'[w].job = at[w].job
  BY <1>1 DEF Moved
<1>3. ASSUME AtFail(w) PROVE Turn(w, "fail", at[w].cur, at[w].found)
  BY <1>1, <1>3 DEF AtFail, Turn, Work
<1>4. ASSUME NEW s \in Pcs, At(w, s) PROVE Turn(w, s, at[w].cur, at[w].found)
  BY <1>1, <1>4 DEF At, Turn, Work
<1>5. ASSUME NEW s \in Pcs, NEW n, at'[w] = [at[w] EXCEPT !.cur = row, !.round = n, !.pc = s]
      PROVE  Turn(w, s, row, at[w].found)
  BY <1>1, <1>5 DEF Turn, Work
<1>6. PICK s \in Pcs : s = IF row.link = 0 THEN "create" ELSE "patch"
  BY DEF Pcs
<1>7. CASE Claim(w)
  <2>1. PICK h \in Pcs : h = Handler(at[w].job, at[w].cur)
    BY DEF Handler, Pcs
  <2>2. Same /\ at[w].pc = "claim"
    BY <1>7 DEF Claim, Same
  <2>3. at'[w] = Idle \/ At(w, h)
    BY <1>1, <1>7, <2>1, ClaimEffect DEF Shaped
  <2> QED BY <1>2, <1>4, <2>1, <2>2, <2>3 DEF Turns
<1>8. CASE Reload(w)
  <2>1. Same /\ at[w].pc = "reload"
    BY <1>8 DEF Reload, Same
  <2>2. Turn(w, s, row, at[w].found)
    BY <1>5, <1>6, <1>8, ReloadEffect DEF Shaped
  <2> QED BY <1>2, <1>6, <2>1, <2>2 DEF Turns
<1>9. CASE Create(w)
  <2>1. row' = row /\ at[w].pc = "create"
    BY <1>9 DEF Create
  <2>2. ASSUME NEW id, at'[w] = [at[w] EXCEPT !.pc = "link", !.found = id] PROVE Turn(w, "link", at[w].cur, id)
    BY <1>1, <2>2 DEF Turn, Work
  <2>3. CASE AtFail(w)
    BY <1>2, <1>3, <2>3 DEF Turns
  <2>4. CASE panel.id # 0 /\ panel' = panel /\ at'[w] = [at[w] EXCEPT !.pc = "link", !.found = panel.id]
             /\ adopted' = (adopted \/ panel.term # row.term)
    <3>1. Turn(w, "link", at[w].cur, panel.id)
      BY <2>2, <2>4
    <3> QED BY <1>2, <2>1, <2>4, <3>1 DEF Turns, Same
  <2>5. CASE /\ panel.id = 0 /\ profiles' = profiles + 1 /\ panel' = [id |-> profiles', term |-> at[w].cur.term]
             /\ at'[w] = [at[w] EXCEPT !.pc = "link", !.found = profiles']
    <3>1. Turn(w, "link", at[w].cur, profiles + 1)
      BY <2>2, <2>5
    <3> QED BY <1>2, <2>1, <2>5, <3>1 DEF Turns
  <2> QED BY <1>9, <2>3, <2>4, <2>5, CreateEffect DEF Shaped
<1>10. CASE Link(w)
  <2>1. at[w].pc = "link" /\ row' = [row EXCEPT !.link = at[w].found] /\ panel' = panel
    BY <1>10 DEF Link
  <2>2. At(w, "complete") \/ AtFail(w)
    BY <1>10, LinkEffect DEF Shaped
  <2> QED BY <1>2, <1>3, <1>4, <2>1, <2>2 DEF Turns, Pcs
<1>11. CASE Patch(w)
  <2>1. at[w].pc = "patch" /\ row' = row
    BY <1>11 DEF Patch
  <2> QED BY <1>2, <1>3, <1>4, <1>11, <2>1, PatchEffect DEF Turns, Pcs, Same, Shaped
<1>12. CASE Detach(w)
  <2>1. /\ at[w].pc = "detach" /\ AtWith(w, IF row'.link = 0 THEN "create" ELSE "reload", row')
        /\ row' = IF row.link = at[w].cur.link THEN [row EXCEPT !.link = 0] ELSE row
    BY <1>12, DetachEffect DEF Shaped
  <2>2. panel' = panel
    BY <1>12 DEF Detach
  <2>3. Turn(w, IF row'.link = 0 THEN "create" ELSE "reload", row', at[w].found)
    BY <1>1, <2>1 DEF AtWith, Turn, Work
  <2> QED BY <1>2, <2>1, <2>2, <2>3 DEF Turns
<1>13. CASE Recheck(w)
  <2>1. at[w].pc = "recheck" /\ Same
    BY <1>13 DEF Recheck, Same
  <2>2. CASE SameProfile(row, at[w].cur) /\ At(w, "ensure")
    BY <1>2, <1>4, <2>1, <2>2 DEF Turns, Pcs
  <2>3. CASE AtFail(w)
    BY <1>2, <1>3, <2>3 DEF Turns
  <2>4. ASSUME NEW n, ~SameProfile(row, at[w].cur),
               at'[w] = [at[w] EXCEPT !.cur = row, !.round = n, !.pc = IF row.link = 0 THEN "create" ELSE "patch"]
        PROVE  Turns(w)
    <3>1. Turn(w, s, row, at[w].found)
      BY <1>5, <1>6, <2>4
    <3> QED BY <1>6, <2>1, <2>4, <3>1 DEF Turns
  <2> QED BY <1>2, <1>13, <2>2, <2>3, <2>4, RecheckEffect DEF Shaped
<1>14. CASE Ensure(w)
  <2>1. at[w].pc = "ensure" /\ Same
    BY <1>14 DEF Ensure, Same
  <2>2. At(w, "complete") \/ AtFail(w)
    BY <1>14, EnsureEffect DEF Shaped
  <2> QED BY <1>2, <1>3, <1>4, <2>1, <2>2 DEF Turns, Pcs
<1>15. CASE Delete(w) \/ Retire(w)
  BY <1>2, <1>15 DEF Delete, Retire, Turns
<1>16. CASE Complete(w) \/ Fail(w)
  BY <1>1, <1>2, <1>16, ClosingEffect DEF Turns, Shaped
<1> QED BY <1>7, <1>8, <1>9, <1>10, <1>11, <1>12, <1>13, <1>14, <1>15, <1>16 DEF SyncStep

\* While calm, every step keeps the panel and the workers no further than the row.
LEMMA BehindStep ==
  ASSUME Shaped, Behind, Calm', [SyncNext]_syncVars
  PROVE  Behind'
<1>1. CalmRows /\ PanelMoves /\ Shaped'
  BY CalmRow, PanelMove, ShapedStep
<1>2. row.term \in Nat /\ panel.term \in Nat /\ row' \in Row /\ row \in Row
  BY <1>1, Numbers DEF Shaped, RestOK, Row
<1>3. row.term <= row'.term /\ row'.term \in Nat
  BY <1>1, <1>2 DEF CalmRows
<1>4. \A w \in SyncWorkers : Busy(w) => at[w].cur.term \in Nat
  BY AtWork, Numbers DEF Shaped, Row
<1>5. panel'.term <= row'.term
  <2>1. ASSUME NEW w \in SyncWorkers, SyncStep(w) PROVE at[w].cur.term <= row'.term
    BY <1>2, <1>3, <1>4, <2>1, Stepping DEF Behind, Shaped
  <2>2. panel.term <= row'.term
    BY <1>2, <1>3 DEF Behind
  <2>3. panel \in [id : 0..MaxProfiles, term : 0..MaxTerm]
    BY DEF Shaped, RestOK
  <2>4. ASSUME NEW w \in SyncWorkers, Create(w), panel' = [id |-> profiles + 1, term |-> at[w].cur.term]
        PROVE  panel'.term <= row'.term
    BY <2>1, <2>4 DEF SyncStep
  <2>5. ASSUME NEW w \in SyncWorkers, Patch(w), panel' = [panel EXCEPT !.term = at[w].cur.term]
        PROVE  panel'.term <= row'.term
    BY <2>1, <2>3, <2>5 DEF SyncStep
  <2>6. CASE panel' \in {[id |-> 0, term |-> 0], panel}
    BY <1>3, <2>2, <2>6
  <2> QED BY <1>1, <2>4, <2>5, <2>6 DEF PanelMoves
<1>6. ASSUME NEW v \in SyncWorkers, Busy(v)' PROVE at'[v].cur.term <= row'.term
  <2>1. row.term <= row'.term /\ row'.term <= row'.term
    BY <1>2, <1>3
  <2>2. CASE at'[v] = at[v]
    BY <1>2, <1>3, <1>4, <1>6, <2>2 DEF Behind, Busy
  <2>3. ASSUME NEW j \in Jobs, Pick(v, j), at'[v] # at[v] PROVE at'[v].cur.term <= row'.term
    <3>1. at'[v] = [pc |-> "claim", job |-> j, cur |-> row, round |-> 1, found |-> 0, passing |-> FALSE]
      BY <2>3, PickEffect
    <3>2. at'[v].cur = row
      BY <3>1
    <3> QED BY <2>1, <3>2
  <2>4. CASE SyncStep(v)
    <3>1. at[v].cur.term <= row'.term
      BY <1>2, <1>3, <1>4, <2>4, Stepping DEF Behind, Shaped
    <3>2. at'[v] # Idle /\ Turns(v)
      BY <1>6, <2>4, TurnsTaken DEF Busy
    <3>3. at'[v].cur \in {at[v].cur, row, row'} \/ at[v].pc \in {"delete", "retire"}
      BY <3>2 DEF Turns, Turn
    <3>4. ASSUME at[v].pc \in {"delete", "retire"} PROVE at'[v].cur = at[v].cur
      <4>1. Busy(v) /\ at[v] \in Work
        BY <2>4, Stepping, AtWork DEF Shaped
      <4>2. Delete(v) \/ Retire(v)
        BY <2>4, <3>4 DEF SyncStep, Claim, Reload, Create, Link, Patch, Detach, Recheck, Ensure, Complete, Fail
      <4> QED BY <4>1, <4>2, DeleteEffect, RetireEffect DEF At, AtFail, Work, Shaped
    <3> QED BY <2>1, <3>1, <3>3, <3>4
  <2>5. at'[v] # Idle
    BY <1>6 DEF Busy
  <2> QED BY <2>2, <2>3, <2>4, <2>5, Hands
<1> QED BY <1>5, <1>6 DEF Behind

\* How the link and the profile may change while the subscription lives.
LinkMoves ==
    \/ panel'.id = panel.id /\ row'.link = row.link
    \/ panel'.id = panel.id /\ panel.id # 0 /\ row'.link = panel.id
    \/ panel'.id = panel.id /\ row'.link = 0 /\ row.link # panel.id
    \/ panel.id = 0 /\ panel'.id = profiles + 1 /\ row'.link = 0 /\ row.link = 0

\* Every step of a live subscription changes the link as allowed.
LEMMA LinkMove ==
  ASSUME Shaped, Deletions, DeletionsFinal, LinksOK, Live, Live', [SyncNext]_syncVars
  PROVE  LinkMoves
<1>1. PanelMoves /\ RowChanges /\ row \in Row
  BY PanelMove, RowMoves DEF Shaped, RestOK
<1>2. ASSUME NEW w \in SyncWorkers, Create(w), panel.id = 0, panel' = [id |-> profiles + 1, term |-> at[w].cur.term]
      PROVE  LinkMoves
  <2>1. row' = row /\ Busy(w) /\ at[w].pc = "create"
    BY <1>2, Stepping DEF Create, SyncStep, Shaped
  <2>2. row.link = 0
    BY <1>2, <2>1 DEF LinksOK, WorkerLinks
  <2> QED BY <1>2, <2>1, <2>2 DEF LinkMoves
<1>3. ASSUME NEW w \in SyncWorkers, Patch(w), panel' = [panel EXCEPT !.term = at[w].cur.term] PROVE LinkMoves
  <2>1. row' = row /\ panel'.id = panel.id
    BY <1>3 DEF Patch, Shaped, RestOK
  <2> QED BY <2>1 DEF LinkMoves
<1>4. ASSUME NEW w \in SyncWorkers, Delete(w) \/ Retire(w) PROVE FALSE
  BY <1>4, Stepping, NothingRemoves DEF SyncStep, Delete, Retire, Shaped
<1>5. CASE panel' = panel
  <2>1. CASE row'.link = row.link
    BY <1>5, <2>1 DEF LinkMoves
  <2>2. ASSUME NEW w \in SyncWorkers, Link(w), row' = [row EXCEPT !.link = at[w].found] PROVE LinkMoves
    <3>1. at[w].found = panel.id /\ panel.id # 0
      BY <2>2, Stepping DEF Link, SyncStep, LinksOK, WorkerLinks, Shaped
    <3>2. row'.link = panel.id
      BY <1>1, <2>2, <3>1 DEF Row
    <3> QED BY <1>5, <3>1, <3>2 DEF LinkMoves
  <2>3. ASSUME NEW w \in SyncWorkers, Detach(w) PROVE LinkMoves
    <3>1. at[w].cur.link # panel.id /\ row' = IF row.link = at[w].cur.link THEN [row EXCEPT !.link = 0] ELSE row
      BY <2>3, Stepping, DetachEffect DEF Detach, SyncStep, LinksOK, WorkerLinks, Shaped
    <3>2. CASE row.link = at[w].cur.link
      <4>1. row'.link = 0
        BY <1>1, <3>1, <3>2 DEF Row
      <4> QED BY <1>5, <3>1, <3>2, <4>1 DEF LinkMoves
    <3> QED BY <2>1, <3>1, <3>2
  <2>4. ASSUME row' = [row EXCEPT !.status = "DELETED"] PROVE FALSE
    BY <1>1, <2>4 DEF Live, Row
  <2> QED BY <1>1, <1>4, <2>1, <2>2, <2>3, <2>4 DEF RowChanges
<1> QED BY <1>1, <1>2, <1>3, <1>4, <1>5 DEF PanelMoves

\* What is known of a worker's links does not depend on where others go.
LEMMA LinksStay ==
  ASSUME Shaped, Deletions, LinkMoves, NEW v \in SyncWorkers, Busy(v), WorkerLinks(v), at'[v] = at[v]
  PROVE  WorkerLinks(v)'
<1>1. at[v].cur.link \in Nat /\ at[v].cur.link <= profiles /\ profiles \in Nat
      /\ (at[v].pc \in {"recheck", "ensure", "detach"} => at[v].cur.link # 0)
  BY AtWork, Numbers DEF Shaped, RestOK, Deletions, WorkersOK, WorkerOK, Row, Linked
<1>2. at[v].cur.link # profiles + 1
  BY <1>1
<1> QED BY <1>1, <1>2 DEF WorkerLinks, LinkMoves

\* The link a worker has read is that of the row, if the profile is there.
LEMMA CurLinked ==
  ASSUME Shaped, Deletions, LinkMoves, RowLinked, NEW c \in Row,
         c = row \/ c = row' \/ \E w \in SyncWorkers : Busy(w) /\ WorkerLinks(w) /\ c = at[w].cur
  PROVE  c.link # 0 /\ c.link = panel'.id => row'.link = panel'.id
<1>1. \A w \in SyncWorkers : Busy(w) => at[w].cur.link \in Nat /\ at[w].cur.link <= profiles
  BY AtWork, Numbers DEF Shaped, Deletions, WorkersOK, WorkerOK, Row
<1>2. row.link \in Nat /\ row.link <= profiles /\ profiles \in Nat
  BY Numbers DEF Shaped, RestOK, Deletions, RowOK, Row
<1>3. c.link # profiles + 1 \/ c = row'
  BY <1>1, <1>2
<1>4. CASE c = row
  BY <1>2, <1>4 DEF LinkMoves, RowLinked
<1>5. CASE c = row'
  BY <1>5
<1>6. ASSUME NEW w \in SyncWorkers, Busy(w), WorkerLinks(w), c = at[w].cur
      PROVE  c.link # 0 /\ c.link = panel'.id => row'.link = panel'.id
  <2>1. c.link # profiles + 1
    BY <1>1, <1>2, <1>6
  <2> QED BY <1>6, <2>1 DEF LinkMoves, WorkerLinks
<1> QED BY <1>4, <1>5, <1>6

\* A worker that takes a step knows of the link, at the next one, what it has to.
LEMMA MoverLinks ==
  ASSUME Shaped, Deletions, DeletionsFinal, LinksOK, Live, LinkMoves,
         NEW w \in SyncWorkers, SyncStep(w), at'[w] # Idle
  PROVE  WorkerLinks(w)'
<1>1. Busy(w) /\ at[w] \in Work /\ WorkerLinks(w) /\ RowLinked /\ WorkerOK(w) /\ at[w].pc \notin {"delete", "retire"}
  BY Stepping, AtWork, NothingRemoves DEF Shaped, LinksOK, Deletions, WorkersOK
<1>2. Turns(w)
  BY TurnsTaken
<1>3. row \in Row /\ row' \in Row /\ at[w].cur \in Row
  <2>1. Shaped'
    BY WorkerShaped
  <2> QED BY <1>1, <2>1, AtWork DEF Shaped, RestOK
<1>4. /\ at[w].cur.link # 0 /\ at[w].cur.link = panel'.id => row'.link = panel'.id
      /\ row.link # 0 /\ row.link = panel'.id => row'.link = panel'.id
  BY <1>1, <1>3, CurLinked
<1>5. CASE Turn(w, "fail", at[w].cur, at[w].found)
  BY <1>4, <1>5 DEF Turn, WorkerLinks
<1>6. CASE at[w].pc = "claim" /\ Turn(w, Handler(at[w].job, at[w].cur), at[w].cur, at[w].found) /\ Same
  <2>1. \/ Handler(at[w].job, at[w].cur) = "create" /\ at[w].cur.link = 0
        \/ Handler(at[w].job, at[w].cur) \in {"delete", "reload"}
    BY DEF Handler
  <2> QED BY <1>1, <1>4, <1>6, <2>1 DEF Turn, WorkerLinks, Same
<1>7. CASE at[w].pc = "reload" /\ Turn(w, IF row.link = 0 THEN "create" ELSE "patch", row, at[w].found) /\ Same
  BY <1>4, <1>7 DEF Turn, WorkerLinks, Same
<1>8. CASE at[w].pc = "create" /\ panel.id # 0 /\ Turn(w, "link", at[w].cur, panel.id) /\ Same
  BY <1>4, <1>8 DEF Turn, WorkerLinks, Same
<1>9. CASE /\ at[w].pc = "create" /\ panel.id = 0 /\ Turn(w, "link", at[w].cur, profiles + 1)
           /\ panel' = [id |-> profiles + 1, term |-> at[w].cur.term]
  <2>1. profiles + 1 # 0
    BY Numbers DEF Shaped, RestOK
  <2> QED BY <1>4, <1>9, <2>1 DEF Turn, WorkerLinks
<1>10. CASE at[w].pc \in {"link", "ensure"} /\ Turn(w, "complete", at[w].cur, at[w].found)
  BY <1>4, <1>10 DEF Turn, WorkerLinks
<1>11. CASE /\ at[w].pc = "patch" /\ panel.id = at[w].cur.link /\ Turn(w, "recheck", at[w].cur, at[w].found)
            /\ panel' = [panel EXCEPT !.term = at[w].cur.term]
  <2>1. panel'.id = panel.id
    BY <1>11 DEF Shaped, RestOK
  <2> QED BY <1>4, <1>11, <2>1 DEF Turn, WorkerLinks
<1>12. CASE at[w].pc = "patch" /\ panel.id # at[w].cur.link /\ Turn(w, "detach", at[w].cur, at[w].found) /\ Same
  BY <1>4, <1>12 DEF Turn, WorkerLinks, Same
<1>13. CASE at[w].pc = "detach" /\ Turn(w, IF row'.link = 0 THEN "create" ELSE "reload", row', at[w].found)
  BY <1>13 DEF Turn, WorkerLinks
<1>14. CASE at[w].pc = "recheck" /\ SameProfile(row, at[w].cur) /\ Turn(w, "ensure", at[w].cur, at[w].found) /\ Same
  BY <1>1, <1>4, <1>14 DEF Turn, WorkerLinks, Same
<1>15. CASE /\ at[w].pc = "recheck" /\ Turn(w, IF row.link = 0 THEN "create" ELSE "patch", row, at[w].found)
            /\ Same
  BY <1>4, <1>15 DEF Turn, WorkerLinks, Same
<1> QED BY <1>1, <1>2, <1>5, <1>6, <1>7, <1>8, <1>9, <1>10, <1>11, <1>12, <1>13, <1>14, <1>15 DEF Turns

\* Every step of a live subscription keeps what is known of the link.
LEMMA LinksStep ==
  ASSUME Shaped, Deletions, DeletionsFinal, LinksOK, Live, Live', [SyncNext]_syncVars
  PROVE  LinksOK'
<1>1. LinkMoves
  BY LinkMove
<1>2. RowLinked'
  BY <1>1 DEF RowLinked, LinkMoves, LinksOK
<1>3. ASSUME NEW v \in SyncWorkers, Busy(v)' PROVE WorkerLinks(v)'
  <2>1. at'[v] # Idle
    BY <1>3 DEF Busy
  <2>2. CASE at'[v] = at[v]
    <3>1. Busy(v) /\ WorkerLinks(v)
      BY <2>1, <2>2 DEF Busy, LinksOK
    <3> QED BY <1>1, <2>2, <3>1, LinksStay
  <2>3. CASE SyncStep(v)
    BY <1>1, <2>1, <2>3, MoverLinks
  <2>4. ASSUME NEW j \in Jobs, Pick(v, j), at'[v] # at[v] PROVE WorkerLinks(v)'
    <3>1. at'[v] = [pc |-> "claim", job |-> j, cur |-> row, round |-> 1, found |-> 0, passing |-> FALSE]
      BY <2>4, PickEffect
    <3>2. at'[v].pc = "claim" /\ at'[v].cur = row
      BY <3>1
    <3>3. row' = row /\ panel' = panel
      BY <2>4 DEF Pick
    <3> QED BY <3>2, <3>3 DEF WorkerLinks
  <2> QED BY <2>1, <2>2, <2>3, <2>4, Hands
<1> QED BY <1>2, <1>3 DEF LinksOK

\* A renewal makes a job.
LEMMA RenewHires ==
  ASSUME JobOK, Renew
  PROVE  \E k \in Jobs : ~Created(k) /\ Created(k)' /\ job'[k].status = "PENDING" /\ at' = at
<1>1. Schedule(SyncAction, 0, job) /\ at' = at
  BY DEF Renew
<1>2. FirstFree \in Jobs /\ ~Created(FirstFree)
  BY <1>1, FirstOfFree DEF Schedule
<1>3. PICK k \in Jobs : k = FirstFree /\ ~Created(k)
  BY <1>2
<1>4. job' = [job EXCEPT ![k] = NewJob(SyncAction, 0)]
  BY <1>1, <1>3 DEF Schedule
<1>5. job'[k] = NewJob(SyncAction, 0)
  BY <1>4 DEF JobOK
<1>6. job'[k].status = "PENDING" /\ job'[k] # NoJob
  BY <1>5 DEF NewJob, NoJob
<1> QED BY <1>1, <1>3, <1>6 DEF Created

\* Every step of a live subscription without a profile leaves its jobs to be done.
LEMMA UntouchedStep ==
  ASSUME Shaped, Deletions, DeletionsFinal, Behind, LinksOK, Untouched, Live, Live', Calm', [SyncNext]_syncVars
  PROVE  Untouched'
<1> SUFFICES ASSUME panel'.id = 0
             PROVE  /\ \A j \in Jobs : Created(j)' => job'[j].status # "COMPLETED"
                    /\ \A w \in SyncWorkers : Busy(w)' => NotYet(w)'
  BY DEF Untouched
<1>1. LinkMoves /\ CalmRows /\ JobsStay /\ JobChanges
  BY LinkMove, CalmRow, ShapedStep, JobsChange
<1>2. profiles + 1 # 0
  BY Numbers DEF Shaped, RestOK
<1>3. panel.id = 0
  BY <1>1, <1>2 DEF LinkMoves
<1>4. /\ \A j \in Jobs : Created(j) => job[j].status # "COMPLETED"
      /\ \A w \in SyncWorkers : Busy(w) => NotYet(w)
  BY <1>3 DEF Untouched
<1>5. \A w \in SyncWorkers : Busy(w) => at[w].pc # "complete"
  BY <1>4 DEF NotYet
<1>6. ASSUME NEW j \in Jobs, Created(j)' PROVE job'[j].status # "COMPLETED"
  BY <1>1, <1>4, <1>5, <1>6 DEF JobChanges
<1>7. ASSUME NEW v \in SyncWorkers, Busy(v)
      PROVE  at[v].cur.term = row'.term \/ \E j \in Jobs : Created(j)' /\ j # at[v].job
  <2>1. CASE row'.term = row.term
    BY <1>1, <1>4, <1>7, <2>1 DEF NotYet, JobsStay
  <2>2. CASE Renew
    <3>1. Created(at[v].job)
      BY <1>7 DEF Shaped, Known
    <3> QED BY <2>2, <3>1, RenewHires DEF Shaped
  <2> QED BY <1>1, <2>1, <2>2 DEF CalmRows
<1>8. ASSUME NEW v \in SyncWorkers, Busy(v)' PROVE NotYet(v)'
  <2>1. at'[v] # Idle
    BY <1>8 DEF Busy
  <2>2. CASE at'[v] = at[v]
    <3>1. Busy(v) /\ NotYet(v)
      BY <1>4, <2>1, <2>2 DEF Busy
    <3> QED BY <1>7, <2>2, <3>1 DEF NotYet, Created
  <2>3. CASE SyncStep(v)
    <3>1. Turns(v) /\ at'[v].job = at[v].job /\ Busy(v) /\ NotYet(v) /\ WorkerOK(v)
          /\ at[v].pc \notin {"delete", "retire"}
      BY <1>4, <2>1, <2>3, TurnsTaken, Stepping, NothingRemoves DEF Shaped, Deletions, WorkersOK
    <3>2. at[v].cur.term = row'.term \/ \E j \in Jobs : Created(j)' /\ j # at'[v].job
      BY <1>7, <3>1
    <3>3. ASSUME NEW s \in {"create", "reload", "patch", "fail", "detach", "delete"}, NEW c \in {at[v].cur, row'},
                 Turn(v, s, c, at[v].found)
          PROVE  NotYet(v)'
      BY <3>2, <3>3 DEF Turn, NotYet, Created
    <3>4. Handler(at[v].job, at[v].cur) \in {"create", "reload", "delete"}
      BY DEF Handler
    <3>5. ~(panel' = [id |-> profiles + 1, term |-> at[v].cur.term])
      BY <1>2
    <3>6. at[v].pc = "patch" => panel.id # at[v].cur.link
      BY <1>3, <3>1 DEF WorkerOK, Linked
    <3> QED BY <1>3, <2>1, <3>1, <3>3, <3>4, <3>5, <3>6 DEF Turns, NotYet, Same
  <2>4. ASSUME NEW j \in Jobs, Pick(v, j), at'[v] # at[v] PROVE NotYet(v)'
    <3>1. at'[v] = [pc |-> "claim", job |-> j, cur |-> row, round |-> 1, found |-> 0, passing |-> FALSE]
      BY <2>4, PickEffect
    <3>2. at'[v].pc = "claim" /\ at'[v].cur = row
      BY <3>1
    <3>3. row' = row
      BY <2>4 DEF Pick
    <3> QED BY <3>2, <3>3 DEF NotYet
  <2> QED BY <2>1, <2>2, <2>3, <2>4, Hands
<1> QED BY <1>6, <1>8

\* A worker that stays where it is owes what it owed: the row goes on, never back.
LEMMA OwingStays ==
  ASSUME Shaped, Behind, Calm', [SyncNext]_syncVars, NEW v \in SyncWorkers, Busy(v), Owing(v), at'[v] = at[v]
  PROVE  Owing(v)'
<1>1. CalmRows
  BY CalmRow
<1>2. at[v].cur.term \in Nat /\ row.term \in Nat /\ at[v].cur.term <= row.term
  BY AtWork, Numbers DEF Shaped, RestOK, Row, Behind
<1>3. at[v].cur.term # row.term => at[v].cur.term # row'.term
  BY <1>1, <1>2 DEF CalmRows
<1> QED BY <1>3 DEF Owing

\* A job is not done by a worker that owes something, nor by anyone else.
LEMMA StillUnsettled ==
  ASSUME Shaped, Deletions, [SyncNext]_syncVars, NEW j \in Jobs, Unsettled(j),
         \A w \in SyncWorkers : Busy(w) /\ at[w].job = j => at[w].pc # "complete"
  PROVE  Unsettled(j)'
<1>1. JobsStay /\ JobChanges
  BY ShapedStep, JobsChange
<1> QED BY <1>1 DEF JobsStay, JobChanges, Unsettled

\* Who owed something and does not any more, while the subscription lives.
LEMMA StopsOwing ==
  ASSUME Shaped, Deletions, DeletionsFinal, Live, NEW w \in SyncWorkers, SyncStep(w), Owing(w),
         at'[w] # Idle, ~Owing(w)'
  PROVE  \/ /\ at[w].pc = "create" /\ panel.id # 0 /\ at'[w].pc = "link" /\ Same
            /\ adopted' = (adopted \/ panel.term # row.term)
         \/ at[w].pc = "create" /\ panel.id = 0 /\ at'[w].pc = "link" /\ panel'.id = profiles + 1
         \/ /\ at[w].pc = "patch" /\ panel.id = at[w].cur.link /\ at'[w].pc = "recheck" /\ row' = row
            /\ panel'.term = at[w].cur.term /\ at[w].cur.term = row.term
<1>1. Busy(w) /\ at[w].pc \notin {"delete", "retire"} /\ ~Removes(at[w].job) /\ Created(at[w].job) /\ Turns(w)
  BY Stepping, NothingRemoves, TurnsTaken DEF Shaped, Known
<1>2. ASSUME NEW s \in {"create", "reload", "patch", "fail", "detach"}, NEW c, NEW f, Turn(w, s, c, f) PROVE FALSE
  BY <1>2 DEF Turn, Owing
<1>3. Handler(at[w].job, at[w].cur) \in {"create", "reload"}
  BY <1>1 DEF Handler, Removes
<1>4. at[w].pc = "recheck" => ~SameProfile(row, at[w].cur)
  BY DEF Owing, SameProfile
<1>5. CASE at[w].pc = "create" /\ panel.id # 0 /\ Turn(w, "link", at[w].cur, panel.id) /\ Same
           /\ adopted' = (adopted \/ panel.term # row.term)
  BY <1>5 DEF Turn
<1>6. CASE at[w].pc = "create" /\ panel.id = 0 /\ Turn(w, "link", at[w].cur, profiles + 1)
           /\ panel' = [id |-> profiles + 1, term |-> at[w].cur.term]
  BY <1>6 DEF Turn
<1>7. CASE /\ at[w].pc = "patch" /\ panel.id = at[w].cur.link /\ Turn(w, "recheck", at[w].cur, at[w].found)
           /\ row' = row /\ panel' = [panel EXCEPT !.term = at[w].cur.term]
  <2>1. panel'.term = at[w].cur.term
    BY <1>7 DEF Shaped, RestOK
  <2>2. at[w].cur.term = row.term
    BY <1>7 DEF Turn, Owing
  <2> QED BY <1>7, <2>1, <2>2 DEF Turn
<1>8. at[w].pc \notin {"link", "ensure"}
  BY DEF Owing
<1> QED BY <1>1, <1>2, <1>3, <1>4, <1>5, <1>6, <1>7, <1>8 DEF Turns

\* A job that owes the term goes on owing it, unless its worker has just written.
LEMMA TermGoesOn ==
  ASSUME Shaped, Deletions, Behind, Calm', [SyncNext]_syncVars, NEW j \in Jobs, OwesTerm(j)
  PROVE  \/ OwesTerm(j)'
         \/ \E w \in SyncWorkers : SyncStep(w) /\ Owing(w) /\ at'[w] # Idle /\ ~Owing(w)'
<1> SUFFICES ASSUME ~\E w \in SyncWorkers : SyncStep(w) /\ Owing(w) /\ at'[w] # Idle /\ ~Owing(w)'
             PROVE  OwesTerm(j)'
  OBVIOUS
<1>1. Unsettled(j)'
  BY StillUnsettled DEF OwesTerm, Owing
<1>2. ASSUME NEW v \in SyncWorkers, Busy(v)', at'[v].job = j PROVE Owing(v)'
  <2>1. at'[v] # Idle
    BY <1>2 DEF Busy
  <2>2. CASE at'[v] = at[v]
    <3>1. Busy(v) /\ Owing(v)
      BY <1>2, <2>1, <2>2 DEF Busy, OwesTerm
    <3> QED BY <2>2, <3>1, OwingStays
  <2>3. CASE SyncStep(v)
    <3>1. Busy(v) /\ at[v].job = j
      BY <1>2, <2>1, <2>3, TurnsTaken, Stepping DEF Shaped
    <3> QED BY <2>1, <2>3, <3>1 DEF OwesTerm
  <2>4. ASSUME NEW i \in Jobs, Pick(v, i), at'[v] # at[v] PROVE Owing(v)'
    <3>1. at'[v] = [pc |-> "claim", job |-> i, cur |-> row, round |-> 1, found |-> 0, passing |-> FALSE]
      BY <2>4, PickEffect
    <3>2. at'[v].pc = "claim"
      BY <3>1
    <3> QED BY <3>2 DEF Owing
  <2> QED BY <2>1, <2>2, <2>3, <2>4, Hands
<1> QED BY <1>1, <1>2 DEF OwesTerm

\* What was adopted stays so until a worker writes to the panel.
LEMMA AdoptedStays ==
  ASSUME Shaped, [SyncNext]_syncVars, adopted
  PROVE  \/ adopted'
         \/ \E w \in SyncWorkers :
              Patch(w) /\ panel.id = at[w].cur.link /\ panel' = [panel EXCEPT !.term = at[w].cur.term]
<1>1. CASE UNCHANGED syncVars
  BY <1>1 DEF syncVars, history
<1>2. CASE Outside
  BY <1>2 DEF Outside, Renew, Disable, Remove, TermEnds, ScanExpired, MarkExpired, PickExpired, Cleanup,
         PanelEvent, HearEvent, history
<1>3. CASE (\E w \in SyncWorkers : \E j \in Jobs : Pick(w, j)) \/ Cron \/ Die
  BY <1>3 DEF Pick, Cron, SweepPending, Recover, Requeue, Die, cronRest
<1>4. ASSUME NEW w \in SyncWorkers, SyncStep(w), ~Patch(w) PROVE adopted'
  <2>1. CASE Create(w)
    BY <2>1 DEF Create
  <2>2. CASE Claim(w) \/ Reload(w) \/ Link(w) \/ Detach(w) \/ Recheck(w) \/ Ensure(w) \/ Delete(w) \/ Retire(w) \/ Complete(w) \/ Fail(w)
    BY <2>2 DEF Claim, Reload, Link, Detach, Recheck, Ensure, Delete, Retire, Complete, Fail
  <2> QED BY <1>4, <2>1, <2>2 DEF SyncStep
<1>5. ASSUME NEW w \in SyncWorkers, Patch(w)
      PROVE  adopted' \/ (panel.id = at[w].cur.link /\ panel' = [panel EXCEPT !.term = at[w].cur.term])
  BY <1>5 DEF Patch
<1> QED BY <1>1, <1>2, <1>3, <1>4, <1>5 DEF SyncNext, Outside

\* A worker creates the profile with what it has read.
LEMMA CreatedTerm ==
  ASSUME Shaped, Deletions, DeletionsFinal, Behind, Untouched, Live, Calm', [SyncNext]_syncVars,
         NEW w \in SyncWorkers, Create(w), panel.id = 0,
         panel' = [id |-> profiles + 1, term |-> at[w].cur.term]
  PROVE  TermOK'
<1>1. row' = row /\ panel'.term = at[w].cur.term /\ Busy(w) /\ NotYet(w) /\ job' = job /\ Moved(w) /\ SyncStep(w)
  BY Stepping, WorkerMoves DEF Create, SyncStep, Untouched, Shaped
<1>2. CASE at[w].cur.term = row.term
  BY <1>1, <1>2 DEF TermOK
<1>3. ASSUME NEW j \in Jobs, Created(j), j # at[w].job PROVE TermOK'
  <2>1. Unsettled(j) /\ \A v \in SyncWorkers : Busy(v) => NotYet(v)
    BY <1>3 DEF Untouched, Unsettled
  <2>2. ASSUME NEW v \in SyncWorkers, Busy(v) PROVE Owing(v)
    <3>1. at[v].pc \in Pcs /\ at[v].pc \notin {"delete", "retire", "link", "recheck", "ensure", "complete"}
      BY <2>1, <2>2, AtWork, NothingRemoves DEF NotYet, Shaped
    <3> QED BY <3>1 DEF Pcs, Owing
  <2>3. OwesTerm(j)
    BY <2>1, <2>2 DEF OwesTerm
  <2>4. Unsettled(j)'
    BY <1>1, <2>1 DEF Unsettled, Created
  <2>5. ASSUME NEW v \in SyncWorkers, Busy(v)', at'[v].job = j PROVE Owing(v)'
    <3>1. v # w /\ at'[v] = at[v]
      BY <1>1, <1>3, <2>5 DEF Moved, Busy
    <3> QED BY <1>1, <2>2, <2>5, <3>1, OwingStays DEF Busy
  <2>6. OwesTerm(j)'
    BY <2>4, <2>5 DEF OwesTerm
  <2> QED BY <2>6 DEF TermOK
<1> QED BY <1>1, <1>2, <1>3 DEF NotYet

\* A worker that has written looks again at the row.
LEMMA WrittenTerm ==
  ASSUME Shaped, Deletions, Behind, Calm', [SyncNext]_syncVars,
         NEW w \in SyncWorkers, Patch(w), panel.id = at[w].cur.link, panel' = [panel EXCEPT !.term = at[w].cur.term]
  PROVE  TermOK'
<1>1. row' = row /\ Busy(w) /\ job' = job /\ Moved(w) /\ at[w].pc = "patch" /\ at[w].job \in Jobs /\ Turns(w)
      /\ WorkerOK(w) /\ Created(at[w].job)
  BY Stepping, WorkerMoves, AtWork, TurnsTaken DEF Patch, SyncStep, Shaped, Deletions, WorkersOK, Known
<1>2. panel'.term = at[w].cur.term
  BY DEF Shaped, RestOK
<1>3. CASE at[w].cur.term = row.term
  BY <1>1, <1>2, <1>3 DEF TermOK
<1>4. CASE at[w].cur.term # row.term
  <2>1. PICK j \in Jobs : j = at[w].job
    BY <1>1
  <2>2. Unsettled(j)'
    BY <1>1, <2>1 DEF WorkerOK, Unsettled, Created
  <2>3. at'[w] # Idle => Owing(w)'
    BY <1>1, <1>4 DEF Turns, Turn, Owing
  <2>4. ASSUME NEW v \in SyncWorkers, Busy(v)', at'[v].job = j PROVE v = w
    <3>1. ASSUME v # w PROVE FALSE
      <4>1. Busy(v) /\ at[v].job = j
        BY <1>1, <2>4, <3>1 DEF Moved, Busy
      <4> QED BY <1>1, <2>1, <3>1, <4>1 DEF Shaped, OneWorkerEach, Busy
    <3> QED BY <3>1
  <2>5. OwesTerm(j)'
    BY <2>2, <2>3, <2>4 DEF OwesTerm, Busy
  <2> QED BY <2>5 DEF TermOK
<1> QED BY <1>3, <1>4

\* Every step keeps the term on the panel or owed.
LEMMA TermStep ==
  ASSUME Shaped, Deletions, DeletionsFinal, Behind, LinksOK, Untouched, TermOK, Live, Live', Calm', [SyncNext]_syncVars
  PROVE  TermOK'
<1>1. CalmRows /\ PanelMoves
  BY CalmRow, PanelMove
<1>2. CASE Renew
  <2>1. PICK k \in Jobs : ~Created(k) /\ Created(k)' /\ job'[k].status = "PENDING" /\ at' = at
    BY <1>2, RenewHires DEF Shaped
  <2>2. \A v \in SyncWorkers : Busy(v)' => at'[v].job # k
    BY <2>1 DEF Shaped, Known, Busy
  <2>3. OwesTerm(k)'
    BY <2>1, <2>2 DEF OwesTerm, Unsettled
  <2> QED BY <2>3 DEF TermOK
<1>3. ASSUME NEW w \in SyncWorkers, Create(w), panel.id = 0,
             panel' = [id |-> profiles + 1, term |-> at[w].cur.term]
      PROVE  TermOK'
  BY <1>3, CreatedTerm
<1>4. ASSUME NEW w \in SyncWorkers, Patch(w), panel.id = at[w].cur.link, panel' = [panel EXCEPT !.term = at[w].cur.term]
      PROVE  TermOK'
  BY <1>4, WrittenTerm
<1>5. ASSUME NEW w \in SyncWorkers, Delete(w) PROVE FALSE
  BY <1>5, Stepping, NothingRemoves DEF SyncStep, Delete, Shaped
<1>6. CASE panel' = panel /\ row'.term = row.term
  <2>1. CASE panel.term = row.term
    BY <1>6, <2>1 DEF TermOK
  <2>2. CASE adopted
    BY <1>4, <2>2, AdoptedStays DEF TermOK
  <2>3. ASSUME NEW j \in Jobs, OwesTerm(j) PROVE TermOK'
    <3>1. CASE OwesTerm(j)'
      BY <3>1 DEF TermOK
    <3>2. ASSUME NEW w \in SyncWorkers, SyncStep(w), Owing(w), at'[w] # Idle, ~Owing(w)' PROVE TermOK'
      <4>1. CASE adopted' = (adopted \/ panel.term # row.term)
        BY <1>6, <2>1, <4>1, Zenon DEF TermOK
      <4>2. CASE panel.id = 0 /\ panel'.id = profiles + 1
        <5>1. profiles + 1 # 0
          BY Numbers DEF Shaped, RestOK
        <5> QED BY <1>6, <4>2, <5>1
      <4>3. CASE panel'.term = at[w].cur.term /\ at[w].cur.term = row.term
        BY <1>6, <4>3 DEF TermOK
      <4> QED BY <3>2, <4>1, <4>2, <4>3, StopsOwing
    <3> QED BY <2>3, <3>1, <3>2, TermGoesOn
  <2> QED BY <2>1, <2>2, <2>3 DEF TermOK
<1> QED BY <1>1, <1>2, <1>3, <1>4, <1>5, <1>6 DEF CalmRows, PanelMoves

\* A job goes on until the row is linked.
LEMMA LinkGoesOn ==
  ASSUME Shaped, Deletions, DeletionsFinal, Behind, LinksOK, Live, Calm', [SyncNext]_syncVars,
         ~LinkedUp, NEW j \in Jobs, OwesLink(j)
  PROVE  OwesLink(j)' \/ LinkedUp'
<1> SUFFICES ASSUME ~LinkedUp' PROVE OwesLink(j)'
  OBVIOUS
<1>1. Unsettled(j)'
  BY StillUnsettled DEF OwesLink, Owing
<1>2. ASSUME NEW v \in SyncWorkers, Busy(v)', at'[v].job = j PROVE Owing(v)' \/ at'[v].pc = "link"
  <2>1. at'[v] # Idle
    BY <1>2 DEF Busy
  <2>2. CASE at'[v] = at[v]
    <3>1. Busy(v) /\ (Owing(v) \/ at[v].pc = "link")
      BY <1>2, <2>1, <2>2 DEF Busy, OwesLink
    <3> QED BY <2>2, <3>1, OwingStays
  <2>3. CASE SyncStep(v)
    <3>1. Busy(v) /\ at[v].job = j /\ Turns(v) /\ WorkerOK(v) /\ WorkerLinks(v)
      BY <1>2, <2>1, <2>3, TurnsTaken, Stepping DEF Shaped, LinksOK, Deletions, WorkersOK
    <3>2. Owing(v) \/ at[v].pc = "link"
      BY <3>1 DEF OwesLink
    <3>3. CASE at[v].pc = "link"
      <4>1. CASE Turn(v, "fail", at[v].cur, at[v].found)
        BY <4>1 DEF Turn, Owing
      <4>2. CASE row' = [row EXCEPT !.link = at[v].found] /\ panel' = panel
        <5>1. row'.link = at[v].found
          BY <4>2 DEF Shaped, RestOK, Row
        <5> QED BY <3>1, <3>3, <4>2, <5>1 DEF WorkerLinks, LinkedUp
      <4> QED BY <2>1, <3>1, <3>3, <4>1, <4>2 DEF Turns
    <3>4. CASE Owing(v) /\ ~Owing(v)'
      <4>1. CASE at[v].pc = "patch" /\ panel.id = at[v].cur.link
        BY <3>1, <4>1 DEF WorkerOK, Linked, WorkerLinks, LinkedUp
      <4> QED BY <2>1, <2>3, <3>4, <4>1, StopsOwing
    <3> QED BY <3>2, <3>3, <3>4
  <2>4. ASSUME NEW i \in Jobs, Pick(v, i), at'[v] # at[v] PROVE Owing(v)'
    <3>1. at'[v] = [pc |-> "claim", job |-> i, cur |-> row, round |-> 1, found |-> 0, passing |-> FALSE]
      BY <2>4, PickEffect
    <3>2. at'[v].pc = "claim"
      BY <3>1
    <3> QED BY <3>2 DEF Owing
  <2> QED BY <2>1, <2>2, <2>3, <2>4, Hands
<1> QED BY <1>1, <1>2 DEF OwesLink

\* Every step keeps the link set or owed.
LEMMA LinkStep ==
  ASSUME Shaped, Deletions, DeletionsFinal, Behind, LinksOK, LinkOK, Live, Live', Calm', [SyncNext]_syncVars
  PROVE  LinkOK'
<1>1. LinkMoves
  BY LinkMove
<1>2. CASE LinkedUp
  <2>1. LinkedUp'
    BY <1>1, <1>2 DEF LinkMoves, LinkedUp
  <2> QED BY <2>1 DEF LinkOK
<1>3. ASSUME NEW j \in Jobs, OwesLink(j), ~LinkedUp PROVE LinkOK'
  BY <1>3, LinkGoesOn DEF LinkOK
<1> QED BY <1>2, <1>3 DEF LinkOK

\* A profile whose row is linked to it is as it should be.
LEMMA LinkedIsOwned ==
  ASSUME RemovalOnRecord', panel'.id # 0, row'.link = panel'.id
  PROVE  ProfileOwned'
<1>1. CASE Live'
  BY <1>1 DEF ProfileOwned
<1>2. CASE ~Live'
  <2>1. Removing(row.link)'
    BY <1>2 DEF RemovalOnRecord, Live
  <2>2. Removing(panel.id)'
    BY <2>1 DEF Removing
  <2> QED BY <2>2 DEF ProfileOwned
<1> QED BY <1>1, <1>2

\* Who is linked to a profile links the row to it, and only then is its
\* creator no longer missed.
LEMMA OrphanStays ==
  ASSUME Shaped, [SyncNext]_syncVars, orphaned
  PROVE  orphaned' \/ \E w \in SyncWorkers : Link(w) /\ panel.id = at[w].found
<1>1. CASE UNCHANGED syncVars
  BY <1>1 DEF syncVars, history
<1>2. CASE Outside
  BY <1>2 DEF Outside, Renew, Disable, Remove, TermEnds, ScanExpired, MarkExpired, PickExpired, Cleanup,
         PanelEvent, HearEvent, history
<1>3. CASE (\E w \in SyncWorkers : \E j \in Jobs : Pick(w, j)) \/ Cron
  BY <1>3 DEF Pick, Cron, SweepPending, Recover, Requeue, cronRest
<1>4. CASE Die
  BY <1>4 DEF Die
<1>5. ASSUME NEW w \in SyncWorkers, SyncStep(w), ~Link(w) PROVE orphaned'
  <2>1. CASE Create(w)
    BY <2>1 DEF Create
  <2>2. CASE Claim(w) \/ Reload(w) \/ Patch(w) \/ Detach(w) \/ Recheck(w) \/ Ensure(w) \/ Delete(w) \/ Retire(w) \/ Complete(w) \/ Fail(w)
    BY <2>2 DEF Claim, Reload, Patch, Detach, Recheck, Ensure, Delete, Retire, Complete, Fail
  <2> QED BY <1>5, <2>1, <2>2 DEF SyncStep
<1>6. ASSUME NEW w \in SyncWorkers, Link(w) PROVE orphaned' \/ panel.id = at[w].found
  BY <1>6 DEF Link
<1> QED BY <1>1, <1>2, <1>3, <1>4, <1>5, <1>6 DEF SyncNext, Outside

\* Every step keeps a profile on the panel owned.
LEMMA OwnedStep ==
  ASSUME Shaped, Deletions, RemovalOnRecord, DeletionsFinal, ProfileOwned, Live => LinksOK, [SyncNext]_syncVars
  PROVE  ProfileOwned'
<1> SUFFICES ASSUME panel'.id # 0 PROVE ProfileOwned'
  BY DEF ProfileOwned
<1>1. PanelMoves /\ RowChanges /\ RemovalOnRecord' /\ row \in Row /\ Onward
  BY PanelMove, RowMoves, RecordStep, GoesOnward DEF Shaped, RestOK
<1>2. ASSUME NEW w \in SyncWorkers, Create(w), panel.id = 0, profiles' = profiles + 1,
             panel' = [id |-> profiles + 1, term |-> at[w].cur.term]
      PROVE  ProfileOwned'
  <2>1. \/ at'[w] = [at[w] EXCEPT !.pc = "link", !.found = profiles']
        \/ orphaned'
        \/ panel' = panel
    BY <1>2, CreateEffect DEF Shaped
  <2>2. at[w] \in Work
    BY <1>2, Stepping, AtWork DEF Shaped, SyncStep
  <2>3. CASE at'[w] = [at[w] EXCEPT !.pc = "link", !.found = profiles']
    <3>1. at'[w].pc = "link" /\ at'[w].found = panel'.id /\ at'[w] # Idle
      BY <1>2, <2>2, <2>3 DEF Work, Idle
    <3>2. Linking(w)'
      BY <3>1 DEF Linking, Busy
    <3> QED BY <3>2 DEF ProfileOwned
  <2>4. CASE panel' = panel
    BY <1>2, <2>4
  <2> QED BY <2>1, <2>3, <2>4 DEF ProfileOwned
<1>3. CASE panel'.id = panel.id
  <2>1. ASSUME NEW w \in SyncWorkers, Link(w), at[w].found = panel.id PROVE ProfileOwned'
    <3>1. row'.link = panel'.id
      BY <1>1, <1>3, <2>1 DEF Link, Row
    <3> QED BY <1>1, <3>1, LinkedIsOwned
  <2>2. CASE Removing(panel.id)
    <3>1. PICK id : id = panel.id
      OBVIOUS
    <3>2. Removing(id)'
      BY <1>3, <2>2, <3>1, RemovingStays
    <3>3. Removing(panel.id)'
      BY <1>3, <3>1, <3>2 DEF Removing
    <3> QED BY <3>3 DEF ProfileOwned
  <2>3. CASE orphaned
    BY <2>1, <2>3, OrphanStays DEF ProfileOwned
  <2>4. ASSUME NEW w \in SyncWorkers, Linking(w) PROVE ProfileOwned'
    <3>1. CASE at'[w] = at[w]
      <4>1. Linking(w)'
        BY <1>3, <2>4, <3>1 DEF Linking, Busy
      <4> QED BY <4>1 DEF ProfileOwned
    <3>2. CASE SyncStep(w)
      <4>1. Link(w)
        BY <2>4, <3>2 DEF Linking, SyncStep, Claim, Reload, Create, Patch, Detach, Recheck, Ensure, Delete,
           Retire, Complete, Fail
      <4> QED BY <2>1, <2>4, <4>1 DEF Linking
    <3>3. CASE Die
      <4>1. orphaned'
        BY <2>4, <3>3 DEF Linking, Die
      <4> QED BY <4>1 DEF ProfileOwned
    <3>4. ASSUME NEW j \in Jobs, Pick(w, j) PROVE FALSE
      BY <2>4, <3>4 DEF Linking, Pick, Busy
    <3> QED BY <3>1, <3>2, <3>3, <3>4, Hands
  <2>5. CASE Live /\ row.link = panel.id
    <3>1. ASSUME NEW w \in SyncWorkers, Link(w) PROVE at[w].found = panel.id
      BY <2>5, <3>1, Stepping DEF Link, SyncStep, LinksOK, WorkerLinks, Shaped
    <3>2. ASSUME NEW w \in SyncWorkers, Retire(w) PROVE FALSE
      BY <2>5, <3>2, Stepping, NothingRemoves DEF SyncStep, Retire, Shaped
    <3>3. ASSUME NEW w \in SyncWorkers, Detach(w) PROVE row' = row
      BY <2>5, <3>3, Stepping, DetachEffect DEF Detach, SyncStep, LinksOK, WorkerLinks, Shaped
    <3>4. row'.link = row.link \/ \E w \in SyncWorkers : Link(w)
      BY <1>1, <3>2, <3>3 DEF RowChanges, Row
    <3> QED BY <1>1, <1>3, <2>1, <2>5, <3>1, <3>4, LinkedIsOwned
  <2> QED BY <1>3, <2>2, <2>3, <2>4, <2>5 DEF ProfileOwned
<1>4. CASE panel'.id # panel.id
  <2>1. ASSUME NEW w \in SyncWorkers, Patch(w), panel' = [panel EXCEPT !.term = at[w].cur.term]
        PROVE  panel'.id = panel.id
    BY <2>1 DEF Shaped, RestOK
  <2>2. ~(panel' \in {[id |-> 0, term |-> 0], panel})
    BY <1>4
  <2> QED BY <1>1, <1>2, <1>4, <2>1, <2>2 DEF PanelMoves
<1> QED BY <1>3, <1>4

\* Every step keeps the third tier.
LEMMA KeptStep ==
  ASSUME Shaped, Deletions, RemovalOnRecord, Kept, [SyncNext]_syncVars
  PROVE  Kept'
<1> SUFFICES ASSUME Calm'
             PROVE  DeletionsFinal' /\ Behind' /\ ProfileOwned' /\ (Live' => LiveOK')
  BY DEF Kept
<1>1. DeletionsFinal /\ Behind /\ ProfileOwned /\ (Live => LiveOK)
  BY CalmBefore DEF Kept
<1>2. DeletionsFinal' /\ Behind'
  BY <1>1, FinalStep, BehindStep
<1>3. ProfileOwned'
  BY <1>1, OwnedStep DEF LiveOK
<1>4. ASSUME Live' PROVE LiveOK'
  <2>1. Live
    BY <1>1, <1>4, CalmRow DEF CalmRows
  <2>2. LinksOK' /\ Untouched' /\ TermOK' /\ LinkOK'
    BY <1>1, <1>4, <2>1, LinksStep, UntouchedStep, TermStep, LinkStep DEF LiveOK
  <2> QED BY <2>2 DEF LiveOK
<1> QED BY <1>2, <1>3, <1>4

\* The third tier holds at the start.
LEMMA KeptInit == SyncInit => Kept
<1> SUFFICES ASSUME SyncInit PROVE DeletionsFinal /\ Behind /\ ProfileOwned /\ LiveOK
  BY DEF Kept
<1>1. \A w \in SyncWorkers : ~Busy(w)
  BY DEF SyncInit, Busy
<1>2. \A j \in Jobs : job[j] \in {NoJob, NewJob("CREATE", 0), NewJob("UPDATE", 0)}
  BY DEF SyncInit
<1>3. \A j \in Jobs : Created(j) =>
        job[j].action # "DELETE" /\ ~job[j].superseded /\ job[j].status = "PENDING"
  BY <1>2 DEF NewJob, NoJob, Created
<1>4. DeletionsFinal
  BY <1>3 DEF DeletionsFinal
<1>5. scenario.start \in {"new", "lost", "linked"}
  BY ProfileSyncAssumption DEF SyncInit
<1>6. row.term = 1 /\ panel.term \in {0, 1} /\ (scenario.start = "linked" <=> panel.id # 0)
      /\ (scenario.start = "linked" => panel.id = row.link /\ panel.term = 1)
  BY <1>5 DEF SyncInit
<1>7. Behind
  BY <1>1, <1>6 DEF Behind
<1>8. ProfileOwned
  BY <1>6 DEF ProfileOwned, Live, SyncInit
<1>9. LinksOK /\ Untouched
  BY <1>1, <1>3, <1>6 DEF LinksOK, RowLinked, Untouched
<1>10. TermOK /\ LinkOK
  <2>1. CASE scenario.start = "linked"
    BY <1>6, <2>1 DEF TermOK, LinkOK, LinkedUp
  <2>2. CASE scenario.start # "linked"
    <3>1. job[1] \in {NewJob("CREATE", 0), NewJob("UPDATE", 0)}
      BY <1>5, <2>2, Numbers DEF SyncInit
    <3>2. Created(1)
      BY <3>1 DEF Created, NewJob, NoJob
    <3>3. Unsettled(1)
      BY <1>3, <3>2, Numbers DEF Unsettled
    <3>4. OwesTerm(1) /\ OwesLink(1)
      BY <1>1, <3>3 DEF OwesTerm, OwesLink
    <3> QED BY <3>4, Numbers DEF TermOK, LinkOK
  <2> QED BY <2>1, <2>2
<1> QED BY <1>4, <1>7, <1>8, <1>9, <1>10 DEF LiveOK

\* With nothing under way nothing is owed, so the third tier is the convergence.
LEMMA KeptConverges ==
  ASSUME Shaped, Deletions, Kept
  PROVE  Converged
<1> SUFFICES ASSUME Quiet, ~overwritten, ~condemned
             PROVE  /\ row.status = "ACTIVE" =>
                         panel.id # 0 /\ row.link = panel.id /\ (panel.term = row.term \/ adopted)
                    /\ row.status = "DELETED" => panel.id = 0 \/ orphaned
  BY DEF Converged
<1>1. DeletionsFinal /\ ProfileOwned /\ (Live => LiveOK)
  BY DEF Kept, Calm
<1>2. \A w \in SyncWorkers : ~Busy(w)
  BY DEF Quiet, Busy
<1>3. \A j \in Jobs : Created(j) => job[j].status = "COMPLETED" \/ job[j].superseded
  BY DEF Quiet, Settled
<1>4. Live => panel.id # 0 /\ row.link = panel.id /\ (panel.term = row.term \/ adopted)
  <2> SUFFICES ASSUME Live PROVE panel.id # 0 /\ row.link = panel.id /\ (panel.term = row.term \/ adopted)
    OBVIOUS
  <2>1. \A j \in Jobs : ~Unsettled(j)
    BY <1>1, <1>3 DEF Unsettled, DeletionsFinal
  <2>2. TermOK /\ LinkOK
    BY <1>1 DEF LiveOK
  <2> QED BY <2>1, <2>2 DEF TermOK, LinkOK, LinkedUp, OwesTerm, OwesLink
<1>5. ~Live => panel.id = 0 \/ orphaned
  <2> SUFFICES ASSUME ~Live, panel.id # 0 PROVE orphaned
    OBVIOUS
  <2>1. ~Removing(panel.id)
    <3> SUFFICES ASSUME NEW j \in Jobs, Created(j), job[j].action = "DELETE", job[j].status \in Open PROVE FALSE
      BY DEF Removing
    <3>1. ~job[j].superseded
      BY DEF Deletions, Removals, Removes
    <3>2. job[j].status # "COMPLETED"
      BY DEF Open
    <3> QED BY <1>3, <3>1, <3>2
  <2> QED BY <1>1, <1>2, <2>1 DEF ProfileOwned, Linking
<1> QED BY <1>4, <1>5 DEF Live

-----------------------------------------------------------------------------
(* The theorems                                                            *)

\* What is so throughout: the types, one worker to a job, what is deleted, and
\* what is kept in calm.
SyncInductive == Shaped /\ Deletions /\ RemovalOnRecord /\ Kept

\* It is so at the start and after every step.
THEOREM SyncInductiveHolds == SyncSpec => []SyncInductive
<1>1. SyncInit => SyncInductive
  BY ShapedInit, RowInit, KeptInit DEF SyncInductive
<1>2. SyncInductive /\ [SyncNext]_syncVars => SyncInductive'
  BY ShapedStep, DeletionsStep, RecordStep, KeptStep DEF SyncInductive
<1> QED BY <1>1, <1>2, PTL DEF SyncSpec

\* The row, its jobs and the queue keep their types, a job has one worker at a
\* time, and the synchronisation deletes no subscription of its own accord.
THEOREM SyncStaysConsistent == SyncSpec => []SyncConsistent
<1>1. SyncInductive => SyncConsistent
  BY TypeParts DEF SyncInductive, Shaped, Deletions, SyncConsistent
<1> QED BY <1>1, SyncInductiveHolds, PTL

\* The profile of a deleted subscription has an open job that removes it, for
\* as long as the row knows of it.
THEOREM DeletionsAreNotForgotten == SyncSpec => []RemovalOnRecord
<1>1. SyncInductive => RemovalOnRecord
  BY DEF SyncInductive
<1> QED BY <1>1, SyncInductiveHolds, PTL

\* When every job is done the panel has what the subscription says, in whatever
\* order the workers read, wrote, failed and died, unless old news was written
\* over the row or a removal came of a row that was switched off.
THEOREM WritersConverge == SyncSpec => []Converged
<1>1. SyncInductive => Converged
  BY KeptConverges DEF SyncInductive
<1> QED BY <1>1, SyncInductiveHolds, PTL
=============================================================================
