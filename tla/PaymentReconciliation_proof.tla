----------------------- MODULE PaymentReconciliation_proof -----------------------
(***************************************************************************)
(* What holds of the reconciliation of a payment for every number of       *)
(* handlers, of events, of failures, crashes and replays: types, the       *)
(* refinement of the claim protocol, and the properties of the row, of a   *)
(* refund and of captured money.                                           *)
(*                                                                         *)
(* The proofs are layered.  First what each action does to the row, to the *)
(* processes and to the inbox, so that no later proof opens an action to   *)
(* compute with records.  Then the types, and the role of every process:   *)
(* the step it is at fits the job it does and the news the job brings.     *)
(* Then the view of the claim protocol, step by step.  Last the row: what  *)
(* a handler that nobody disturbs knows of it, what is known of a payment  *)
(* delivered long ago, and which notification is still open while captured *)
(* money is not delivered.                                                 *)
(***************************************************************************)
EXTENDS PaymentReconciliation, FiniteSetTheorems, TLAPS

\* What a handler carries from step to step is typed.
ProcsOK ==
    /\ pc \in [Procs -> Steps]
    /\ job \in [Procs -> Events \cup {NoJob, "expiry", "recovery"}]
    /\ snap \in [Procs -> Rows]
    /\ claimedAt \in [Procs -> Nat]

\* Process q is not disturbed by the step.
Same(q) ==
    /\ pc'[q] = pc[q] /\ job'[q] = job[q]
    /\ snap'[q] = snap[q] /\ claimedAt'[q] = claimedAt[q]

\* Only p moves.
Others(p) == \A q \in Procs : q # p => Same(q)

\* p goes on to the step, with what it carries.
Goes(p, step) ==
    /\ Others(p) /\ pc'[p] = step /\ job'[p] = job[p]
    /\ snap'[p] = snap[p] /\ claimedAt'[p] = claimedAt[p]

\* p ends its handler and forgets what it carried.
Ends(p) ==
    /\ Others(p) /\ pc'[p] = "idle" /\ job'[p] = NoJob
    /\ snap'[p] = NoRow /\ claimedAt'[p] = Null

\* p takes job j with the row as its snapshot.
Starts(p, j, step) ==
    /\ Others(p) /\ pc[p] = "idle" /\ pc'[p] = step /\ job'[p] = j
    /\ snap'[p] = row /\ claimedAt'[p] = claimedAt[p]

\* Goto moves one process.
LEMMA Going ==
  ASSUME ProcsOK, NEW p \in Procs, NEW step \in Steps, Goto(p, step)
  PROVE  ProcsOK' /\ Goes(p, step)
  BY DEF ProcsOK, Goto, Goes, Others, Same

\* Finish ends the handler of one process.
LEMMA Ending ==
  ASSUME ProcsOK, NEW p \in Procs, Finish(p)
  PROVE  ProcsOK' /\ Ends(p)
<1>1. "idle" \in Steps /\ NoRow \in Rows /\ Null \in Nat
  BY DEF Steps, NoRow, Rows, Null
<1>2. ProcsOK'
  BY <1>1 DEF ProcsOK, Finish
<1>3. QED
  BY <1>2 DEF ProcsOK, Finish, Ends, Others, Same

\* Take starts a handler on the row as it is.
LEMMA Starting ==
  ASSUME ProcsOK, row \in Rows, NEW p \in Procs, NEW step \in Steps,
         NEW j \in Events \cup {NoJob, "expiry", "recovery"}, Take(p, j, step)
  PROVE  ProcsOK' /\ Starts(p, j, step)
  BY DEF ProcsOK, Take, Starts, Others, Same

\* A step outside the processes moves none of them.
LEMMA Unmoved ==
  ASSUME ProcsOK, UNCHANGED <<pc, job, snap, claimedAt>>
  PROVE  ProcsOK' /\ \A q \in Procs : Same(q)
  BY DEF ProcsOK, Same

\* The row written over a snapshot.
LEMMA Overwriting ==
  ASSUME row \in Rows, NEW s \in Rows
  PROVE  /\ OverSnapshot(s) \in Rows
         /\ OverSnapshot(s).status = row.status
         /\ OverSnapshot(s).fulfilledAt = row.fulfilledAt
         /\ OverSnapshot(s).linked = row.linked
         /\ OverSnapshot(s).gatewayId = row.gatewayId
         /\ OverSnapshot(s).hold = s.hold
         /\ OverSnapshot(s).reversed = s.reversed
  BY DEF Rows, OverSnapshot

\* What is not the processes' is typed.
DataOK ==
    /\ scenario \in Scenarios
    /\ provider \in {"pending", "succeeded", "canceled"}
    /\ refunded \in BOOLEAN
    /\ row \in Rows
    /\ trial \in {"NONE", "RESERVED", "CONSUMED", "RELEASED"}
    /\ sub \in {"none", "active", "expired"}
    /\ payout \in BOOLEAN
    /\ inbox \in [Events -> InboxRows]
    /\ clock \in Nat \ {0}
    /\ aged \in BOOLEAN
    /\ faults \in 0 .. scenario.faults
    /\ swallowed \in BOOLEAN
    /\ deliveredAt \in SUBSET Nat

\* The type invariant in its two parts.
LEMMA TypeParts == TypeOK <=> ProcsOK /\ DataOK
  BY DEF TypeOK, ProcsOK, DataOK

------------------------------------------------------------------------------
(***************************************************************************)
(* What the actions do.                                                    *)
(***************************************************************************)

\* flagAmountMismatchForReview: the hold, over the reversal of the snapshot.
LEMMA HoldEffect ==
  ASSUME TypeOK, NEW p \in Procs, HoldForReview(p)
  PROVE  /\ ProcsOK' /\ row' \in Rows /\ pc[p] = "hold" /\ Goes(p, "ack")
         /\ row'.status = row.status /\ row'.fulfilledAt = row.fulfilledAt
         /\ row'.linked = row.linked
         /\ row'.hold = "manual" /\ row'.reversed = snap[p].reversed
<1>1. ProcsOK /\ row \in Rows /\ snap[p] \in Rows /\ "ack" \in Steps
  BY DEF TypeOK, ProcsOK, Steps
<1>2. ProcsOK' /\ Goes(p, "ack") /\ pc[p] = "hold"
  BY <1>1, Going DEF HoldForReview
<1>3. row' = [OverSnapshot(snap[p]) EXCEPT !.hold = "manual"]
  BY DEF HoldForReview
<1>4. QED
  BY <1>1, <1>2, <1>3, Overwriting DEF Rows

\* Where a reconciliation goes on once it has cleared a stale claim.
AfterClear(k) ==
    CASE NextStatus(k) = "CANCELED" -> "dropTrial"
      [] NextStatus(k) = "PENDING"  -> "ack"
      [] OTHER -> IF gateway = "YOOKASSA" THEN "verify" ELSE "write"

\* Clearing a stale claim touches fulfilledAt only, and only the stamp it saw.
LEMMA ClearEffect ==
  ASSUME TypeOK, NEW p \in Procs, ClearStale(p)
  PROVE  /\ ProcsOK' /\ row' \in Rows /\ pc[p] = "clear"
         /\ Goes(p, AfterClear(EventKind(job[p])))
         /\ row'.fulfilledAt = IF row.fulfilledAt = snap[p].fulfilledAt THEN Null
                               ELSE row.fulfilledAt
         /\ row'.status = row.status /\ row'.linked = row.linked
         /\ row'.hold = row.hold /\ row'.reversed = row.reversed
         /\ row'.fulfilledAt # Null => row' = row /\ aged' = aged
<1>1. ProcsOK /\ row \in Rows
  BY DEF TypeOK, ProcsOK
<1>2. AfterClear(EventKind(job[p])) \in Steps
  BY DEF AfterClear, Steps
<1>3. Goto(p, AfterClear(EventKind(job[p])))
  BY DEF ClearStale, AfterClear
<1>4. ProcsOK' /\ Goes(p, AfterClear(EventKind(job[p])))
  BY <1>1, <1>2, <1>3, Going
<1>5. IF row.fulfilledAt = snap[p].fulfilledAt
      THEN row' = [row EXCEPT !.fulfilledAt = Null] /\ aged' = FALSE
      ELSE row' = row /\ aged' = aged
  BY DEF ClearStale
<1>6. QED
  BY <1>1, <1>4, <1>5 DEF Rows, Null, ClearStale

\* A verification that failed writes at most the snapshot's data and a guard.
LEMMA UnavailableEffect ==
  ASSUME TypeOK, NEW p \in Procs, Unavailable(p)
  PROVE  /\ ProcsOK' /\ row' \in Rows /\ pc[p] = "verify" /\ Goes(p, "fail")
         /\ row'.status = row.status /\ row'.fulfilledAt = row.fulfilledAt
         /\ row'.linked = row.linked
         /\ \/ row'.hold = row.hold /\ row'.reversed = row.reversed
            \/ /\ row'.hold \in {snap[p].hold, "guard"}
               /\ snap[p].hold = "none" \/ row'.hold = snap[p].hold
               /\ row'.reversed = snap[p].reversed
<1>1. ProcsOK /\ row \in Rows /\ snap[p] \in Rows /\ "fail" \in Steps
  BY DEF TypeOK, ProcsOK, Steps
<1>2. ProcsOK' /\ Goes(p, "fail") /\ pc[p] = "verify"
  BY <1>1, Going DEF Unavailable
<1>3. row' = IF snap[p].gatewayId = "real" THEN row
             ELSE [OverSnapshot(snap[p]) EXCEPT
                      !.hold = IF @ = "none" /\ snap[p].gatewayId = "none"
                               THEN "guard" ELSE @]
  BY DEF Unavailable
<1>4. QED
  BY <1>1, <1>2, <1>3, Overwriting DEF Rows

\* The status write puts the snapshot's data and the event's status on the row.
LEMMA WriteEffect ==
  ASSUME TypeOK, NEW p \in Procs, WriteStatus(p)
  PROVE  LET next == NextStatus(EventKind(job[p])) IN
         /\ ProcsOK' /\ row' \in Rows /\ pc[p] = "write"
         /\ Goes(p, IF next = "COMPLETED" THEN "claim" ELSE "ack")
         /\ row'.status = next /\ row'.fulfilledAt = row.fulfilledAt
         /\ row'.linked = row.linked
         /\ row'.hold = Lifted(snap[p].hold, next)
         /\ row'.reversed = snap[p].reversed
         /\ trial' = IF next = "CANCELED" THEN ReleasedTrial ELSE trial
<1> DEFINE next == NextStatus(EventKind(job[p]))
           step == IF next = "COMPLETED" THEN "claim" ELSE "ack"
<1>1. ProcsOK /\ row \in Rows /\ snap[p] \in Rows /\ step \in Steps
  BY DEF TypeOK, ProcsOK, Steps
<1>2. Goto(p, step) /\ pc[p] = "write"
  BY DEF WriteStatus
<1>3. ProcsOK' /\ Goes(p, step)
  BY <1>1, <1>2, Going
<1>4. row' = [OverSnapshot(snap[p]) EXCEPT
                      !.status = next,
                      !.gatewayId = IF gateway = "YOOKASSA" /\ snap[p].gatewayId # "real"
                                    THEN "real" ELSE @,
                      !.hold = Lifted(@, next)]
      /\ trial' = IF next = "CANCELED" THEN ReleasedTrial ELSE trial
  BY DEF WriteStatus
<1>5. next \in {"PENDING", "COMPLETED", "CANCELED"}
      /\ Lifted(snap[p].hold, next) \in {"none", "guard", "manual"}
  BY <1>1 DEF NextStatus, Lifted, Rows
<1>6. QED
  BY <1>1, <1>2, <1>3, <1>4, <1>5, Overwriting DEF Rows

\* A claim stamps fulfilledAt; the sweep's completes the row with it.
LEMMA ClaimEffect ==
  ASSUME TypeOK, NEW p \in Procs, Claim(p)
  PROVE  /\ ProcsOK' /\ row' \in Rows /\ pc[p] = "claim" /\ MayClaim(p)
         /\ Others(p) /\ pc'[p] = "provision" /\ claimedAt'[p] = clock
         /\ job'[p] = job[p] /\ snap'[p] = snap[p]
         /\ row'.fulfilledAt = clock /\ row'.linked = row.linked
         /\ row'.status = IF job[p] = "expiry" THEN "COMPLETED" ELSE row.status
         /\ row'.hold = row.hold /\ row'.reversed = row.reversed
<1>1. ProcsOK /\ row \in Rows /\ clock \in Nat /\ "provision" \in Steps
  BY DEF TypeOK, ProcsOK, Steps
<1>2. ProcsOK' /\ Others(p) /\ pc'[p] = "provision" /\ claimedAt'[p] = clock
      /\ job'[p] = job[p] /\ snap'[p] = snap[p]
  BY <1>1 DEF Claim, ProcsOK, Others, Same
<1>3. QED
  BY <1>1, <1>2 DEF Claim, Rows

\* A provisioning stamps fulfilledAt once more and links the subscription.
LEMMA ProvisionEffect ==
  ASSUME TypeOK, NEW p \in Procs, Provision(p)
  PROVE  /\ ProcsOK' /\ row' \in Rows /\ pc[p] = "provision" /\ Goes(p, "enqueue")
         /\ row'.fulfilledAt = clock /\ row'.linked = TRUE
         /\ row'.status = IF kind = "ADDON" THEN row.status ELSE "COMPLETED"
         /\ row'.hold = row.hold /\ row'.reversed = row.reversed
<1>1. ProcsOK /\ row \in Rows /\ clock \in Nat /\ "enqueue" \in Steps
  BY DEF TypeOK, ProcsOK, Steps
<1>2. ProcsOK' /\ Goes(p, "enqueue")
  BY <1>1, Going DEF Provision
<1>3. QED
  BY <1>1, <1>2 DEF Provision, Rows

\* A release takes back the stamp it may match, nothing else.
LEMMA ReleaseEffect ==
  ASSUME TypeOK, NEW p \in Procs, ReleaseClaim(p)
  PROVE  /\ ProcsOK' /\ row' \in Rows /\ pc[p] = "release" /\ Others(p)
         /\ row'.fulfilledAt = IF Releases(p) THEN Null ELSE row.fulfilledAt
         /\ row'.status = row.status /\ row'.linked = row.linked
         /\ row'.hold = row.hold /\ row'.reversed = row.reversed
         /\ row'.fulfilledAt # Null => aged' = aged
         /\ claimedAt'[p] = Null
         /\ IF IsWebhook(p) THEN pc'[p] = "fail" /\ job'[p] = job[p] /\ snap'[p] = snap[p]
            ELSE Ends(p)
<1>1. ProcsOK /\ row \in Rows /\ "fail" \in Steps /\ Null \in Nat
  BY DEF TypeOK, ProcsOK, Steps, Null
<1>2. CASE IsWebhook(p)
  <2>1. pc' = [pc EXCEPT ![p] = "fail"] /\ claimedAt' = [claimedAt EXCEPT ![p] = Null]
        /\ UNCHANGED <<job, snap>>
    BY <1>2 DEF ReleaseClaim
  <2>2. ProcsOK' /\ Others(p) /\ pc'[p] = "fail" /\ job'[p] = job[p] /\ snap'[p] = snap[p]
        /\ claimedAt'[p] = Null
    BY <1>1, <2>1 DEF ProcsOK, Others, Same
  <2>3. QED
    BY <1>1, <1>2, <2>2 DEF ReleaseClaim, Rows
<1>3. CASE ~IsWebhook(p)
  <2>1. ProcsOK' /\ Ends(p)
    BY <1>1, <1>3, Ending DEF ReleaseClaim
  <2>2. QED
    BY <1>1, <1>3, <2>1 DEF ReleaseClaim, Rows, Ends
<1>4. QED
  BY <1>2, <1>3

\* The reversal's stamp cancels the row, over the hold of the snapshot.
LEMMA StampEffect ==
  ASSUME TypeOK, NEW p \in Procs, StampReversal(p)
  PROVE  /\ ProcsOK' /\ row' \in Rows /\ pc[p] = "stamp" /\ Goes(p, "ack")
         /\ row'.status = "CANCELED" /\ row'.fulfilledAt = row.fulfilledAt
         /\ row'.linked = row.linked
         /\ row'.hold = snap[p].hold /\ row'.reversed = TRUE
<1>1. ProcsOK /\ row \in Rows /\ snap[p] \in Rows /\ "ack" \in Steps
  BY DEF TypeOK, ProcsOK, Steps
<1>2. ProcsOK' /\ Goes(p, "ack") /\ pc[p] = "stamp"
  BY <1>1, Going DEF StampReversal
<1>3. row' = [OverSnapshot(snap[p]) EXCEPT !.status = "CANCELED", !.reversed = TRUE]
  BY DEF StampReversal
<1>4. QED
  BY <1>1, <1>2, <1>3, Overwriting DEF Rows

\* The sweep cancels a row that is still PENDING and nothing else.
LEMMA CancelEffect ==
  ASSUME TypeOK, NEW p \in Procs, SweepCancel(p)
  PROVE  /\ ProcsOK' /\ row' \in Rows /\ pc[p] = "sweep" /\ Ends(p)
         /\ row'.fulfilledAt = row.fulfilledAt /\ row'.linked = row.linked
         /\ row'.hold = row.hold /\ row'.reversed = row.reversed
         /\ \/ row.status = "PENDING" /\ row'.status = "CANCELED" /\ trial' = ReleasedTrial
            \/ row' = row /\ trial' = trial
<1>1. ProcsOK /\ row \in Rows
  BY DEF TypeOK, ProcsOK
<1>2. ProcsOK' /\ Ends(p) /\ pc[p] = "sweep"
  BY <1>1, Ending DEF SweepCancel
<1>3. QED
  BY <1>1, <1>2 DEF SweepCancel, StillPending, Rows

\* The poll writes the snapshot's data on a row that is still PENDING.
LEMMA PollEffect ==
  ASSUME TypeOK, NEW p \in Procs, SweepPoll(p)
  PROVE  /\ ProcsOK' /\ row' \in Rows /\ pc[p] = "sweep"
         /\ Goes(p, "claim") \/ Ends(p)
         /\ row'.status = row.status /\ row'.fulfilledAt = row.fulfilledAt
         /\ row'.linked = row.linked
         /\ \/ row' = row
            \/ /\ row.status = "PENDING"
               /\ row'.hold = snap[p].hold /\ row'.reversed = snap[p].reversed
<1>1. ProcsOK /\ row \in Rows /\ snap[p] \in Rows /\ "claim" \in Steps
  BY DEF TypeOK, ProcsOK, Steps
<1>2. ProcsOK' /\ (Goes(p, "claim") \/ Ends(p)) /\ pc[p] = "sweep"
  <2>1. CASE provider = "succeeded"
    BY <1>1, <2>1, Going DEF SweepPoll
  <2>2. CASE provider # "succeeded"
    BY <1>1, <2>2, Ending DEF SweepPoll
  <2>3. QED
    BY <2>1, <2>2
<1>3. row' = IF row.status = "PENDING" THEN OverSnapshot(snap[p]) ELSE row
  BY DEF SweepPoll, StillPending
<1>4. QED
  BY <1>1, <1>2, <1>3, Overwriting

\* The steps that leave the row alone and go one way.
LEMMA QuietEffects ==
  ASSUME TypeOK, NEW p \in Procs
  PROVE  /\ DropTrial(p) => ProcsOK' /\ row' = row /\ pc[p] = "dropTrial" /\ Goes(p, "ack")
         /\ Confirmed(p) => ProcsOK' /\ row' = row /\ pc[p] = "verify" /\ Goes(p, "write")
         /\ ProvisionFails(p) =>
              ProcsOK' /\ row' = row /\ pc[p] = "provision" /\ Goes(p, "release")
         /\ UndoPayout(p) => ProcsOK' /\ row' = row /\ pc[p] = "undo" /\ Goes(p, "revoke")
         /\ Revoke(p) => ProcsOK' /\ row' = row /\ pc[p] = "revoke" /\ Goes(p, "stamp")
         /\ Ack(p) => ProcsOK' /\ row' = row /\ pc[p] = "ack" /\ Ends(p)
         /\ FailEvent(p) => ProcsOK' /\ row' = row /\ pc[p] = "fail" /\ Ends(p)
         /\ SweepKeep(p) => ProcsOK' /\ row' = row /\ pc[p] = "sweep" /\ Ends(p)
         /\ Crash(p) => ProcsOK' /\ row' = row /\ pc[p] # "idle" /\ Ends(p)
<1> USE DEF TypeOK
<1>1. ProcsOK
  BY DEF ProcsOK
<1>2. {"ack", "write", "release", "revoke", "stamp"} \subseteq Steps
  BY DEF Steps
<1>3. ASSUME DropTrial(p)
      PROVE  ProcsOK' /\ row' = row /\ pc[p] = "dropTrial" /\ Goes(p, "ack")
  BY <1>1, <1>2, <1>3, Going DEF DropTrial
<1>4. ASSUME Confirmed(p)
      PROVE  ProcsOK' /\ row' = row /\ pc[p] = "verify" /\ Goes(p, "write")
  BY <1>1, <1>2, <1>4, Going DEF Confirmed
<1>5. ASSUME ProvisionFails(p)
      PROVE  ProcsOK' /\ row' = row /\ pc[p] = "provision" /\ Goes(p, "release")
  BY <1>1, <1>2, <1>5, Going DEF ProvisionFails
<1>6. ASSUME UndoPayout(p)
      PROVE  ProcsOK' /\ row' = row /\ pc[p] = "undo" /\ Goes(p, "revoke")
  BY <1>1, <1>2, <1>6, Going DEF UndoPayout
<1>7. ASSUME Revoke(p)
      PROVE  ProcsOK' /\ row' = row /\ pc[p] = "revoke" /\ Goes(p, "stamp")
  BY <1>1, <1>2, <1>7, Going DEF Revoke
<1>8. ASSUME Ack(p)
      PROVE  ProcsOK' /\ row' = row /\ pc[p] = "ack" /\ Ends(p)
  BY <1>1, <1>8, Ending DEF Ack
<1>9. ASSUME FailEvent(p)
      PROVE  ProcsOK' /\ row' = row /\ pc[p] = "fail" /\ Ends(p)
  BY <1>1, <1>9, Ending DEF FailEvent
<1>10. ASSUME SweepKeep(p)
       PROVE  ProcsOK' /\ row' = row /\ pc[p] = "sweep" /\ Ends(p)
  BY <1>1, <1>10, Ending DEF SweepKeep
<1>11. ASSUME Crash(p)
       PROVE  ProcsOK' /\ row' = row /\ pc[p] # "idle" /\ Ends(p)
  BY <1>1, <1>11, Ending DEF Crash
<1> HIDE DEF TypeOK
<1>12. QED
  BY <1>3, <1>4, <1>5, <1>6, <1>7, <1>8, <1>9, <1>10, <1>11

\* The steps that leave the row alone and depend on the job.
LEMMA BranchEffects ==
  ASSUME TypeOK, NEW p \in Procs
  PROVE  /\ LoseClaim(p) =>
              /\ ProcsOK' /\ row' = row /\ pc[p] = "claim" /\ ~MayClaim(p)
              /\ IF IsWebhook(p) THEN Goes(p, "hooks") ELSE Ends(p)
         /\ EnqueueSync(p) =>
              /\ ProcsOK' /\ row' = row /\ pc[p] = "enqueue"
              /\ IF job[p] = "recovery" THEN Ends(p) ELSE Goes(p, "hooks")
         /\ EnqueueFails(p) =>
              /\ ProcsOK' /\ row' = row /\ pc[p] = "enqueue"
              /\ IF IsWebhook(p) THEN Goes(p, "fail") ELSE Ends(p)
         /\ Hooks(p) =>
              /\ ProcsOK' /\ row' = row /\ pc[p] = "hooks"
              /\ IF IsWebhook(p) THEN Goes(p, "ack") ELSE Ends(p)
<1> USE DEF TypeOK
<1>1. ProcsOK
  BY DEF ProcsOK
<1>2. {"hooks", "fail", "ack"} \subseteq Steps
  BY DEF Steps
<1>3. ASSUME LoseClaim(p)
      PROVE  /\ ProcsOK' /\ row' = row /\ pc[p] = "claim" /\ ~MayClaim(p)
             /\ IF IsWebhook(p) THEN Goes(p, "hooks") ELSE Ends(p)
  BY <1>1, <1>2, <1>3, Going, Ending DEF LoseClaim
<1>4. ASSUME EnqueueSync(p)
      PROVE  /\ ProcsOK' /\ row' = row /\ pc[p] = "enqueue"
             /\ IF job[p] = "recovery" THEN Ends(p) ELSE Goes(p, "hooks")
  BY <1>1, <1>2, <1>4, Going, Ending DEF EnqueueSync
<1>5. ASSUME EnqueueFails(p)
      PROVE  /\ ProcsOK' /\ row' = row /\ pc[p] = "enqueue"
             /\ IF IsWebhook(p) THEN Goes(p, "fail") ELSE Ends(p)
  BY <1>1, <1>2, <1>5, Going, Ending DEF EnqueueFails
<1>6. ASSUME Hooks(p)
      PROVE  /\ ProcsOK' /\ row' = row /\ pc[p] = "hooks"
             /\ IF IsWebhook(p) THEN Goes(p, "ack") ELSE Ends(p)
  BY <1>1, <1>2, <1>6, Going, Ending DEF Hooks
<1> HIDE DEF TypeOK
<1>7. QED
  BY <1>3, <1>4, <1>5, <1>6

\* The reversal reads the row again under its lock.
LEMMA LedgerEffect ==
  ASSUME TypeOK, NEW p \in Procs, LockLedger(p)
  PROVE  /\ ProcsOK' /\ row' = row /\ pc[p] = "ledger"
         /\ \/ Goes(p, "ack")
            \/ /\ Others(p) /\ pc'[p] = "undo" /\ job'[p] = job[p]
               /\ claimedAt'[p] = claimedAt[p]
               /\ snap'[p].hold = row.hold /\ snap'[p].reversed = row.reversed
               /\ snap'[p].linked = snap[p].linked
               /\ snap'[p].fulfilledAt = snap[p].fulfilledAt
<1>1. ProcsOK /\ row \in Rows /\ {"ack", "undo"} \subseteq Steps
  BY DEF TypeOK, ProcsOK, Steps
<1>2. CASE row.reversed
  BY <1>1, <1>2, Going DEF LockLedger
<1>3. CASE ~row.reversed
  <2>1. /\ pc' = [pc EXCEPT ![p] = "undo"]
        /\ snap' = [snap EXCEPT ![p].hold = row.hold, ![p].reversed = row.reversed]
        /\ UNCHANGED <<job, claimedAt, row>> /\ pc[p] = "ledger"
    BY <1>3 DEF LockLedger
  <2>2. snap[p] \in Rows
    BY <1>1 DEF ProcsOK
  <2>3. snap' = [snap EXCEPT ![p] = [snap[p] EXCEPT !.hold = row.hold,
                                                   !.reversed = row.reversed]]
    BY <1>1, <2>1 DEF ProcsOK
  <2>4. [snap[p] EXCEPT !.hold = row.hold, !.reversed = row.reversed] \in Rows
    BY <1>1, <2>2 DEF Rows
  <2>5. ProcsOK'
    BY <1>1, <2>1, <2>3, <2>4 DEF ProcsOK
  <2>6. snap'[p] = [snap[p] EXCEPT !.hold = row.hold, !.reversed = row.reversed]
        /\ Others(p)
    BY <1>1, <2>1, <2>3 DEF ProcsOK, Others, Same
  <2>7. QED
    BY <1>1, <2>1, <2>2, <2>5, <2>6 DEF ProcsOK, Rows
<1>4. QED
  BY <1>2, <1>3

\* The three ways a handler starts.
LEMMA StartEffects ==
  ASSUME TypeOK, NEW p \in Procs
  PROVE  /\ SweepLoad(p) => ProcsOK' /\ row' = row /\ Starts(p, "expiry", "sweep")
         /\ RecoveryLoad(p) => ProcsOK' /\ row' = row /\ Starts(p, "recovery", "claim")
         /\ \A e \in Events : Load(p, e) =>
              ProcsOK' /\ row' = row /\ Starts(p, e, FirstStep(EventKind(e)))
<1>1. ProcsOK /\ row \in Rows /\ {"sweep", "claim"} \subseteq Steps
  BY DEF TypeOK, ProcsOK, Steps
<1>2. \A k : FirstStep(k) \in Steps
  BY DEF FirstStep, ClaimedStep, StepFor, Steps
<1>3. ASSUME SweepLoad(p)
      PROVE  ProcsOK' /\ row' = row /\ Starts(p, "expiry", "sweep")
  BY <1>1, <1>3, Starting DEF SweepLoad
<1>4. ASSUME RecoveryLoad(p)
      PROVE  ProcsOK' /\ row' = row /\ Starts(p, "recovery", "claim")
  BY <1>1, <1>4, Starting DEF RecoveryLoad
<1>5. ASSUME NEW e \in Events, Load(p, e)
      PROVE  ProcsOK' /\ row' = row /\ Starts(p, e, FirstStep(EventKind(e)))
  <2>1. Take(p, e, FirstStep(EventKind(e))) /\ row' = row
    BY <1>5 DEF Load
  <2>2. QED
    BY <1>1, <1>2, <2>1, Starting
<1>6. QED
  BY <1>3, <1>4, <1>5

\* The inbox is typed.
Boxes == inbox \in [Events -> InboxRows]

\* No event but e changes.
OtherBoxes(e) == \A f \in Events : f # e => inbox'[f] = inbox[f]

\* What the inbox and the start of a job do to an event row.
LEMMA BoxEffects ==
  ASSUME TypeOK, NEW e \in Events
  PROVE  /\ Notify(e) =>
              /\ Boxes' /\ OtherBoxes(e)
              /\ inbox[e].status = "ABSENT" /\ inbox'[e].status = "ENQUEUED"
              /\ inbox'[e].jobs = inbox[e].jobs + 1
         /\ AutoRetry(e) =>
              /\ Boxes' /\ OtherBoxes(e)
              /\ inbox[e].status = "FAILED" /\ inbox'[e].status = "FAILED"
              /\ inbox[e].jobs = 0 /\ inbox'[e].jobs = 1
         /\ Replay(e) =>
              /\ Boxes' /\ OtherBoxes(e)
              /\ inbox[e].status # "ABSENT" /\ inbox'[e].status = "ENQUEUED"
              /\ inbox'[e].jobs = inbox[e].jobs + 1
         /\ \A p \in Procs : Load(p, e) =>
              /\ Boxes' /\ OtherBoxes(e)
              /\ inbox'[e].status = "PROCESSING"
              /\ inbox[e].jobs > 0 /\ inbox'[e].jobs = inbox[e].jobs - 1
<1>1. Boxes
  BY DEF TypeOK, Boxes
<1> USE DEF Boxes, OtherBoxes, InboxRows
<1>2. ASSUME Notify(e)
      PROVE  /\ Boxes' /\ OtherBoxes(e)
             /\ inbox[e].status = "ABSENT" /\ inbox'[e].status = "ENQUEUED"
             /\ inbox'[e].jobs = inbox[e].jobs + 1
  BY <1>1, <1>2 DEF Notify, EnqueueJob
<1>3. ASSUME AutoRetry(e)
      PROVE  /\ Boxes' /\ OtherBoxes(e)
             /\ inbox[e].status = "FAILED" /\ inbox'[e].status = "FAILED"
             /\ inbox[e].jobs = 0 /\ inbox'[e].jobs = 1
  BY <1>1, <1>3 DEF AutoRetry
<1>4. ASSUME Replay(e)
      PROVE  /\ Boxes' /\ OtherBoxes(e)
             /\ inbox[e].status # "ABSENT" /\ inbox'[e].status = "ENQUEUED"
             /\ inbox'[e].jobs = inbox[e].jobs + 1
  BY <1>1, <1>4 DEF Replay
<1>5. ASSUME NEW p \in Procs, Load(p, e)
      PROVE  /\ Boxes' /\ OtherBoxes(e)
             /\ inbox'[e].status = "PROCESSING"
             /\ inbox[e].jobs > 0 /\ inbox'[e].jobs = inbox[e].jobs - 1
  BY <1>1, <1>5 DEF Load
<1>6. QED
  BY <1>2, <1>3, <1>4, <1>5

\* What the end of a handler does to its event row.
LEMMA EventEffects ==
  ASSUME TypeOK, NEW p \in Procs
  PROVE  /\ Ack(p) =>
              /\ Boxes' /\ OtherBoxes(job[p])
              /\ IsWebhook(p) => /\ inbox'[job[p]].status = "PROCESSED"
                                 /\ inbox'[job[p]].jobs = inbox[job[p]].jobs
         /\ FailEvent(p) =>
              /\ Boxes' /\ OtherBoxes(job[p])
              /\ IsWebhook(p) => /\ inbox'[job[p]].status = "FAILED"
                                 /\ inbox'[job[p]].jobs = inbox[job[p]].jobs
         /\ Crash(p) =>
              /\ Boxes' /\ OtherBoxes(job[p])
              /\ IsWebhook(p) => /\ inbox'[job[p]].status = inbox[job[p]].status
                                 /\ inbox'[job[p]].jobs = inbox[job[p]].jobs + 1
<1>1. Boxes
  BY DEF TypeOK, Boxes
<1> USE DEF Boxes, OtherBoxes, InboxRows, IsWebhook
<1>2. ASSUME Ack(p)
      PROVE  /\ Boxes' /\ OtherBoxes(job[p])
             /\ IsWebhook(p) => /\ inbox'[job[p]].status = "PROCESSED"
                                /\ inbox'[job[p]].jobs = inbox[job[p]].jobs
  BY <1>1, <1>2 DEF Ack
<1>3. ASSUME FailEvent(p)
      PROVE  /\ Boxes' /\ OtherBoxes(job[p])
             /\ IsWebhook(p) => /\ inbox'[job[p]].status = "FAILED"
                                /\ inbox'[job[p]].jobs = inbox[job[p]].jobs
  BY <1>1, <1>3 DEF FailEvent
<1>4. ASSUME Crash(p)
      PROVE  /\ Boxes' /\ OtherBoxes(job[p])
             /\ IsWebhook(p) => /\ inbox'[job[p]].status = inbox[job[p]].status
                                /\ inbox'[job[p]].jobs = inbox[job[p]].jobs + 1
  BY <1>1, <1>4 DEF Crash
<1>5. QED
  BY <1>2, <1>3, <1>4

\* The parameters of a behaviour are typed.
LEMMA ScenarioIs ==
  ASSUME TypeOK
  PROVE  /\ kind \in {"NEW", "RENEW", "ADDON"} /\ gateway \in {"YOOKASSA", "OTHER"}
         /\ scenario.history \in {"draft", "fulfilled"}
         /\ \A e \in Events : EventKind(e) \in EventKinds \cup {"nothing"}
         /\ scenario.handlers \in Nat /\ scenario.faults \in Nat /\ scenario.replays \in Nat
  BY ScenarioAssumption DEF TypeOK, kind, gateway, EventKind

------------------------------------------------------------------------------
(***************************************************************************)
(* Types.                                                                  *)
(***************************************************************************)

\* Where a payment starts.
LEMMA DraftTyped ==
  ASSUME Draft
  PROVE  /\ row \in Rows /\ provider = "pending" /\ payout = FALSE
         /\ clock = 1 /\ deliveredAt = {}
         /\ trial \in {"NONE", "RESERVED"} /\ sub \in {"none", "active"}
<1>1. PICK l \in {kind = "RENEW"}, g \in {"none", "claim", "real"} :
        row = [status |-> "PENDING", fulfilledAt |-> Null, linked |-> l,
               gatewayId |-> g, hold |-> "none", reversed |-> FALSE]
  BY DEF Draft
<1>2. row \in Rows
  BY <1>1 DEF Rows, Null
<1>3. QED
  BY <1>2 DEF Draft

\* A payment fulfilled long ago is typed.
LEMMA FulfilledTyped ==
  ASSUME Fulfilled
  PROVE  /\ row \in Rows /\ provider = "succeeded" /\ payout = TRUE
         /\ clock = 2 /\ deliveredAt = {1}
         /\ trial \in {"NONE", "CONSUMED"} /\ sub = "active"
  BY DEF Fulfilled, Rows

\* The types hold at the start.
LEMMA TypeInit ==
  ASSUME Init
  PROVE  TypeOK
<1>1. scenario \in Scenarios /\ scenario.faults \in Nat
  BY ScenarioAssumption DEF Init
<1>2. NoRow \in Rows
  BY DEF NoRow, Rows, Null
<1>3. ProcsOK
  BY <1>2 DEF Init, ProcsOK, Steps, NoJob, Null
<1>4. inbox \in [Events -> InboxRows]
  BY DEF Init, InboxRows
<1>5. faults \in 0 .. scenario.faults /\ refunded = FALSE /\ aged = FALSE /\ swallowed = FALSE
  BY <1>1 DEF Init
<1>6. /\ row \in Rows /\ provider \in {"pending", "succeeded", "canceled"}
      /\ payout \in BOOLEAN /\ clock \in Nat \ {0} /\ deliveredAt \in SUBSET Nat
      /\ trial \in {"NONE", "RESERVED", "CONSUMED", "RELEASED"}
      /\ sub \in {"none", "active", "expired"}
  <2>1. CASE Draft
    BY <2>1, DraftTyped
  <2>2. CASE Fulfilled
    BY <2>2, FulfilledTyped
  <2>3. QED
    BY <2>1, <2>2 DEF Init
<1>7. DataOK
  BY <1>1, <1>4, <1>5, <1>6 DEF DataOK
<1>8. QED
  BY <1>3, <1>7, TypeParts

\* The types are kept by every step.
LEMMA TypeStep ==
  ASSUME TypeOK, [Next]_vars
  PROVE  TypeOK'
<1>1. ProcsOK /\ DataOK /\ scenario.faults \in Nat
  BY TypeParts, ScenarioIs
<1> SUFFICES ProcsOK' /\ DataOK'
  BY TypeParts DEF TypeOK, ProcsOK, DataOK
<1> USE DEF DataOK, envVars, ghostVars
<1>2. ASSUME Settle PROVE ProcsOK' /\ DataOK'
  BY <1>1, <1>2, Unmoved DEF Settle
<1>3. ASSUME GiveBack PROVE ProcsOK' /\ DataOK'
  BY <1>1, <1>3, Unmoved DEF GiveBack
<1>4. ASSUME LeaseAges PROVE ProcsOK' /\ DataOK'
  BY <1>1, <1>4, Unmoved DEF LeaseAges
<1>5. ASSUME NEW e \in Events, Notify(e) PROVE ProcsOK' /\ DataOK'
  BY <1>1, <1>5, Unmoved, BoxEffects DEF Notify, Boxes
<1>6. ASSUME NEW e \in Events, AutoRetry(e) PROVE ProcsOK' /\ DataOK'
  BY <1>1, <1>6, Unmoved, BoxEffects DEF AutoRetry, Boxes
<1>7. ASSUME NEW e \in Events, Replay(e) PROVE ProcsOK' /\ DataOK'
  BY <1>1, <1>7, Unmoved, BoxEffects DEF Replay, Boxes
<1>8. ASSUME NEW p \in Procs, SweepLoad(p) PROVE ProcsOK' /\ DataOK'
  BY <1>1, <1>8, StartEffects DEF SweepLoad
<1>9. ASSUME NEW p \in Procs, RecoveryLoad(p) PROVE ProcsOK' /\ DataOK'
  BY <1>1, <1>9, StartEffects DEF RecoveryLoad
<1>10. ASSUME NEW p \in Procs, HoldForReview(p) PROVE ProcsOK' /\ DataOK'
  BY <1>1, <1>10, HoldEffect DEF HoldForReview
<1>11. ASSUME NEW p \in Procs, ClearStale(p) PROVE ProcsOK' /\ DataOK'
  BY <1>1, <1>11, ClearEffect DEF ClearStale
<1>12. ASSUME NEW p \in Procs, DropTrial(p) PROVE ProcsOK' /\ DataOK'
  BY <1>1, <1>12, QuietEffects DEF DropTrial, ReleasedTrial
<1>13. ASSUME NEW p \in Procs, Confirmed(p) PROVE ProcsOK' /\ DataOK'
  BY <1>1, <1>13, QuietEffects DEF Confirmed
<1>14. ASSUME NEW p \in Procs, Unavailable(p) PROVE ProcsOK' /\ DataOK'
  BY <1>1, <1>14, UnavailableEffect DEF Unavailable
<1>15. ASSUME NEW p \in Procs, WriteStatus(p) PROVE ProcsOK' /\ DataOK'
  BY <1>1, <1>15, WriteEffect DEF WriteStatus, ReleasedTrial
<1>16. ASSUME NEW p \in Procs, Ack(p) PROVE ProcsOK' /\ DataOK'
  BY <1>1, <1>16, QuietEffects, EventEffects DEF Ack, Boxes
<1>17. ASSUME NEW p \in Procs, FailEvent(p) PROVE ProcsOK' /\ DataOK'
  BY <1>1, <1>17, QuietEffects, EventEffects DEF FailEvent, Boxes
<1>18. ASSUME NEW p \in Procs, Claim(p) PROVE ProcsOK' /\ DataOK'
  <2>1. clock' \in Nat \ {0} /\ deliveredAt' \in SUBSET Nat
    BY <1>1, <1>18 DEF Claim
  <2>2. QED
    BY <1>1, <1>18, <2>1, ClaimEffect DEF Claim
<1>19. ASSUME NEW p \in Procs, LoseClaim(p) PROVE ProcsOK' /\ DataOK'
  BY <1>1, <1>19, BranchEffects DEF LoseClaim
<1>20. ASSUME NEW p \in Procs, Provision(p) PROVE ProcsOK' /\ DataOK'
  <2>1. clock' \in Nat \ {0} /\ deliveredAt' \in SUBSET Nat
    BY <1>1, <1>20 DEF Provision
  <2>2. QED
    BY <1>1, <1>20, <2>1, ProvisionEffect DEF Provision, ConsumedTrial
<1>21. ASSUME NEW p \in Procs, ProvisionFails(p) PROVE ProcsOK' /\ DataOK'
  BY <1>1, <1>21, QuietEffects DEF ProvisionFails
<1>22. ASSUME NEW p \in Procs, ReleaseClaim(p) PROVE ProcsOK' /\ DataOK'
  BY <1>1, <1>22, ReleaseEffect DEF ReleaseClaim
<1>23. ASSUME NEW p \in Procs, EnqueueSync(p) PROVE ProcsOK' /\ DataOK'
  BY <1>1, <1>23, BranchEffects DEF EnqueueSync
<1>24. ASSUME NEW p \in Procs, EnqueueFails(p) PROVE ProcsOK' /\ DataOK'
  BY <1>1, <1>24, BranchEffects DEF EnqueueFails
<1>25. ASSUME NEW p \in Procs, Hooks(p) PROVE ProcsOK' /\ DataOK'
  <2>1. faults' \in 0 .. scenario.faults /\ scenario' = scenario
    BY <1>1, <1>25 DEF Hooks
  <2>2. QED
    BY <1>1, <1>25, <2>1, BranchEffects DEF Hooks
<1>26. ASSUME NEW p \in Procs, LockLedger(p) PROVE ProcsOK' /\ DataOK'
  BY <1>1, <1>26, LedgerEffect DEF LockLedger
<1>27. ASSUME NEW p \in Procs, UndoPayout(p) PROVE ProcsOK' /\ DataOK'
  <2>1. faults' \in 0 .. scenario.faults /\ scenario' = scenario
    BY <1>1, <1>27 DEF UndoPayout
  <2>2. QED
    BY <1>1, <1>27, <2>1, QuietEffects DEF UndoPayout
<1>28. ASSUME NEW p \in Procs, Revoke(p) PROVE ProcsOK' /\ DataOK'
  BY <1>1, <1>28, QuietEffects DEF Revoke
<1>29. ASSUME NEW p \in Procs, StampReversal(p) PROVE ProcsOK' /\ DataOK'
  BY <1>1, <1>29, StampEffect DEF StampReversal
<1>30. ASSUME NEW p \in Procs, SweepCancel(p) PROVE ProcsOK' /\ DataOK'
  BY <1>1, <1>30, CancelEffect DEF SweepCancel, ReleasedTrial
<1>31. ASSUME NEW p \in Procs, SweepPoll(p) PROVE ProcsOK' /\ DataOK'
  BY <1>1, <1>31, PollEffect DEF SweepPoll
<1>32. ASSUME NEW p \in Procs, SweepKeep(p) PROVE ProcsOK' /\ DataOK'
  BY <1>1, <1>32, QuietEffects DEF SweepKeep
<1>33. ASSUME NEW p \in Procs, Crash(p) PROVE ProcsOK' /\ DataOK'
  <2>1. faults' \in 0 .. scenario.faults /\ scenario' = scenario
    BY <1>1, <1>33 DEF Crash
  <2>2. QED
    BY <1>1, <1>33, <2>1, QuietEffects, EventEffects DEF Crash, Boxes
<1>34. ASSUME NEW p \in Procs, NEW e \in Events, Load(p, e) PROVE ProcsOK' /\ DataOK'
  BY <1>1, <1>34, StartEffects, BoxEffects DEF Load, Boxes
<1>35. CASE UNCHANGED vars
  BY <1>1, <1>35 DEF vars, ProcsOK
<1>36. QED
  BY <1>2, <1>3, <1>4, <1>5, <1>6, <1>7, <1>8, <1>9, <1>10, <1>11, <1>12,
     <1>13, <1>14, <1>15, <1>16, <1>17, <1>18, <1>19, <1>20, <1>21, <1>22,
     <1>23, <1>24, <1>25, <1>26, <1>27, <1>28, <1>29, <1>30, <1>31, <1>32,
     <1>33, <1>34, <1>35 DEF Next, Continue, WebhookStep, FulfilStep,
     ReversalStep, SweepStep

------------------------------------------------------------------------------
(***************************************************************************)
(* Roles.                                                                  *)
(***************************************************************************)

\* The notifications a step of a handler is for.
Fits(step, k) ==
    /\ step = "hold" => k = "underpaid"
    /\ step \in {"ledger", "undo", "revoke", "stamp"} => k = "refund"
    /\ step \in {"verify", "claim", "provision", "release", "enqueue", "hooks"} => k = "paid"
    /\ step = "write" => k \in {"paid", "waiting", "canceled", "refund"}
    /\ step = "clear" => kind = "NEW" /\ k \in {"paid", "waiting", "canceled"}
    /\ step = "dropTrial" => k \in {"canceled", "refund"}

\* The steps each job knows.
RoleOf(p) ==
    /\ pc[p] = "idle" <=> job[p] = NoJob
    /\ job[p] = "expiry" =>
         pc[p] \in {"sweep", "claim", "provision", "release", "enqueue", "hooks"}
    /\ job[p] = "recovery" =>
         kind = "ADDON" /\ pc[p] \in {"claim", "provision", "release", "enqueue"}
    /\ IsWebhook(p) =>
         /\ pc[p] # "sweep"
         /\ inbox[job[p]].status # "ABSENT"
         /\ Fits(pc[p], EventKind(job[p]))

\* Every process is at a step of the handler it runs.
Roles == \A p \in Procs : RoleOf(p)

\* What was notified is true at the provider.
Sent ==
    \A e \in Events :
        IF inbox[e].status = "ABSENT" THEN inbox[e].jobs = 0
        ELSE /\ EventKind(e) # "nothing"
             /\ EventKind(e) = "refund" => refunded

\* No step changes the scenario.
LEMMA ScenarioKept ==
  ASSUME [Next]_vars
  PROVE  scenario' = scenario
  BY DEF Next, Continue, WebhookStep, FulfilStep, ReversalStep, SweepStep,
     vars, envVars, Settle, GiveBack, LeaseAges, Notify, AutoRetry, Replay,
     SweepLoad, RecoveryLoad, HoldForReview, ClearStale, DropTrial, Confirmed,
     Unavailable, WriteStatus, Ack, FailEvent, Claim, LoseClaim, Provision,
     ProvisionFails, ReleaseClaim, EnqueueSync, EnqueueFails, Hooks,
     LockLedger, UndoPayout, Revoke, StampReversal, SweepCancel, SweepPoll,
     SweepKeep, Crash, Load

\* The jobs of the sweeps are no events.
LEMMA NoSweepIsAnEvent ==
  {NoJob, "expiry", "recovery"} \cap Events = {}
  BY EventAssumption DEF NoJob

\* A recorded notification stays recorded.
Recorded == \A e \in Events : inbox[e].status # "ABSENT" => inbox'[e].status # "ABSENT"

\* No step forgets a notification, and what was notified stays true.
LEMMA RecordKept ==
  ASSUME TypeOK, Roles, Sent, [Next]_vars
  PROVE  Recorded /\ Sent'
<1>1. Boxes /\ scenario' = scenario
  BY ScenarioKept DEF TypeOK, Boxes
<1>2. ASSUME inbox' = inbox, refunded => refunded'
      PROVE  Recorded /\ Sent'
  BY <1>1, <1>2 DEF Recorded, Sent, EventKind
<1>3. ASSUME NEW e, OtherBoxes(e), inbox'[e].status # "ABSENT", refunded' = refunded,
             inbox[e].status = "ABSENT" => EventKind(e) # "nothing"
                                           /\ (EventKind(e) = "refund" => refunded)
      PROVE  Recorded /\ Sent'
  BY <1>1, <1>3 DEF Recorded, Sent, EventKind, OtherBoxes
<1> USE DEF envVars
<1>4. ASSUME Settle PROVE Recorded /\ Sent'
  BY <1>2, <1>4 DEF Settle
<1>5. ASSUME GiveBack PROVE Recorded /\ Sent'
  BY <1>2, <1>5 DEF GiveBack
<1>6. ASSUME LeaseAges PROVE Recorded /\ Sent'
  BY <1>2, <1>6 DEF LeaseAges
<1>7. ASSUME NEW e \in Events, Notify(e) PROVE Recorded /\ Sent'
  <2>1. EventKind(e) # "nothing" /\ (EventKind(e) = "refund" => refunded)
    BY <1>7 DEF Notify, Sendable
  <2>2. QED
    BY <1>3, <1>7, <2>1, BoxEffects DEF Notify
<1>8. ASSUME NEW e \in Events, AutoRetry(e) PROVE Recorded /\ Sent'
  BY <1>3, <1>8, BoxEffects DEF AutoRetry
<1>9. ASSUME NEW e \in Events, Replay(e) PROVE Recorded /\ Sent'
  BY <1>3, <1>9, BoxEffects DEF Replay
<1>10. ASSUME NEW p \in Procs, SweepLoad(p) PROVE Recorded /\ Sent'
  BY <1>2, <1>10 DEF SweepLoad
<1>11. ASSUME NEW p \in Procs, RecoveryLoad(p) PROVE Recorded /\ Sent'
  BY <1>2, <1>11 DEF RecoveryLoad
<1>12. ASSUME NEW p \in Procs, HoldForReview(p) PROVE Recorded /\ Sent'
  BY <1>2, <1>12 DEF HoldForReview
<1>13. ASSUME NEW p \in Procs, ClearStale(p) PROVE Recorded /\ Sent'
  BY <1>2, <1>13 DEF ClearStale
<1>14. ASSUME NEW p \in Procs, DropTrial(p) PROVE Recorded /\ Sent'
  BY <1>2, <1>14 DEF DropTrial
<1>15. ASSUME NEW p \in Procs, Confirmed(p) PROVE Recorded /\ Sent'
  BY <1>2, <1>15 DEF Confirmed
<1>16. ASSUME NEW p \in Procs, Unavailable(p) PROVE Recorded /\ Sent'
  BY <1>2, <1>16 DEF Unavailable
<1>17. ASSUME NEW p \in Procs, WriteStatus(p) PROVE Recorded /\ Sent'
  BY <1>2, <1>17 DEF WriteStatus
<1>18. ASSUME NEW p \in Procs, Ack(p) PROVE Recorded /\ Sent'
  <2>1. IsWebhook(p) /\ inbox[job[p]].status # "ABSENT"
    BY <1>18, QuietEffects, NoSweepIsAnEvent DEF TypeOK, Roles, RoleOf, IsWebhook
  <2>2. QED
    BY <1>3, <1>18, <2>1, EventEffects DEF Ack
<1>19. ASSUME NEW p \in Procs, FailEvent(p) PROVE Recorded /\ Sent'
  <2>1. IsWebhook(p) /\ inbox[job[p]].status # "ABSENT"
    BY <1>19, QuietEffects, NoSweepIsAnEvent DEF TypeOK, Roles, RoleOf, IsWebhook
  <2>2. QED
    BY <1>3, <1>19, <2>1, EventEffects DEF FailEvent
<1>20. ASSUME NEW p \in Procs, Claim(p) PROVE Recorded /\ Sent'
  BY <1>2, <1>20 DEF Claim
<1>21. ASSUME NEW p \in Procs, LoseClaim(p) PROVE Recorded /\ Sent'
  BY <1>2, <1>21 DEF LoseClaim
<1>22. ASSUME NEW p \in Procs, Provision(p) PROVE Recorded /\ Sent'
  BY <1>2, <1>22 DEF Provision
<1>23. ASSUME NEW p \in Procs, ProvisionFails(p) PROVE Recorded /\ Sent'
  BY <1>2, <1>23 DEF ProvisionFails
<1>24. ASSUME NEW p \in Procs, ReleaseClaim(p) PROVE Recorded /\ Sent'
  BY <1>2, <1>24 DEF ReleaseClaim
<1>25. ASSUME NEW p \in Procs, EnqueueSync(p) PROVE Recorded /\ Sent'
  BY <1>2, <1>25 DEF EnqueueSync
<1>26. ASSUME NEW p \in Procs, EnqueueFails(p) PROVE Recorded /\ Sent'
  BY <1>2, <1>26 DEF EnqueueFails
<1>27. ASSUME NEW p \in Procs, Hooks(p) PROVE Recorded /\ Sent'
  BY <1>2, <1>27 DEF Hooks
<1>28. ASSUME NEW p \in Procs, LockLedger(p) PROVE Recorded /\ Sent'
  BY <1>2, <1>28 DEF LockLedger
<1>29. ASSUME NEW p \in Procs, UndoPayout(p) PROVE Recorded /\ Sent'
  BY <1>2, <1>29 DEF UndoPayout
<1>30. ASSUME NEW p \in Procs, Revoke(p) PROVE Recorded /\ Sent'
  BY <1>2, <1>30 DEF Revoke
<1>31. ASSUME NEW p \in Procs, StampReversal(p) PROVE Recorded /\ Sent'
  BY <1>2, <1>31 DEF StampReversal
<1>32. ASSUME NEW p \in Procs, SweepCancel(p) PROVE Recorded /\ Sent'
  BY <1>2, <1>32 DEF SweepCancel
<1>33. ASSUME NEW p \in Procs, SweepPoll(p) PROVE Recorded /\ Sent'
  BY <1>2, <1>33 DEF SweepPoll
<1>34. ASSUME NEW p \in Procs, SweepKeep(p) PROVE Recorded /\ Sent'
  BY <1>2, <1>34 DEF SweepKeep
<1>35. ASSUME NEW p \in Procs, Crash(p) PROVE Recorded /\ Sent'
  <2>1. CASE IsWebhook(p)
    <3>1. inbox[job[p]].status # "ABSENT"
      BY <1>35, <2>1 DEF Roles, RoleOf
    <3>2. QED
      BY <1>3, <1>35, <2>1, <3>1, EventEffects DEF Crash
  <2>2. CASE ~IsWebhook(p)
    BY <1>2, <1>35, <2>2 DEF Crash
  <2>3. QED
    BY <2>1, <2>2
<1>36. ASSUME NEW p \in Procs, NEW e \in Events, Load(p, e)
       PROVE  Recorded /\ Sent'
  <2>1. inbox[e].status # "ABSENT"
    BY <1>36, BoxEffects DEF Sent
  <2>2. QED
    BY <1>3, <1>36, <2>1, BoxEffects DEF Load
<1>37. CASE UNCHANGED vars
  BY <1>2, <1>37 DEF vars
<1>38. QED
  BY <1>4, <1>5, <1>6, <1>7, <1>8, <1>9, <1>10, <1>11, <1>12, <1>13, <1>14,
     <1>15, <1>16, <1>17, <1>18, <1>19, <1>20, <1>21, <1>22, <1>23, <1>24,
     <1>25, <1>26, <1>27, <1>28, <1>29, <1>30, <1>31, <1>32, <1>33, <1>34,
     <1>35, <1>36, <1>37 DEF Next, Continue, WebhookStep, FulfilStep,
     ReversalStep, SweepStep

\* A process that does not move keeps its role while its event stays received.
LEMMA RoleStays ==
  ASSUME TypeOK, Recorded, scenario' = scenario, NEW q \in Procs, RoleOf(q), Same(q)
  PROVE  RoleOf(q)'
  BY DEF RoleOf, Same, Recorded, IsWebhook, Fits, EventKind, kind

\* All roles hold when the process that moves has its own.
LEMMA RoleMoves ==
  ASSUME TypeOK, Recorded, Roles, scenario' = scenario, NEW p \in Procs,
         Others(p), RoleOf(p)'
  PROVE  Roles'
<1>1. ASSUME NEW q \in Procs PROVE RoleOf(q)'
  BY <1>1, RoleStays DEF Others, Roles
<1>2. QED
  BY <1>1 DEF Roles

\* A handler that has ended has no job and no step.
LEMMA RoleEnds ==
  ASSUME NEW p \in Procs, Ends(p)
  PROVE  RoleOf(p)'
  BY NoSweepIsAnEvent DEF Ends, RoleOf, IsWebhook, NoJob

\* A worker goes where its notification fits.
LEMMA RoleGoes ==
  ASSUME TypeOK, Recorded, scenario' = scenario, NEW p \in Procs, RoleOf(p),
         IsWebhook(p), NEW step \in Steps \ {"idle", "sweep"},
         pc'[p] = step, job'[p] = job[p],
         Fits(step, EventKind(job[p]))
  PROVE  RoleOf(p)'
  BY NoSweepIsAnEvent DEF RoleOf, IsWebhook, Recorded, Fits, EventKind, kind

\* A step of the fulfilment that both a worker and a sweep take.
LEMMA RoleFulfils ==
  ASSUME TypeOK, Recorded, scenario' = scenario, NEW p \in Procs, RoleOf(p),
         pc[p] \in {"claim", "provision", "enqueue"},
         NEW step \in {"provision", "release", "enqueue"}, pc'[p] = step, job'[p] = job[p]
  PROVE  RoleOf(p)'
  BY NoSweepIsAnEvent DEF RoleOf, IsWebhook, Recorded, Fits, EventKind, kind, NoJob

\* Every process stays at a step of its handler.
LEMMA RolesStep ==
  ASSUME TypeOK, Roles, Sent, [Next]_vars
  PROVE  Roles' /\ Sent' /\ Recorded
<1>1. scenario' = scenario /\ Recorded /\ Sent'
  BY ScenarioKept, RecordKept
<1>2. ASSUME \A q \in Procs : Same(q)
      PROVE  Roles'
  BY <1>1, <1>2, RoleStays DEF Roles
<1>3. ASSUME NEW p \in Procs, Ends(p) \/ (Others(p) /\ RoleOf(p)')
      PROVE  Roles'
  BY <1>1, <1>3, RoleEnds, RoleMoves DEF Ends
<1>4. \A p \in Procs : /\ RoleOf(p)
                       /\ job[p] \in Events \cup {NoJob, "expiry", "recovery"}
  BY DEF Roles, TypeOK
<1>5. ProcsOK
  BY TypeParts
<1>6. \A k \in EventKinds : Fits(FirstStep(k), k) /\ FirstStep(k) \in Steps \ {"idle", "sweep"}
  BY ScenarioIs DEF Fits, FirstStep, ClaimedStep, StepFor, EventKinds, NextStatus, Steps
<1> USE DEF envVars
<1>7. ASSUME Settle PROVE Roles'
  BY <1>2, <1>5, <1>7, Unmoved DEF Settle
<1>8. ASSUME GiveBack PROVE Roles'
  BY <1>2, <1>5, <1>8, Unmoved DEF GiveBack
<1>9. ASSUME LeaseAges PROVE Roles'
  BY <1>2, <1>5, <1>9, Unmoved DEF LeaseAges
<1>10. ASSUME NEW e \in Events, Notify(e) PROVE Roles'
  BY <1>2, <1>5, <1>10, Unmoved DEF Notify
<1>11. ASSUME NEW e \in Events, AutoRetry(e) PROVE Roles'
  BY <1>2, <1>5, <1>11, Unmoved DEF AutoRetry
<1>12. ASSUME NEW e \in Events, Replay(e) PROVE Roles'
  BY <1>2, <1>5, <1>12, Unmoved DEF Replay
<1>13. ASSUME NEW p \in Procs, SweepLoad(p) PROVE Roles'
  BY NoSweepIsAnEvent, <1>1, <1>3, <1>13, StartEffects DEF Starts, RoleOf, IsWebhook, NoJob
<1>14. ASSUME NEW p \in Procs, RecoveryLoad(p) PROVE Roles'
  <2>1. kind = "ADDON"
    BY <1>14 DEF RecoveryLoad
  <2>2. RoleOf(p)'
    BY <1>1, <1>14, <2>1, StartEffects, NoSweepIsAnEvent DEF Starts, RoleOf, IsWebhook, kind, NoJob
  <2>3. QED
    BY <1>3, <1>14, <2>2, StartEffects DEF Starts
<1>15. ASSUME NEW p \in Procs, HoldForReview(p) PROVE Roles'
  <2>1. IsWebhook(p) /\ Fits("ack", EventKind(job[p]))
    BY <1>4, <1>15, HoldEffect DEF RoleOf, Fits, IsWebhook
  <2>2. "ack" \in Steps \ {"idle", "sweep"}
    BY DEF Steps
  <2>3. RoleOf(p)'
    BY <1>1, <1>4, <1>15, <2>1, <2>2, RoleGoes, HoldEffect DEF Goes
  <2>4. QED
    BY <1>3, <1>15, <2>3, HoldEffect DEF Goes
<1>16. ASSUME NEW p \in Procs, ClearStale(p) PROVE Roles'
  <2>1. IsWebhook(p) /\ Fits(AfterClear(EventKind(job[p])), EventKind(job[p]))
    BY <1>4, <1>16, ClearEffect DEF RoleOf, Fits, IsWebhook, AfterClear, NextStatus
  <2>2. AfterClear(EventKind(job[p])) \in Steps \ {"idle", "sweep"}
    BY DEF Steps, AfterClear, NextStatus
  <2>3. RoleOf(p)'
    BY <1>1, <1>4, <1>16, <2>1, <2>2, RoleGoes, ClearEffect DEF Goes
  <2>4. QED
    BY <1>3, <1>16, <2>3, ClearEffect DEF Goes
<1>17. ASSUME NEW p \in Procs, DropTrial(p) PROVE Roles'
  <2>1. IsWebhook(p) /\ Fits("ack", EventKind(job[p]))
    BY <1>4, <1>17, QuietEffects DEF RoleOf, Fits, IsWebhook
  <2>2. "ack" \in Steps \ {"idle", "sweep"}
    BY DEF Steps
  <2>3. RoleOf(p)'
    BY <1>1, <1>4, <1>17, <2>1, <2>2, RoleGoes, QuietEffects DEF Goes
  <2>4. QED
    BY <1>3, <1>17, <2>3, QuietEffects DEF Goes
<1>18. ASSUME NEW p \in Procs, Confirmed(p) PROVE Roles'
  <2>1. IsWebhook(p) /\ Fits("write", EventKind(job[p]))
    BY <1>4, <1>18, QuietEffects DEF RoleOf, Fits, IsWebhook
  <2>2. "write" \in Steps \ {"idle", "sweep"}
    BY DEF Steps
  <2>3. RoleOf(p)'
    BY <1>1, <1>4, <1>18, <2>1, <2>2, RoleGoes, QuietEffects DEF Goes
  <2>4. QED
    BY <1>3, <1>18, <2>3, QuietEffects DEF Goes
<1>19. ASSUME NEW p \in Procs, Unavailable(p) PROVE Roles'
  <2>1. IsWebhook(p) /\ Fits("fail", EventKind(job[p]))
    BY <1>4, <1>19, UnavailableEffect DEF RoleOf, Fits, IsWebhook
  <2>2. "fail" \in Steps \ {"idle", "sweep"}
    BY DEF Steps
  <2>3. RoleOf(p)'
    BY <1>1, <1>4, <1>19, <2>1, <2>2, RoleGoes, UnavailableEffect DEF Goes
  <2>4. QED
    BY <1>3, <1>19, <2>3, UnavailableEffect DEF Goes
<1>20. ASSUME NEW p \in Procs, WriteStatus(p) PROVE Roles'
  <2> DEFINE step == IF NextStatus(EventKind(job[p])) = "COMPLETED" THEN "claim" ELSE "ack"
  <2>1. IsWebhook(p) /\ Fits(step, EventKind(job[p]))
    BY <1>4, <1>20, WriteEffect DEF RoleOf, Fits, IsWebhook, NextStatus
  <2>2. step \in Steps \ {"idle", "sweep"}
    BY DEF Steps
  <2>3. Goes(p, step)
    BY <1>20, WriteEffect
  <2>4. RoleOf(p)'
    BY <1>1, <1>4, <2>1, <2>2, <2>3, RoleGoes DEF Goes
  <2>5. QED
    BY <1>3, <2>3, <2>4 DEF Goes
<1>21. ASSUME NEW p \in Procs, Ack(p) PROVE Roles'
  BY <1>3, <1>21, QuietEffects
<1>22. ASSUME NEW p \in Procs, FailEvent(p) PROVE Roles'
  BY <1>3, <1>22, QuietEffects
<1>23. ASSUME NEW p \in Procs, Claim(p) PROVE Roles'
  <2>1. RoleOf(p)'
    BY <1>1, <1>4, <1>23, RoleFulfils, ClaimEffect DEF Goes
  <2>2. QED
    BY <1>3, <1>23, <2>1, ClaimEffect DEF Goes
<1>24. ASSUME NEW p \in Procs, LoseClaim(p) PROVE Roles'
  <2>1. CASE IsWebhook(p)
    <3>1. "hooks" \in Steps \ {"idle", "sweep"} /\ Fits("hooks", EventKind(job[p]))
      BY <1>4, <1>24, <2>1, BranchEffects DEF Steps, Fits, RoleOf
    <3>2. Goes(p, "hooks")
      BY <1>24, <2>1, BranchEffects
    <3>3. RoleOf(p)'
      BY <1>1, <1>4, <2>1, <3>1, <3>2, RoleGoes DEF Goes
    <3>4. QED
      BY <1>3, <3>2, <3>3 DEF Goes
  <2>2. CASE ~IsWebhook(p)
    BY <1>3, <1>24, <2>2, BranchEffects
  <2>3. QED
    BY <2>1, <2>2
<1>25. ASSUME NEW p \in Procs, Provision(p) PROVE Roles'
  <2>1. RoleOf(p)'
    BY <1>1, <1>4, <1>25, RoleFulfils, ProvisionEffect DEF Goes
  <2>2. QED
    BY <1>3, <1>25, <2>1, ProvisionEffect DEF Goes
<1>26. ASSUME NEW p \in Procs, ProvisionFails(p) PROVE Roles'
  <2>1. RoleOf(p)'
    BY <1>1, <1>4, <1>26, RoleFulfils, QuietEffects DEF Goes
  <2>2. QED
    BY <1>3, <1>26, <2>1, QuietEffects DEF Goes
<1>27. ASSUME NEW p \in Procs, ReleaseClaim(p) PROVE Roles'
  <2>1. CASE IsWebhook(p)
    <3>1. "fail" \in Steps \ {"idle", "sweep"} /\ Fits("fail", EventKind(job[p]))
      BY DEF Steps, Fits
    <3>2. pc'[p] = "fail" /\ job'[p] = job[p] /\ Others(p)
      BY <1>27, <2>1, ReleaseEffect
    <3>3. RoleOf(p)'
      BY <1>1, <1>4, <2>1, <3>1, <3>2, RoleGoes
    <3>4. QED
      BY <1>3, <3>2, <3>3
  <2>2. CASE ~IsWebhook(p)
    BY <1>3, <1>27, <2>2, ReleaseEffect
  <2>3. QED
    BY <2>1, <2>2
<1>28. ASSUME NEW p \in Procs, EnqueueSync(p) PROVE Roles'
  <2>1. CASE job[p] = "recovery"
    BY <1>3, <1>28, <2>1, BranchEffects
  <2>2. CASE job[p] # "recovery"
    <3>1. Goes(p, "hooks") /\ pc[p] = "enqueue"
      BY <1>28, <2>2, BranchEffects
    <3>2. RoleOf(p)'
      BY <1>1, <1>4, <2>2, <3>1, NoSweepIsAnEvent
         DEF Goes, RoleOf, IsWebhook, Recorded, Fits, EventKind, kind, NoJob
    <3>3. QED
      BY <1>3, <3>1, <3>2 DEF Goes
  <2>3. QED
    BY <2>1, <2>2
<1>29. ASSUME NEW p \in Procs, EnqueueFails(p) PROVE Roles'
  <2>1. CASE IsWebhook(p)
    <3>1. "fail" \in Steps \ {"idle", "sweep"} /\ Fits("fail", EventKind(job[p]))
      BY <1>4, <1>29, <2>1, BranchEffects DEF Steps, Fits, RoleOf
    <3>2. Goes(p, "fail")
      BY <1>29, <2>1, BranchEffects
    <3>3. RoleOf(p)'
      BY <1>1, <1>4, <2>1, <3>1, <3>2, RoleGoes DEF Goes
    <3>4. QED
      BY <1>3, <3>2, <3>3 DEF Goes
  <2>2. CASE ~IsWebhook(p)
    BY <1>3, <1>29, <2>2, BranchEffects
  <2>3. QED
    BY <2>1, <2>2
<1>30. ASSUME NEW p \in Procs, Hooks(p) PROVE Roles'
  <2>1. CASE IsWebhook(p)
    <3>1. "ack" \in Steps \ {"idle", "sweep"} /\ Fits("ack", EventKind(job[p]))
      BY <1>4, <1>30, <2>1, BranchEffects DEF Steps, Fits, RoleOf
    <3>2. Goes(p, "ack")
      BY <1>30, <2>1, BranchEffects
    <3>3. RoleOf(p)'
      BY <1>1, <1>4, <2>1, <3>1, <3>2, RoleGoes DEF Goes
    <3>4. QED
      BY <1>3, <3>2, <3>3 DEF Goes
  <2>2. CASE ~IsWebhook(p)
    BY <1>3, <1>30, <2>2, BranchEffects
  <2>3. QED
    BY <2>1, <2>2
<1>31. ASSUME NEW p \in Procs, LockLedger(p) PROVE Roles'
  <2>1. /\ IsWebhook(p) /\ EventKind(job[p]) = "refund"
        /\ pc'[p] \in {"ack", "undo"} /\ job'[p] = job[p] /\ Others(p)
    BY <1>4, <1>31, LedgerEffect DEF RoleOf, Fits, IsWebhook, Goes
  <2>2. {"ack", "undo"} \subseteq Steps \ {"idle", "sweep"} /\ \A step \in {"ack", "undo"} : Fits(step, "refund")
    BY DEF Steps, Fits
  <2>3. RoleOf(p)'
    BY <1>1, <1>4, <2>1, <2>2, RoleGoes
  <2>4. QED
    BY <1>3, <2>1, <2>3
<1>32. ASSUME NEW p \in Procs, UndoPayout(p) PROVE Roles'
  <2>1. IsWebhook(p) /\ Fits("revoke", EventKind(job[p]))
    BY <1>4, <1>32, QuietEffects DEF RoleOf, Fits, IsWebhook
  <2>2. "revoke" \in Steps \ {"idle", "sweep"}
    BY DEF Steps
  <2>3. RoleOf(p)'
    BY <1>1, <1>4, <1>32, <2>1, <2>2, RoleGoes, QuietEffects DEF Goes
  <2>4. QED
    BY <1>3, <1>32, <2>3, QuietEffects DEF Goes
<1>33. ASSUME NEW p \in Procs, Revoke(p) PROVE Roles'
  <2>1. IsWebhook(p) /\ Fits("stamp", EventKind(job[p]))
    BY <1>4, <1>33, QuietEffects DEF RoleOf, Fits, IsWebhook
  <2>2. "stamp" \in Steps \ {"idle", "sweep"}
    BY DEF Steps
  <2>3. RoleOf(p)'
    BY <1>1, <1>4, <1>33, <2>1, <2>2, RoleGoes, QuietEffects DEF Goes
  <2>4. QED
    BY <1>3, <1>33, <2>3, QuietEffects DEF Goes
<1>34. ASSUME NEW p \in Procs, StampReversal(p) PROVE Roles'
  <2>1. IsWebhook(p) /\ Fits("ack", EventKind(job[p]))
    BY <1>4, <1>34, StampEffect DEF RoleOf, Fits, IsWebhook
  <2>2. "ack" \in Steps \ {"idle", "sweep"}
    BY DEF Steps
  <2>3. RoleOf(p)'
    BY <1>1, <1>4, <1>34, <2>1, <2>2, RoleGoes, StampEffect DEF Goes
  <2>4. QED
    BY <1>3, <1>34, <2>3, StampEffect DEF Goes
<1>35. ASSUME NEW p \in Procs, SweepCancel(p) PROVE Roles'
  BY <1>3, <1>35, CancelEffect
<1>36. ASSUME NEW p \in Procs, SweepPoll(p) PROVE Roles'
  <2>1. CASE Goes(p, "claim")
    <3>1. pc[p] = "sweep"
      BY <1>36, PollEffect
    <3>2. RoleOf(p)'
      BY <1>1, <1>4, <2>1, <3>1, NoSweepIsAnEvent
         DEF Goes, RoleOf, IsWebhook, NoJob
    <3>3. QED
      BY <1>3, <2>1, <3>2 DEF Goes
  <2>2. CASE Ends(p)
    BY <1>3, <2>2
  <2>3. QED
    BY <1>36, <2>1, <2>2, PollEffect
<1>37. ASSUME NEW p \in Procs, SweepKeep(p) PROVE Roles'
  BY <1>3, <1>37, QuietEffects
<1>38. ASSUME NEW p \in Procs, Crash(p) PROVE Roles'
  BY <1>3, <1>38, QuietEffects
<1>39. ASSUME NEW p \in Procs, NEW e \in Events, Load(p, e) PROVE Roles'
  <2>1. EventKind(e) \in EventKinds /\ inbox'[e].status # "ABSENT"
    BY <1>39, ScenarioIs, BoxEffects DEF Sent
  <2>2. e \notin {NoJob, "expiry", "recovery"}
    BY NoSweepIsAnEvent
  <2>3. RoleOf(p)'
    BY <1>1, <1>6, <1>39, <2>1, <2>2, StartEffects DEF Starts, RoleOf, IsWebhook, Fits, EventKind, kind
  <2>4. QED
    BY <1>3, <1>39, <2>3, StartEffects DEF Starts
<1>40. CASE UNCHANGED vars
  BY <1>1, <1>2, <1>5, <1>40, Unmoved DEF vars
<1>41. QED
  BY <1>7, <1>8, <1>9, <1>10, <1>11, <1>12, <1>13, <1>14, <1>15, <1>16, <1>17,
     <1>18, <1>19, <1>20, <1>21, <1>22, <1>23, <1>24, <1>25, <1>26, <1>27,
     <1>28, <1>29, <1>30, <1>31, <1>32, <1>33, <1>34, <1>35, <1>36, <1>37,
     <1>38, <1>39, <1>40, <1>1 DEF Next, Continue, WebhookStep, FulfilStep,
     ReversalStep, SweepStep

------------------------------------------------------------------------------
(***************************************************************************)
(* The claim protocol.                                                     *)
(***************************************************************************)

\* p holds a claim it may still release.
Owning(p) == pc[p] \in {"provision", "release"}

\* A lease that has run out has no owner at work, when leases outlive every
\* provisioning; and only a claim on a NEW purchase is ever taken from its owner.
Leases ==
    /\ ~LeaseMayBeOvertaken /\ aged /\ row.fulfilledAt # Null => ~OwnerAlive
    /\ kind # "NEW" =>
         \A p \in Procs : Owning(p) =>
             /\ row.fulfilledAt # Null /\ claimedAt[p] = row.fulfilledAt
             /\ \A q \in Procs : Owning(q) => p = q

\* A step that leaves the claim and its owners alone keeps the leases.
LEMMA LeasesQuiet ==
  ASSUME Leases, scenario' = scenario, row'.fulfilledAt = row.fulfilledAt,
         aged' => aged \/ (LeaseMayBeOvertaken \/ ~OwnerAlive),
         \A q \in Procs : pc'[q] = "provision" => pc[q] = "provision",
         \A q \in Procs : Owning(q)' => Owning(q) /\ claimedAt'[q] = claimedAt[q]
  PROVE  Leases'
<1>1. ~LeaseMayBeOvertaken /\ aged' /\ row'.fulfilledAt # Null => ~OwnerAlive'
  <2> SUFFICES ASSUME ~LeaseMayBeOvertaken, aged', row'.fulfilledAt # Null,
                      NEW q \in Procs, pc'[q] = "provision",
                      claimedAt'[q] = row'.fulfilledAt
               PROVE  FALSE
    BY DEF OwnerAlive
  <2>1. pc[q] = "provision" /\ claimedAt[q] = row.fulfilledAt
    BY DEF Owning
  <2>2. OwnerAlive
    BY <2>1 DEF OwnerAlive
  <2>3. QED
    BY <2>2 DEF Leases
<1>2. kind' # "NEW" =>
         \A p \in Procs : Owning(p)' =>
             /\ row'.fulfilledAt # Null /\ claimedAt'[p] = row'.fulfilledAt
             /\ \A q \in Procs : Owning(q)' => p = q
  BY DEF Leases, kind
<1>3. QED
  BY <1>1, <1>2 DEF Leases

\* The leases at every step.
LEMMA LeasesStep ==
  ASSUME TypeOK, Roles, Leases, [Next]_vars
  PROVE  Leases'
<1>1. scenario' = scenario /\ ProcsOK
  BY ScenarioKept, TypeParts
<1>2. ASSUME \A q \in Procs : Same(q), row'.fulfilledAt = row.fulfilledAt,
             aged' => aged \/ (LeaseMayBeOvertaken \/ ~OwnerAlive)
      PROVE  Leases'
  BY <1>1, <1>2, LeasesQuiet DEF Same, Owning
<1>3. ASSUME NEW p \in Procs, Others(p), row'.fulfilledAt = row.fulfilledAt, aged' = aged,
             pc'[p] # "provision", pc'[p] = "release" => pc[p] = "provision",
             claimedAt'[p] = claimedAt[p] \/ pc'[p] # "release"
      PROVE  Leases'
  <2>1. \A q \in Procs : pc'[q] = "provision" => pc[q] = "provision"
    BY <1>3 DEF Others, Same
  <2>2. \A q \in Procs : Owning(q)' => Owning(q) /\ claimedAt'[q] = claimedAt[q]
    BY <1>3 DEF Others, Same, Owning
  <2>3. QED
    BY <1>1, <1>3, <2>1, <2>2, LeasesQuiet
<1>4. ASSUME NEW p \in Procs, NEW e \in Events PROVE FirstStep(EventKind(e)) \notin {"provision", "release"}
  BY DEF FirstStep, ClaimedStep, StepFor
<1>5. ASSUME Settle PROVE Leases'
  BY <1>1, <1>2, <1>5, Unmoved DEF Settle
<1>6. ASSUME GiveBack PROVE Leases'
  BY <1>1, <1>2, <1>6, Unmoved DEF GiveBack
<1>7. ASSUME LeaseAges PROVE Leases'
  BY <1>1, <1>2, <1>7, Unmoved DEF LeaseAges
<1>8. ASSUME NEW e \in Events, Notify(e) PROVE Leases'
  BY <1>1, <1>2, <1>8, Unmoved DEF Notify
<1>9. ASSUME NEW e \in Events, AutoRetry(e) PROVE Leases'
  BY <1>1, <1>2, <1>9, Unmoved DEF AutoRetry
<1>10. ASSUME NEW e \in Events, Replay(e) PROVE Leases'
  BY <1>1, <1>2, <1>10, Unmoved DEF Replay
<1>11. ASSUME NEW p \in Procs, SweepLoad(p) PROVE Leases'
  BY <1>3, <1>11, StartEffects DEF SweepLoad, Starts
<1>12. ASSUME NEW p \in Procs, RecoveryLoad(p) PROVE Leases'
  BY <1>3, <1>12, StartEffects DEF RecoveryLoad, Starts
<1>13. ASSUME NEW p \in Procs, HoldForReview(p) PROVE Leases'
  BY <1>3, <1>13, HoldEffect DEF HoldForReview, Goes, Ends
<1>14. ASSUME NEW p \in Procs, ClearStale(p) PROVE Leases'
  <2>1. pc'[p] \notin {"provision", "release"} /\ pc[p] = "clear" /\ Others(p)
    BY <1>14, ClearEffect DEF Goes, AfterClear
  <2>2. CASE row'.fulfilledAt # Null
    BY <1>3, <1>14, <2>1, <2>2, ClearEffect
  <2>3. CASE row'.fulfilledAt = Null
    <3>1. IsWebhook(p)
      BY <2>1, NoSweepIsAnEvent DEF Roles, RoleOf, TypeOK, IsWebhook
    <3>2. kind = "NEW"
      BY <2>1, <3>1 DEF Roles, RoleOf, Fits
    <3>3. QED
      BY <1>1, <2>3, <3>2 DEF Leases, kind
  <2>4. QED
    BY <2>2, <2>3
<1>15. ASSUME NEW p \in Procs, DropTrial(p) PROVE Leases'
  BY <1>3, <1>15, QuietEffects DEF DropTrial, Goes, Ends
<1>16. ASSUME NEW p \in Procs, Confirmed(p) PROVE Leases'
  BY <1>3, <1>16, QuietEffects DEF Confirmed, Goes, Ends
<1>17. ASSUME NEW p \in Procs, Unavailable(p) PROVE Leases'
  BY <1>3, <1>17, UnavailableEffect DEF Unavailable, Goes, Ends
<1>18. ASSUME NEW p \in Procs, WriteStatus(p) PROVE Leases'
  BY <1>3, <1>18, WriteEffect DEF WriteStatus, Goes, Ends
<1>19. ASSUME NEW p \in Procs, Ack(p) PROVE Leases'
  BY <1>3, <1>19, QuietEffects DEF Ack, Goes, Ends
<1>20. ASSUME NEW p \in Procs, FailEvent(p) PROVE Leases'
  BY <1>3, <1>20, QuietEffects DEF FailEvent, Goes, Ends
<1>21. ASSUME NEW p \in Procs, Claim(p) PROVE Leases'
  <2>1. aged' = FALSE /\ row.fulfilledAt = Null /\ row'.fulfilledAt # Null
    BY <1>21, ClaimEffect DEF Claim, MayClaim, TypeOK, Null
  <2>2. kind # "NEW" => \A q \in Procs : Owning(q)' => q = p
    BY <1>21, <2>1, ClaimEffect DEF Leases, Others, Same, Owning
  <2>3. claimedAt'[p] = row'.fulfilledAt
    BY <1>21, ClaimEffect
  <2>4. QED
    BY <1>1, <2>1, <2>2, <2>3 DEF Leases, kind
<1>22. ASSUME NEW p \in Procs, LoseClaim(p) PROVE Leases'
  BY <1>3, <1>22, BranchEffects DEF LoseClaim, Goes, Ends
<1>23. ASSUME NEW p \in Procs, Provision(p) PROVE Leases'
  <2>1. aged' = FALSE
    BY <1>23 DEF Provision
  <2>2. kind # "NEW" => \A q \in Procs : ~Owning(q)'
    BY <1>23, ProvisionEffect DEF Leases, Goes, Others, Same, Owning
  <2>3. QED
    BY <1>1, <2>1, <2>2 DEF Leases, kind
<1>24. ASSUME NEW p \in Procs, ProvisionFails(p) PROVE Leases'
  BY <1>3, <1>24, QuietEffects DEF ProvisionFails, Goes, Ends
<1>25. ASSUME NEW p \in Procs, ReleaseClaim(p) PROVE Leases'
  <2>1. Others(p) /\ pc'[p] \notin {"provision", "release"}
    BY <1>25, ReleaseEffect DEF Ends
  <2>2. kind # "NEW" => \A q \in Procs : ~Owning(q)'
    BY <1>25, <2>1, ReleaseEffect DEF Leases, Others, Same, Owning
  <2>3. ASSUME aged', row'.fulfilledAt # Null, ~LeaseMayBeOvertaken PROVE ~OwnerAlive'
    <3>1. row'.fulfilledAt = row.fulfilledAt /\ aged
      BY <1>25, <2>3, ReleaseEffect
    <3>2. ~OwnerAlive
      BY <2>3, <3>1 DEF Leases
    <3>3. QED
      BY <2>1, <3>1, <3>2 DEF OwnerAlive, Others, Same
  <2>4. QED
    BY <1>1, <2>2, <2>3 DEF Leases, kind
<1>26. ASSUME NEW p \in Procs, EnqueueSync(p) PROVE Leases'
  BY <1>3, <1>26, BranchEffects DEF EnqueueSync, Goes, Ends
<1>27. ASSUME NEW p \in Procs, EnqueueFails(p) PROVE Leases'
  BY <1>3, <1>27, BranchEffects DEF EnqueueFails, Goes, Ends
<1>28. ASSUME NEW p \in Procs, Hooks(p) PROVE Leases'
  BY <1>3, <1>28, BranchEffects DEF Hooks, Goes, Ends
<1>29. ASSUME NEW p \in Procs, LockLedger(p) PROVE Leases'
  BY <1>3, <1>29, LedgerEffect DEF LockLedger, Goes, Ends
<1>30. ASSUME NEW p \in Procs, UndoPayout(p) PROVE Leases'
  BY <1>3, <1>30, QuietEffects DEF UndoPayout, Goes, Ends
<1>31. ASSUME NEW p \in Procs, Revoke(p) PROVE Leases'
  BY <1>3, <1>31, QuietEffects DEF Revoke, Goes, Ends
<1>32. ASSUME NEW p \in Procs, StampReversal(p) PROVE Leases'
  BY <1>3, <1>32, StampEffect DEF StampReversal, Goes, Ends
<1>33. ASSUME NEW p \in Procs, SweepCancel(p) PROVE Leases'
  BY <1>3, <1>33, CancelEffect DEF SweepCancel, Goes, Ends
<1>34. ASSUME NEW p \in Procs, SweepPoll(p) PROVE Leases'
  BY <1>3, <1>34, PollEffect DEF SweepPoll, Goes, Ends
<1>35. ASSUME NEW p \in Procs, SweepKeep(p) PROVE Leases'
  BY <1>3, <1>35, QuietEffects DEF SweepKeep, Goes, Ends
<1>36. ASSUME NEW p \in Procs, Crash(p) PROVE Leases'
  BY <1>3, <1>36, QuietEffects DEF Crash, Goes, Ends
<1>37. ASSUME NEW p \in Procs, NEW e \in Events, Load(p, e) PROVE Leases'
  BY <1>3, <1>4, <1>37, StartEffects DEF Load, Starts
<1>38. CASE UNCHANGED vars
  BY <1>1, <1>2, <1>38, Unmoved DEF vars
<1>39. QED
  BY <1>5, <1>6, <1>7, <1>8, <1>9, <1>10, <1>11, <1>12, <1>13, <1>14, <1>15,
     <1>16, <1>17, <1>18, <1>19, <1>20, <1>21, <1>22, <1>23, <1>24, <1>25,
     <1>26, <1>27, <1>28, <1>29, <1>30, <1>31, <1>32, <1>33, <1>34, <1>35,
     <1>36, <1>37, <1>38 DEF Next, Continue, WebhookStep, FulfilStep,
     ReversalStep, SweepStep

\* The claim protocol's view of the processes.
phases == [p \in Procs |-> PhaseOf(p)]
leases == [p \in Procs |-> LeaseOf(p)]
seens == [p \in Procs |-> SeenOf(p)]

\* Only the view of the process that moves changes.
LEMMA Views ==
  ASSUME NEW p \in Procs, Others(p)
  PROVE  /\ phases' = [phases EXCEPT ![p] = PhaseOf(p)']
         /\ leases' = [leases EXCEPT ![p] = LeaseOf(p)']
         /\ seens' = [seens EXCEPT ![p] = SeenOf(p)']
<1>1. \A q \in Procs : q # p => /\ PhaseOf(q)' = PhaseOf(q)
                                /\ LeaseOf(q)' = LeaseOf(q)
                                /\ SeenOf(q)' = SeenOf(q)
  BY DEF Others, Same, PhaseOf, LeaseOf, SeenOf
<1>2. QED
  BY <1>1 DEF phases, leases, seens

\* What the claim protocol does not look at may change.
LEMMA Unseen ==
  ASSUME scenario' = scenario, row'.fulfilledAt = row.fulfilledAt,
         row'.linked = row.linked, clock' = clock, deliveredAt' = deliveredAt,
         phases' = phases, leases' = leases, seens' = seens
  PROVE  UNCHANGED Protocol!vars
  BY DEF Protocol!vars, phases, leases, seens, kind

\* A step of a process the claim protocol takes for idle is not seen by it.
LEMMA UnseenBy ==
  ASSUME NEW p \in Procs, Others(p), scenario' = scenario,
         pc[p] \notin {"provision", "release", "clear"},
         pc'[p] \notin {"provision", "release", "clear"},
         row'.fulfilledAt = row.fulfilledAt,
         row'.linked = row.linked, clock' = clock, deliveredAt' = deliveredAt
  PROVE  UNCHANGED Protocol!vars
<1>1. /\ PhaseOf(p)' = PhaseOf(p) /\ LeaseOf(p)' = LeaseOf(p)
      /\ SeenOf(p)' = SeenOf(p)
  BY DEF PhaseOf, LeaseOf, SeenOf
<1>2. phases' = phases /\ leases' = leases /\ seens' = seens
  BY <1>1, Views DEF phases, leases, seens
<1>3. QED
  BY <1>2, Unseen

\* Each of these steps of the views is one of the claim protocol's.
LEMMA ViewAt ==
  ASSUME NEW p \in Procs
  PROVE  /\ phases[p] = PhaseOf(p) /\ leases[p] = LeaseOf(p) /\ seens[p] = SeenOf(p)
         /\ OwnerAlive <=> Protocol!Live(row.fulfilledAt)
<1>1. OwnerAlive <=> Protocol!Live(row.fulfilledAt)
  BY DEF OwnerAlive, Protocol!Live, PhaseOf, LeaseOf
<1>2. QED
  BY <1>1 DEF phases, leases, seens

\* A claimant takes the free claim.
Claims(p) ==
    /\ phases[p] = "idle" /\ row.fulfilledAt = Null /\ clock <= MaxStamp
    /\ row'.fulfilledAt = clock /\ leases' = [leases EXCEPT ![p] = clock]
    /\ phases' = [phases EXCEPT ![p] = "provisioning"] /\ clock' = clock + 1
    /\ row'.linked = row.linked /\ seens' = seens /\ kind' = kind
    /\ deliveredAt' = deliveredAt

\* Its provisioning commits.
Delivers(p) ==
    /\ phases[p] = "provisioning" /\ clock <= MaxStamp
    /\ row'.fulfilledAt = clock /\ row'.linked = TRUE
    /\ deliveredAt' = deliveredAt \cup {clock}
    /\ phases' = [phases EXCEPT ![p] = "idle"]
    /\ leases' = [leases EXCEPT ![p] = Null] /\ clock' = clock + 1
    /\ seens' = seens /\ kind' = kind

\* Its provisioning rolls back.
Fails(p) ==
    /\ phases[p] = "provisioning" /\ phases' = [phases EXCEPT ![p] = "failed"]
    /\ row'.fulfilledAt = row.fulfilledAt /\ row'.linked = row.linked
    /\ clock' = clock /\ leases' = leases /\ seens' = seens /\ kind' = kind
    /\ deliveredAt' = deliveredAt

\* It gives the claim back, fenced on its own timestamp.
GivesBack(p) ==
    /\ phases[p] = "failed"
    /\ row'.fulfilledAt = IF row.fulfilledAt = leases[p] THEN Null ELSE row.fulfilledAt
    /\ phases' = [phases EXCEPT ![p] = "idle"]
    /\ leases' = [leases EXCEPT ![p] = Null] /\ row'.linked = row.linked
    /\ clock' = clock /\ seens' = seens /\ kind' = kind
    /\ deliveredAt' = deliveredAt

\* A reconciliation finds a claim that outlived its lease.
Observes(p) ==
    /\ phases[p] = "idle" /\ kind = "NEW" /\ ~row.linked
    /\ row.fulfilledAt # Null /\ (LeaseMayBeOvertaken \/ ~OwnerAlive)
    /\ seens' = [seens EXCEPT ![p] = row.fulfilledAt]
    /\ phases' = [phases EXCEPT ![p] = "recovering"]
    /\ row'.fulfilledAt = row.fulfilledAt /\ row'.linked = row.linked
    /\ clock' = clock /\ leases' = leases /\ kind' = kind
    /\ deliveredAt' = deliveredAt

\* It takes that claim away, fenced on the timestamp it found.
Clears(p) ==
    /\ phases[p] = "recovering"
    /\ row'.fulfilledAt = IF row.fulfilledAt = seens[p] THEN Null ELSE row.fulfilledAt
    /\ phases' = [phases EXCEPT ![p] = "idle"]
    /\ seens' = [seens EXCEPT ![p] = Null] /\ row'.linked = row.linked
    /\ clock' = clock /\ leases' = leases /\ kind' = kind
    /\ deliveredAt' = deliveredAt

\* A claimant dies.
Crashes(p) ==
    /\ phases[p] # "idle" /\ phases' = [phases EXCEPT ![p] = "idle"]
    /\ leases' = [leases EXCEPT ![p] = Null]
    /\ seens' = [seens EXCEPT ![p] = Null]
    /\ row'.fulfilledAt = row.fulfilledAt /\ row'.linked = row.linked
    /\ clock' = clock /\ kind' = kind /\ deliveredAt' = deliveredAt

\* These are the actions of the claim protocol.
LEMMA Acting ==
  ASSUME NEW p \in Procs
  PROVE  /\ Claims(p) <=> Protocol!Claim(p)
         /\ Delivers(p) <=> Protocol!Deliver(p)
         /\ Fails(p) <=> Protocol!Fail(p)
         /\ GivesBack(p) <=> Protocol!Release(p)
         /\ Observes(p) <=> Protocol!ObserveStale(p)
         /\ Clears(p) <=> Protocol!ClearStale(p)
         /\ Crashes(p) <=> Protocol!Crash(p)
<1>1. Protocol!Null = Null
  BY DEF Protocol!Null, Null
<1>2. Claims(p) <=> Protocol!Claim(p)
  BY <1>1, ViewAt DEF Claims, Protocol!Claim, phases, leases, seens,
     Protocol!Later
<1>3. Delivers(p) <=> Protocol!Deliver(p)
  BY <1>1, ViewAt DEF Delivers, Protocol!Deliver, phases, leases, seens,
     Protocol!DropLease, Protocol!Later
<1>4. Fails(p) <=> Protocol!Fail(p)
  BY <1>1 DEF Fails, Protocol!Fail, phases, leases, seens
<1>5. GivesBack(p) <=> Protocol!Release(p)
  <2>1. Protocol!Erased(leases[p]) = IF row.fulfilledAt = leases[p] THEN Null ELSE row.fulfilledAt
    BY <1>1 DEF Protocol!Erased
  <2>2. QED
    BY <1>1, <2>1, ViewAt DEF GivesBack, Protocol!Release, phases, leases,
       seens, Protocol!DropLease
<1>6. Observes(p) <=> Protocol!ObserveStale(p)
  <2>1. Protocol!Unfinished <=> kind = "NEW" /\ ~row.linked /\ row.fulfilledAt # Null
    BY <1>1 DEF Protocol!Unfinished
  <2>2. QED
    BY <1>1, <2>1, ViewAt DEF Observes, Protocol!ObserveStale, phases, leases,
       seens
<1>7. Clears(p) <=> Protocol!ClearStale(p)
  <2>1. Protocol!Erased(seens[p]) = IF row.fulfilledAt = seens[p] THEN Null ELSE row.fulfilledAt
    BY <1>1 DEF Protocol!Erased
  <2>2. QED
    BY <1>1, <2>1, ViewAt DEF Clears, Protocol!ClearStale, phases, leases,
       seens
<1>8. Crashes(p) <=> Protocol!Crash(p)
  BY <1>1, ViewAt DEF Crashes, Protocol!Crash, phases, leases, seens,
     Protocol!DropLease
<1>9. QED
  BY <1>2, <1>3, <1>4, <1>5, <1>6, <1>7, <1>8

\* The steps the claim protocol takes.
LEMMA Stepping ==
  [Protocol!Next]_(Protocol!vars) <=>
     \/ \E p \in Procs : \/ Claims(p) \/ Delivers(p) \/ Fails(p) \/ GivesBack(p)
                         \/ Observes(p) \/ Clears(p) \/ Crashes(p)
     \/ /\ row'.fulfilledAt = row.fulfilledAt /\ row'.linked = row.linked
        /\ clock' = clock /\ phases' = phases /\ leases' = leases /\ seens' = seens
        /\ kind' = kind /\ deliveredAt' = deliveredAt
<1>1. Protocol!Next <=> \E p \in Procs :
        \/ Claims(p) \/ Delivers(p) \/ Fails(p) \/ GivesBack(p)
        \/ Observes(p) \/ Clears(p) \/ Crashes(p)
  BY Acting DEF Protocol!Next
<1>2. UNCHANGED Protocol!vars <=>
        /\ row'.fulfilledAt = row.fulfilledAt /\ row'.linked = row.linked
        /\ clock' = clock /\ phases' = phases /\ leases' = leases /\ seens' = seens
        /\ kind' = kind /\ deliveredAt' = deliveredAt
  BY DEF Protocol!vars, phases, leases, seens
<1>3. QED
  BY <1>1, <1>2

\* Every step is a step of the claim protocol or not seen by it.
LEMMA RefineStep ==
  ASSUME TypeOK, Roles, Leases, [Next]_vars
  PROVE  [Protocol!Next]_(Protocol!vars)
<1>1. scenario' = scenario /\ ProcsOK
  BY ScenarioKept, TypeParts
<1>2. ASSUME \A q \in Procs : Same(q), row' = row, clock' = clock, deliveredAt' = deliveredAt
      PROVE  UNCHANGED Protocol!vars
  <2>1. phases' = phases /\ leases' = leases /\ seens' = seens
    BY <1>2 DEF Same, phases, leases, seens, PhaseOf, LeaseOf, SeenOf
  <2>2. QED
    BY <1>1, <1>2, <2>1, Unseen
<1>3. ASSUME Settle PROVE [Protocol!Next]_(Protocol!vars)
  BY <1>1, <1>2, <1>3, Unmoved DEF Settle, envVars
<1>4. ASSUME GiveBack PROVE [Protocol!Next]_(Protocol!vars)
  BY <1>1, <1>2, <1>4, Unmoved DEF GiveBack, envVars
<1>5. ASSUME LeaseAges PROVE [Protocol!Next]_(Protocol!vars)
  BY <1>1, <1>2, <1>5, Unmoved DEF LeaseAges, envVars
<1>6. ASSUME NEW e \in Events, Notify(e) PROVE [Protocol!Next]_(Protocol!vars)
  BY <1>1, <1>2, <1>6, Unmoved DEF Notify, envVars
<1>7. ASSUME NEW e \in Events, AutoRetry(e)
      PROVE  [Protocol!Next]_(Protocol!vars)
  BY <1>1, <1>2, <1>7, Unmoved DEF AutoRetry, envVars
<1>8. ASSUME NEW e \in Events, Replay(e) PROVE [Protocol!Next]_(Protocol!vars)
  BY <1>1, <1>2, <1>8, Unmoved DEF Replay, envVars
<1>9. ASSUME NEW p \in Procs, SweepLoad(p) PROVE [Protocol!Next]_(Protocol!vars)
  <2>1. clock' = clock /\ deliveredAt' = deliveredAt
    BY <1>9 DEF SweepLoad
  <2>2. QED
    BY <1>1, <1>9, <2>1, UnseenBy, StartEffects DEF Starts, Goes, Ends
<1>10. ASSUME NEW p \in Procs, RecoveryLoad(p)
       PROVE  [Protocol!Next]_(Protocol!vars)
  <2>1. clock' = clock /\ deliveredAt' = deliveredAt
    BY <1>10 DEF RecoveryLoad
  <2>2. QED
    BY <1>1, <1>10, <2>1, UnseenBy, StartEffects DEF Starts, Goes, Ends
<1>11. ASSUME NEW p \in Procs, HoldForReview(p)
       PROVE  [Protocol!Next]_(Protocol!vars)
  <2>1. clock' = clock /\ deliveredAt' = deliveredAt
    BY <1>11 DEF HoldForReview
  <2>2. QED
    BY <1>1, <1>11, <2>1, UnseenBy, HoldEffect DEF Starts, Goes, Ends
<1>12. ASSUME NEW p \in Procs, ClearStale(p)
       PROVE  [Protocol!Next]_(Protocol!vars)
  <2>1. PhaseOf(p) = "recovering" /\ SeenOf(p) = snap[p].fulfilledAt /\ LeaseOf(p) = Null
    BY <1>12, ClearEffect DEF PhaseOf, SeenOf, LeaseOf
  <2>2. Others(p) /\ PhaseOf(p)' = "idle" /\ SeenOf(p)' = Null /\ LeaseOf(p)' = Null
    BY <1>12, ClearEffect DEF PhaseOf, SeenOf, LeaseOf, Goes, AfterClear
  <2>3. leases' = leases
    BY <2>1, <2>2, Views DEF leases
  <2>4. QED
    BY <1>1, <1>12, <2>1, <2>2, <2>3, Views, ViewAt, Stepping, ClearEffect DEF ClearStale, Clears, kind
<1>13. ASSUME NEW p \in Procs, DropTrial(p)
       PROVE  [Protocol!Next]_(Protocol!vars)
  <2>1. clock' = clock /\ deliveredAt' = deliveredAt
    BY <1>13 DEF DropTrial
  <2>2. QED
    BY <1>1, <1>13, <2>1, UnseenBy, QuietEffects DEF Starts, Goes, Ends
<1>14. ASSUME NEW p \in Procs, Confirmed(p)
       PROVE  [Protocol!Next]_(Protocol!vars)
  <2>1. clock' = clock /\ deliveredAt' = deliveredAt
    BY <1>14 DEF Confirmed
  <2>2. QED
    BY <1>1, <1>14, <2>1, UnseenBy, QuietEffects DEF Starts, Goes, Ends
<1>15. ASSUME NEW p \in Procs, Unavailable(p)
       PROVE  [Protocol!Next]_(Protocol!vars)
  <2>1. clock' = clock /\ deliveredAt' = deliveredAt
    BY <1>15 DEF Unavailable
  <2>2. QED
    BY <1>1, <1>15, <2>1, UnseenBy, UnavailableEffect DEF Starts, Goes, Ends
<1>16. ASSUME NEW p \in Procs, WriteStatus(p)
       PROVE  [Protocol!Next]_(Protocol!vars)
  <2>1. clock' = clock /\ deliveredAt' = deliveredAt
    BY <1>16 DEF WriteStatus
  <2>2. QED
    BY <1>1, <1>16, <2>1, UnseenBy, WriteEffect DEF Starts, Goes, Ends
<1>17. ASSUME NEW p \in Procs, Ack(p) PROVE [Protocol!Next]_(Protocol!vars)
  <2>1. clock' = clock /\ deliveredAt' = deliveredAt
    BY <1>17 DEF Ack
  <2>2. QED
    BY <1>1, <1>17, <2>1, UnseenBy, QuietEffects DEF Starts, Goes, Ends
<1>18. ASSUME NEW p \in Procs, FailEvent(p)
       PROVE  [Protocol!Next]_(Protocol!vars)
  <2>1. clock' = clock /\ deliveredAt' = deliveredAt
    BY <1>18 DEF FailEvent
  <2>2. QED
    BY <1>1, <1>18, <2>1, UnseenBy, QuietEffects DEF Starts, Goes, Ends
<1>19. ASSUME NEW p \in Procs, Claim(p) PROVE [Protocol!Next]_(Protocol!vars)
  <2>1. /\ PhaseOf(p) = "idle" /\ SeenOf(p) = Null /\ Others(p)
        /\ PhaseOf(p)' = "provisioning" /\ SeenOf(p)' = Null /\ LeaseOf(p)' = clock
    BY <1>19, ClaimEffect DEF PhaseOf, SeenOf, LeaseOf
  <2>2. seens' = seens
    BY <2>1, Views DEF seens
  <2>3. clock' = clock + 1 /\ clock <= MaxStamp /\ deliveredAt' = deliveredAt
        /\ row.fulfilledAt = Null
    BY <1>19 DEF Claim, MayClaim
  <2>4. QED
    BY <1>1, <1>19, <2>1, <2>2, <2>3, Views, ViewAt, Stepping, ClaimEffect DEF Claims, kind
<1>20. ASSUME NEW p \in Procs, LoseClaim(p)
       PROVE  [Protocol!Next]_(Protocol!vars)
  <2>1. clock' = clock /\ deliveredAt' = deliveredAt
    BY <1>20 DEF LoseClaim
  <2>2. QED
    BY <1>1, <1>20, <2>1, UnseenBy, BranchEffects DEF Starts, Goes, Ends
<1>21. ASSUME NEW p \in Procs, Provision(p)
       PROVE  [Protocol!Next]_(Protocol!vars)
  <2>1. /\ PhaseOf(p) = "provisioning" /\ SeenOf(p) = Null /\ Others(p)
        /\ PhaseOf(p)' = "idle" /\ SeenOf(p)' = Null /\ LeaseOf(p)' = Null
    BY <1>21, ProvisionEffect DEF PhaseOf, SeenOf, LeaseOf, Goes
  <2>2. seens' = seens
    BY <2>1, Views DEF seens
  <2>3. clock' = clock + 1 /\ clock <= MaxStamp /\ deliveredAt' = deliveredAt \cup {clock}
    BY <1>21 DEF Provision
  <2>4. QED
    BY <1>1, <1>21, <2>1, <2>2, <2>3, Views, ViewAt, Stepping, ProvisionEffect DEF Delivers, kind
<1>22. ASSUME NEW p \in Procs, ProvisionFails(p)
       PROVE  [Protocol!Next]_(Protocol!vars)
  <2>1. /\ PhaseOf(p) = "provisioning" /\ Others(p) /\ PhaseOf(p)' = "failed"
        /\ SeenOf(p)' = SeenOf(p) /\ LeaseOf(p)' = LeaseOf(p)
    BY <1>22, QuietEffects DEF PhaseOf, SeenOf, LeaseOf, Goes
  <2>2. seens' = seens /\ leases' = leases
    BY <2>1, Views DEF seens, leases
  <2>3. UNCHANGED <<row, clock, deliveredAt>>
    BY <1>22 DEF ProvisionFails
  <2>4. QED
    BY <1>1, <2>1, <2>2, <2>3, Views, ViewAt, Stepping DEF Fails, kind
<1>23. ASSUME NEW p \in Procs, ReleaseClaim(p)
       PROVE  [Protocol!Next]_(Protocol!vars)
  <2>1. /\ PhaseOf(p) = "failed" /\ LeaseOf(p) = claimedAt[p] /\ Others(p)
        /\ SeenOf(p) = Null
    BY <1>23, ReleaseEffect DEF PhaseOf, SeenOf, LeaseOf
  <2>2. PhaseOf(p)' = "idle" /\ SeenOf(p)' = Null /\ LeaseOf(p)' = Null
    BY <1>23, ReleaseEffect DEF PhaseOf, SeenOf, LeaseOf, Ends
  <2>3. seens' = seens
    BY <2>1, <2>2, Views DEF seens
  <2>4. job[p] = "recovery" => row.fulfilledAt = claimedAt[p]
    <3>1. job[p] = "recovery" => kind = "ADDON"
      BY DEF Roles, RoleOf
    <3>2. Owning(p)
      BY <1>23, ReleaseEffect DEF Owning
    <3>3. QED
      BY <3>1, <3>2 DEF Leases
  <2>5. row'.fulfilledAt = IF row.fulfilledAt = LeaseOf(p) THEN Null ELSE row.fulfilledAt
    BY <1>23, <2>1, <2>4, ReleaseEffect DEF Releases
  <2>6. clock' = clock /\ deliveredAt' = deliveredAt
    BY <1>23 DEF ReleaseClaim
  <2>7. QED
    BY <1>1, <1>23, <2>1, <2>2, <2>3, <2>5, <2>6, Views, ViewAt, Stepping, ReleaseEffect DEF GivesBack, kind
<1>24. ASSUME NEW p \in Procs, EnqueueSync(p)
       PROVE  [Protocol!Next]_(Protocol!vars)
  <2>1. clock' = clock /\ deliveredAt' = deliveredAt
    BY <1>24 DEF EnqueueSync
  <2>2. QED
    BY <1>1, <1>24, <2>1, UnseenBy, BranchEffects DEF Starts, Goes, Ends
<1>25. ASSUME NEW p \in Procs, EnqueueFails(p)
       PROVE  [Protocol!Next]_(Protocol!vars)
  <2>1. clock' = clock /\ deliveredAt' = deliveredAt
    BY <1>25 DEF EnqueueFails
  <2>2. QED
    BY <1>1, <1>25, <2>1, UnseenBy, BranchEffects DEF Starts, Goes, Ends
<1>26. ASSUME NEW p \in Procs, Hooks(p) PROVE [Protocol!Next]_(Protocol!vars)
  <2>1. clock' = clock /\ deliveredAt' = deliveredAt
    BY <1>26 DEF Hooks
  <2>2. QED
    BY <1>1, <1>26, <2>1, UnseenBy, BranchEffects DEF Starts, Goes, Ends
<1>27. ASSUME NEW p \in Procs, LockLedger(p)
       PROVE  [Protocol!Next]_(Protocol!vars)
  <2>1. clock' = clock /\ deliveredAt' = deliveredAt
    BY <1>27 DEF LockLedger
  <2>2. QED
    BY <1>1, <1>27, <2>1, UnseenBy, LedgerEffect DEF Starts, Goes, Ends
<1>28. ASSUME NEW p \in Procs, UndoPayout(p)
       PROVE  [Protocol!Next]_(Protocol!vars)
  <2>1. clock' = clock /\ deliveredAt' = deliveredAt
    BY <1>28 DEF UndoPayout
  <2>2. QED
    BY <1>1, <1>28, <2>1, UnseenBy, QuietEffects DEF Starts, Goes, Ends
<1>29. ASSUME NEW p \in Procs, Revoke(p) PROVE [Protocol!Next]_(Protocol!vars)
  <2>1. clock' = clock /\ deliveredAt' = deliveredAt
    BY <1>29 DEF Revoke
  <2>2. QED
    BY <1>1, <1>29, <2>1, UnseenBy, QuietEffects DEF Starts, Goes, Ends
<1>30. ASSUME NEW p \in Procs, StampReversal(p)
       PROVE  [Protocol!Next]_(Protocol!vars)
  <2>1. clock' = clock /\ deliveredAt' = deliveredAt
    BY <1>30 DEF StampReversal
  <2>2. QED
    BY <1>1, <1>30, <2>1, UnseenBy, StampEffect DEF Starts, Goes, Ends
<1>31. ASSUME NEW p \in Procs, SweepCancel(p)
       PROVE  [Protocol!Next]_(Protocol!vars)
  <2>1. clock' = clock /\ deliveredAt' = deliveredAt
    BY <1>31 DEF SweepCancel
  <2>2. QED
    BY <1>1, <1>31, <2>1, UnseenBy, CancelEffect DEF Starts, Goes, Ends
<1>32. ASSUME NEW p \in Procs, SweepPoll(p)
       PROVE  [Protocol!Next]_(Protocol!vars)
  <2>1. clock' = clock /\ deliveredAt' = deliveredAt
    BY <1>32 DEF SweepPoll
  <2>2. QED
    BY <1>1, <1>32, <2>1, UnseenBy, PollEffect DEF Starts, Goes, Ends
<1>33. ASSUME NEW p \in Procs, SweepKeep(p)
       PROVE  [Protocol!Next]_(Protocol!vars)
  <2>1. clock' = clock /\ deliveredAt' = deliveredAt
    BY <1>33 DEF SweepKeep
  <2>2. QED
    BY <1>1, <1>33, <2>1, UnseenBy, QuietEffects DEF Starts, Goes, Ends
<1>34. ASSUME NEW p \in Procs, Crash(p) PROVE [Protocol!Next]_(Protocol!vars)
  <2>1. UNCHANGED <<row, clock, deliveredAt>>
    BY <1>34 DEF Crash
  <2>2. Others(p) /\ PhaseOf(p)' = "idle" /\ SeenOf(p)' = Null /\ LeaseOf(p)' = Null
    BY <1>34, QuietEffects DEF PhaseOf, SeenOf, LeaseOf, Ends
  <2>3. CASE PhaseOf(p) = "idle"
    <3>1. SeenOf(p) = Null /\ LeaseOf(p) = Null
      BY <2>3 DEF PhaseOf, SeenOf, LeaseOf
    <3>2. phases' = phases /\ leases' = leases /\ seens' = seens
      BY <2>2, <2>3, <3>1, Views DEF phases, leases, seens
    <3>3. QED
      BY <1>1, <2>1, <3>2, Unseen
  <2>4. CASE PhaseOf(p) # "idle"
    BY <1>1, <2>1, <2>2, <2>4, Views, ViewAt, Stepping DEF Crashes, kind
  <2>5. QED
    BY <2>3, <2>4
<1>35. ASSUME NEW p \in Procs, NEW e \in Events, Load(p, e)
       PROVE  [Protocol!Next]_(Protocol!vars)
  <2>1. UNCHANGED <<row, clock, deliveredAt>>
    BY <1>35 DEF Load
  <2>2. Others(p) /\ pc[p] = "idle" /\ pc'[p] = FirstStep(EventKind(e)) /\ snap'[p] = row
    BY <1>35, StartEffects DEF Starts
  <2>3. CASE FirstStep(EventKind(e)) = "clear"
    <3>1. kind = "NEW" /\ ~row.linked /\ aged /\ row.fulfilledAt # Null
      BY <2>3 DEF FirstStep, ClaimedStep, StepFor
    <3>2. LeaseMayBeOvertaken \/ ~OwnerAlive
      BY <3>1, LeaseAssumption DEF Leases
    <3>3. /\ PhaseOf(p) = "idle" /\ LeaseOf(p) = Null /\ LeaseOf(p)' = Null
          /\ PhaseOf(p)' = "recovering" /\ SeenOf(p)' = row.fulfilledAt
      BY <2>2, <2>3 DEF PhaseOf, SeenOf, LeaseOf
    <3>4. leases' = leases
      BY <2>2, <3>3, Views DEF leases
    <3>5. QED
      BY <1>1, <2>1, <2>2, <3>1, <3>2, <3>3, <3>4, Views, ViewAt, Stepping DEF Observes, kind
  <2>4. CASE FirstStep(EventKind(e)) # "clear"
    <3>1. FirstStep(EventKind(e)) \notin {"provision", "release", "clear"}
      BY <2>4 DEF FirstStep, ClaimedStep, StepFor
    <3>2. QED
      BY <1>1, <2>1, <2>2, <3>1, UnseenBy
  <2>5. QED
    BY <2>3, <2>4
<1>36. CASE UNCHANGED vars
  BY <1>1, <1>2, <1>36, Unmoved DEF vars
<1>37. QED
  BY <1>3, <1>4, <1>5, <1>6, <1>7, <1>8, <1>9, <1>10, <1>11, <1>12, <1>13,
     <1>14, <1>15, <1>16, <1>17, <1>18, <1>19, <1>20, <1>21, <1>22, <1>23,
     <1>24, <1>25, <1>26, <1>27, <1>28, <1>29, <1>30, <1>31, <1>32, <1>33,
     <1>34, <1>35, <1>36 DEF Next, Continue, WebhookStep, FulfilStep,
     ReversalStep, SweepStep

\* The types of the claim protocol are those of its implementation.
LEMMA ProtocolTyped ==
  ASSUME TypeOK
  PROVE  /\ phases \in [Procs -> {"idle", "provisioning", "failed", "recovering"}]
         /\ leases \in [Procs -> Nat] /\ seens \in [Procs -> Nat]
         /\ row.fulfilledAt \in Nat /\ row.linked \in BOOLEAN
         /\ clock \in Nat \ {0} /\ deliveredAt \in SUBSET Nat
<1>1. \A p \in Procs : /\ PhaseOf(p) \in {"idle", "provisioning", "failed", "recovering"}
                       /\ LeaseOf(p) \in Nat /\ SeenOf(p) \in Nat
  BY DEF TypeOK, PhaseOf, LeaseOf, SeenOf, Rows, Null
<1>2. QED
  BY <1>1 DEF TypeOK, Rows, phases, leases, seens

\* The inductive invariant of the claim protocol, on the views: Fences and Owners
\* are its Stamps and Exclusive.
Fenced(p) ==
    /\ phases[p] \in {"provisioning", "failed"} =>
            0 < leases[p] /\ leases[p] < clock /\ leases[p] \notin deliveredAt
    /\ phases[p] = "recovering" =>
            0 < seens[p] /\ seens[p] < clock /\ seens[p] \notin deliveredAt

\* No two claimants hold the same timestamp.
Apart(p, q) ==
    /\ phases[p] \in {"provisioning", "failed"}
    /\ phases[q] \in {"provisioning", "failed"}
    /\ leases[p] = leases[q]
    => p = q

\* Every timestamp was handed out, and a delivered payment stays claimed.
Stamped ==
    /\ row.fulfilledAt < clock
    /\ \A s \in deliveredAt : 0 < s /\ s < clock
    /\ deliveredAt # {} => row.linked /\ row.fulfilledAt \in deliveredAt

\* The fences of all claimants.
Fences ==
    /\ Stamped
    /\ \A p \in Procs : Fenced(p)
    /\ \A p, q \in Procs : Apart(p, q)

\* A claimant that provisions owns the row, while leases outlive provisionings.
Owners ==
    ~LeaseMayBeOvertaken =>
        /\ \A p \in Procs : phases[p] = "provisioning" =>
                row.fulfilledAt = leases[p] /\ deliveredAt = {}
        /\ \A p, q \in Procs :
                phases[p] = "recovering" /\ phases[q] = "provisioning" =>
                    seens[p] # leases[q]
        /\ \A s, t \in deliveredAt : s = t

\* Nobody at work is what a reconciliation needs to take a claim for stale.
LEMMA OwnedAt ==
  ASSUME NEW q \in Procs, phases[q] = "provisioning", leases[q] = row.fulfilledAt
  PROVE  OwnerAlive
<1>1. PhaseOf(q) = "provisioning" /\ LeaseOf(q) = row.fulfilledAt
  BY DEF phases, leases
<1>2. QED
  BY <1>1 DEF PhaseOf, LeaseOf, OwnerAlive

\* The two invariants are those of the claim protocol.
LEMMA FencesAre == (Fences <=> Protocol!Stamps) /\ (Owners <=> Protocol!Exclusive)
<1> USE DEF phases, leases, seens
<1>1. Fences <=> Protocol!Stamps
  <2>1. \A p \in Procs : /\ Protocol!Holding(p) <=> phases[p] \in {"provisioning", "failed"}
                         /\ [q \in Procs |-> LeaseOf(q)][p] = leases[p]
                         /\ [q \in Procs |-> SeenOf(q)][p] = seens[p]
                         /\ [q \in Procs |-> PhaseOf(q)][p] = phases[p]
    BY DEF Protocol!Holding
  <2> HIDE DEF phases, leases, seens
  <2>2. (\A p \in Procs : Fenced(p)) <=>
          /\ \A p \in Procs : Protocol!Holding(p) =>
               0 < leases[p] /\ leases[p] < clock /\ leases[p] \notin deliveredAt
          /\ \A p \in Procs : phases[p] = "recovering" =>
               0 < seens[p] /\ seens[p] < clock /\ seens[p] \notin deliveredAt
    BY <2>1 DEF Fenced
  <2>3. (\A p, q \in Procs : Apart(p, q)) <=>
          \A p, q \in Procs :
            Protocol!Holding(p) /\ Protocol!Holding(q) /\ leases[p] = leases[q] => p = q
    BY <2>1 DEF Apart
  <2>4. Protocol!Stamps <=>
          /\ Stamped
          /\ \A p \in Procs : Protocol!Holding(p) =>
               0 < leases[p] /\ leases[p] < clock /\ leases[p] \notin deliveredAt
          /\ \A p \in Procs : phases[p] = "recovering" =>
               0 < seens[p] /\ seens[p] < clock /\ seens[p] \notin deliveredAt
          /\ \A p, q \in Procs :
            Protocol!Holding(p) /\ Protocol!Holding(q) /\ leases[p] = leases[q] => p = q
    BY DEF Stamped, Protocol!Stamps, Protocol!DeliveredStaysClaimed, phases, leases, seens
  <2>5. QED
    BY <2>2, <2>3, <2>4 DEF Fences
<1>2. Owners <=> Protocol!Exclusive
  BY DEF Owners, Protocol!Exclusive, Protocol!AtMostOnce
<1>3. QED
  BY <1>1, <1>2

\* The fences separate delivered timestamps from the ones still held.
LEMMA FencesStep ==
  ASSUME TypeOK, TypeOK', Fences, [Protocol!Next]_(Protocol!vars)
  PROVE  Fences'
<1>1. /\ phases \in [Procs -> {"idle", "provisioning", "failed", "recovering"}]
      /\ leases \in [Procs -> Nat] /\ seens \in [Procs -> Nat]
      /\ row.fulfilledAt \in Nat /\ clock \in Nat \ {0} /\ deliveredAt \in SUBSET Nat
  BY ProtocolTyped
<1>2. ASSUME NEW p \in Procs, Claims(p) PROVE Fences'
  BY <1>1, <1>2 DEF Claims, Fences, Stamped, Fenced, Apart, Null
<1>3. ASSUME NEW p \in Procs, Delivers(p) PROVE Fences'
  <2>1. /\ \A q \in Procs : q # p => /\ phases'[q] = phases[q] /\ leases'[q] = leases[q]
                                        /\ seens'[q] = seens[q]
        /\ phases'[p] = "idle" /\ deliveredAt \subseteq deliveredAt' /\ clock <= clock'
        /\ \A s \in deliveredAt' : s \in deliveredAt \/ s = clock
        /\ clock' \in Nat
    BY <1>1, <1>3 DEF Delivers
  <2>2. Stamped'
    BY <1>1, <1>3 DEF Delivers, Fences, Stamped, Fenced, Null
  <2>3. ASSUME NEW q \in Procs PROVE Fenced(q)'
    <3>1. CASE q = p
      BY <2>1, <3>1 DEF Fenced
    <3>2. CASE q # p
      BY <1>1, <2>1, <3>2 DEF Fences, Fenced
    <3>3. QED
      BY <3>1, <3>2
  <2>4. ASSUME NEW q \in Procs, NEW r \in Procs PROVE Apart(q, r)'
    BY <2>1 DEF Fences, Apart
  <2>5. QED
    BY <2>2, <2>3, <2>4 DEF Fences
<1>4. ASSUME NEW p \in Procs, Fails(p) PROVE Fences'
  BY <1>1, <1>4 DEF Fails, Fences, Stamped, Fenced, Apart, Null
<1>5. ASSUME NEW p \in Procs, GivesBack(p) PROVE Fences'
  <2>1. /\ \A q \in Procs : q # p => /\ phases'[q] = phases[q] /\ leases'[q] = leases[q]
                                        /\ seens'[q] = seens[q]
        /\ phases'[p] = "idle" /\ deliveredAt \subseteq deliveredAt' /\ clock <= clock'
        /\ \A s \in deliveredAt' : s \in deliveredAt \/ s = clock
        /\ clock' \in Nat
    BY <1>1, <1>5 DEF GivesBack
  <2>2. Stamped'
    BY <1>1, <1>5 DEF GivesBack, Fences, Stamped, Fenced, Null
  <2>3. ASSUME NEW q \in Procs PROVE Fenced(q)'
    <3>1. CASE q = p
      BY <2>1, <3>1 DEF Fenced
    <3>2. CASE q # p
      BY <1>1, <2>1, <3>2 DEF Fences, Fenced
    <3>3. QED
      BY <3>1, <3>2
  <2>4. ASSUME NEW q \in Procs, NEW r \in Procs PROVE Apart(q, r)'
    BY <2>1 DEF Fences, Apart
  <2>5. QED
    BY <2>2, <2>3, <2>4 DEF Fences
<1>6. ASSUME NEW p \in Procs, Observes(p) PROVE Fences'
  BY <1>1, <1>6 DEF Observes, Fences, Stamped, Fenced, Apart, Null
<1>7. ASSUME NEW p \in Procs, Clears(p) PROVE Fences'
  BY <1>1, <1>7 DEF Clears, Fences, Stamped, Fenced, Apart, Null
<1>8. ASSUME NEW p \in Procs, Crashes(p) PROVE Fences'
  <2>1. /\ \A q \in Procs : q # p => /\ phases'[q] = phases[q] /\ leases'[q] = leases[q]
                                        /\ seens'[q] = seens[q]
        /\ phases'[p] = "idle" /\ deliveredAt \subseteq deliveredAt' /\ clock <= clock'
        /\ \A s \in deliveredAt' : s \in deliveredAt \/ s = clock
        /\ clock' \in Nat
    BY <1>1, <1>8 DEF Crashes
  <2>2. Stamped'
    BY <1>1, <1>8 DEF Crashes, Fences, Stamped, Fenced, Null
  <2>3. ASSUME NEW q \in Procs PROVE Fenced(q)'
    <3>1. CASE q = p
      BY <2>1, <3>1 DEF Fenced
    <3>2. CASE q # p
      BY <1>1, <2>1, <3>2 DEF Fences, Fenced
    <3>3. QED
      BY <3>1, <3>2
  <2>4. ASSUME NEW q \in Procs, NEW r \in Procs PROVE Apart(q, r)'
    BY <2>1 DEF Fences, Apart
  <2>5. QED
    BY <2>2, <2>3, <2>4 DEF Fences
<1>9. ASSUME row'.fulfilledAt = row.fulfilledAt, row'.linked = row.linked,
             clock' = clock, phases' = phases, leases' = leases, seens' = seens,
             deliveredAt' = deliveredAt
      PROVE  Fences'
  BY <1>9 DEF Fences, Stamped, Fenced, Apart, Null
<1>10. QED
  BY <1>2, <1>3, <1>4, <1>5, <1>6, <1>7, <1>8, <1>9, Stepping

\* With leases that outlive every provisioning, the owner stays the owner.
LEMMA OwnersStep ==
  ASSUME TypeOK, TypeOK', Fences, Owners, [Protocol!Next]_(Protocol!vars)
  PROVE  Owners'
<1>1. /\ phases \in [Procs -> {"idle", "provisioning", "failed", "recovering"}]
      /\ leases \in [Procs -> Nat] /\ seens \in [Procs -> Nat]
      /\ row.fulfilledAt \in Nat /\ clock \in Nat \ {0} /\ deliveredAt \in SUBSET Nat
  BY ProtocolTyped
<1>2. ASSUME NEW p \in Procs, Claims(p) PROVE Owners'
  BY <1>1, <1>2 DEF Claims, Fences, Stamped, Fenced, Apart, Owners, Null
<1>3. ASSUME NEW p \in Procs, Delivers(p) PROVE Owners'
  BY <1>1, <1>3 DEF Delivers, Fences, Stamped, Fenced, Apart, Owners, Null
<1>4. ASSUME NEW p \in Procs, Fails(p) PROVE Owners'
  BY <1>1, <1>4 DEF Fails, Fences, Stamped, Fenced, Apart, Owners, Null
<1>5. ASSUME NEW p \in Procs, GivesBack(p) PROVE Owners'
  BY <1>1, <1>5 DEF GivesBack, Fences, Stamped, Fenced, Apart, Owners, Null
<1>6. ASSUME NEW p \in Procs, Observes(p) PROVE Owners'
  BY <1>1, <1>6, OwnedAt DEF Observes, Fences, Stamped, Fenced, Apart, Owners,
     Null
<1>7. ASSUME NEW p \in Procs, Clears(p) PROVE Owners'
  BY <1>1, <1>7 DEF Clears, Fences, Stamped, Fenced, Apart, Owners, Null
<1>8. ASSUME NEW p \in Procs, Crashes(p) PROVE Owners'
  BY <1>1, <1>8 DEF Crashes, Fences, Stamped, Fenced, Apart, Owners, Null
<1>9. ASSUME row'.fulfilledAt = row.fulfilledAt, row'.linked = row.linked,
             clock' = clock, phases' = phases, leases' = leases, seens' = seens,
             deliveredAt' = deliveredAt
      PROVE  Owners'
  BY <1>9 DEF Fences, Stamped, Fenced, Apart, Owners, Null
<1>10. QED
  BY <1>2, <1>3, <1>4, <1>5, <1>6, <1>7, <1>8, <1>9, Stepping

------------------------------------------------------------------------------
(***************************************************************************)
(* The row, its trial and its verdicts.                                    *)
(***************************************************************************)

\* A NEW purchase that is linked, and a handler that is past its provisioning,
\* have delivered; a gateway that is not polled knows no verification and no
\* sweep beyond the local timeout.
PurchaseOf(p) ==
    /\ pc[p] = "enqueue" => Delivered
    /\ gateway = "OTHER" => pc[p] # "verify" /\ (job[p] = "expiry" => pc[p] = "sweep")

Purchases ==
    /\ TrialConsumed
    /\ kind = "NEW" /\ row.linked => Delivered
    /\ \A p \in Procs : PurchaseOf(p)

\* Without the news that asks for it there is no hold of a verdict and no reversal.
Unheld ==
    (\A e \in Events : EventKind(e) # "underpaid") =>
        row.hold # "manual" /\ \A p \in Procs : snap[p].hold # "manual"

Unreversed ==
    (\A e \in Events : EventKind(e) # "refund") =>
        ~row.reversed /\ \A p \in Procs : ~snap[p].reversed

\* One handler at a time.
Serial == scenario.handlers <= 1

\* At most one handler is at work.
Alone == \A p, q \in Procs : pc[p] # "idle" /\ pc[q] # "idle" => p = q

\* What a handler nobody disturbs knows of the row.
Knows(p) ==
    /\ pc[p] \in {"hold", "clear", "verify", "write", "sweep", "ledger", "undo", "revoke", "stamp"} =>
         snap[p].hold = row.hold /\ snap[p].reversed = row.reversed
    /\ pc[p] = "clear" => row.status = "COMPLETED" /\ snap[p].fulfilledAt = row.fulfilledAt
    /\ pc[p] = "dropTrial" => row.status # "PENDING"
    /\ pc[p] = "write" /\ EventKind(job[p]) # "paid" => row.status = "PENDING"

SerialInv == Serial => Alone /\ \A p \in Procs : Knows(p)

\* A payment delivered long ago that nobody captures again.
LongAgo == scenario.history = "fulfilled" /\ Paid = {}

\* No payout stands but one whose reversal failed and was logged.
Undone == (payout => swallowed)

\* The subscription a NEW purchase created is not active.
Expired == kind = "NEW" => sub # "active"

\* What its handlers do and know: none writes a status or claims.
LongAgoOf(p) ==
    /\ pc[p] \in {"idle", "hold", "ledger", "undo", "revoke", "stamp", "dropTrial", "ack"}
    /\ snap[p].reversed => row.status = "CANCELED"
    /\ pc[p] \in {"ledger", "undo", "revoke"} => snap[p].linked
    /\ pc[p] \in {"revoke", "stamp"} => Undone
    /\ pc[p] = "stamp" => Expired

\* Once cancelled by a reversal, it is undone.
LongAgoInv ==
    LongAgo =>
        /\ row.status # "PENDING" /\ row.fulfilledAt # Null /\ row.linked
        /\ row.reversed => row.status = "CANCELED"
        /\ row.status = "CANCELED" => Undone /\ Expired
        /\ \A p \in Procs : LongAgoOf(p)

\* Without replays an event has one job, queued or at work.
OneJob ==
    scenario.replays = 0 =>
        /\ \A e \in Events : inbox[e].jobs <= 1
        /\ \A p \in Procs : IsWebhook(p) =>
             inbox[job[p]].jobs = 0 /\ inbox[job[p]].status = "PROCESSING"
        /\ \A p, q \in Procs : IsWebhook(p) /\ job[q] = job[p] => p = q

\* All that is notified is the capture.
AllPaid == \A e \in Events : EventKind(e) \in {"paid", "nothing"}

\* A claim is on a row that is COMPLETED, unless the money is on its way back.
ClaimedInv ==
    (Serial \/ AllPaid) /\ kind = "NEW" /\ gateway = "OTHER" =>
        /\ row.fulfilledAt # Null => row.status = "COMPLETED" \/ (refunded /\ ~AllPaid)
        /\ \A p \in Procs : pc[p] = "claim" => row.status = "COMPLETED"

\* The purchase is delivered or the money is on its way back.
Safe == Delivered \/ refunded

\* What a handler of a capture is about to do is right.
PaidOf(p) ==
    IsWebhook(p) /\ EventKind(job[p]) = "paid" =>
        /\ pc[p] \in {"write", "claim"} => row.fulfilledAt = Null \/ refunded
        /\ pc[p] \in {"hooks", "ack"} => Safe

\* What a lone handler of a capture is about to acknowledge is delivered.
SerialPaidInv ==
    Serial /\ kind = "NEW" /\ gateway = "OTHER" =>
        /\ \A p \in Procs : PaidOf(p)
        /\ \A e \in Paid : inbox[e].status = "PROCESSED" => Safe

\* A handler that will not acknowledge its notification while the payment is
\* claimed and not delivered.
Waits(p) ==
    /\ pc[p] \notin {"hooks", "ack"}
    /\ row.fulfilledAt # Null => pc[p] \notin {"write", "claim"}
    /\ row.fulfilledAt # Null /\ pc[p] = "clear" => snap[p].fulfilledAt = row.fulfilledAt

\* A notification that will be handled again, or until the payment is delivered.
Open(e) == inbox[e].status \in {"ENQUEUED", "PROCESSING", "FAILED"}

\* It is open, and every handler of it waits.
Answerable(e) == Open(e) /\ \A p \in Procs : job[p] = e => Waits(p)

\* Somebody has claimed the payment, or has seen it claimed.
Committed ==
    \/ \E e \in Events : inbox[e].status = "PROCESSED"
    \/ \E p \in Procs : pc[p] \in {"hooks", "ack"}
    \/ row.fulfilledAt # Null

\* While the payment is claimed or was seen claimed, some capture is answerable.
AllPaidInv ==
    AllPaid /\ kind = "NEW" /\ gateway = "OTHER" /\ scenario.replays = 0
        /\ ~Delivered /\ Committed => \E e \in Events : Answerable(e)

\* Only a provisioning adds to the deliveries, and what a step does to the trial.
LEMMA TrialMoves ==
  ASSUME [Next]_vars
  PROVE  \/ deliveredAt' = deliveredAt /\ trial' \in {trial, ReleasedTrial}
         \/ deliveredAt' = deliveredAt \cup {clock} /\ trial' = ConsumedTrial
<1> DEFINE Moves ==
      \/ deliveredAt' = deliveredAt /\ trial' \in {trial, ReleasedTrial}
      \/ deliveredAt' = deliveredAt \cup {clock} /\ trial' = ConsumedTrial
<1>1. ASSUME Settle PROVE Moves
  BY <1>1 DEF Settle
<1>2. ASSUME GiveBack PROVE Moves
  BY <1>2 DEF GiveBack
<1>3. ASSUME LeaseAges PROVE Moves
  BY <1>3 DEF LeaseAges
<1>4. ASSUME NEW e \in Events, Notify(e) PROVE Moves
  BY <1>4 DEF Notify
<1>5. ASSUME NEW e \in Events, AutoRetry(e) PROVE Moves
  BY <1>5 DEF AutoRetry
<1>6. ASSUME NEW e \in Events, Replay(e) PROVE Moves
  BY <1>6 DEF Replay
<1>7. ASSUME NEW p \in Procs, SweepLoad(p) PROVE Moves
  BY <1>7 DEF SweepLoad
<1>8. ASSUME NEW p \in Procs, RecoveryLoad(p) PROVE Moves
  BY <1>8 DEF RecoveryLoad
<1>9. ASSUME NEW p \in Procs, HoldForReview(p) PROVE Moves
  BY <1>9 DEF HoldForReview
<1>10. ASSUME NEW p \in Procs, ClearStale(p) PROVE Moves
  BY <1>10 DEF ClearStale
<1>11. ASSUME NEW p \in Procs, DropTrial(p) PROVE Moves
  BY <1>11 DEF DropTrial
<1>12. ASSUME NEW p \in Procs, Confirmed(p) PROVE Moves
  BY <1>12 DEF Confirmed
<1>13. ASSUME NEW p \in Procs, Unavailable(p) PROVE Moves
  BY <1>13 DEF Unavailable
<1>14. ASSUME NEW p \in Procs, WriteStatus(p) PROVE Moves
  BY <1>14 DEF WriteStatus
<1>15. ASSUME NEW p \in Procs, Ack(p) PROVE Moves
  BY <1>15 DEF Ack
<1>16. ASSUME NEW p \in Procs, FailEvent(p) PROVE Moves
  BY <1>16 DEF FailEvent
<1>17. ASSUME NEW p \in Procs, Claim(p) PROVE Moves
  BY <1>17 DEF Claim
<1>18. ASSUME NEW p \in Procs, LoseClaim(p) PROVE Moves
  BY <1>18 DEF LoseClaim
<1>19. ASSUME NEW p \in Procs, Provision(p) PROVE Moves
  BY <1>19 DEF Provision
<1>20. ASSUME NEW p \in Procs, ProvisionFails(p) PROVE Moves
  BY <1>20 DEF ProvisionFails
<1>21. ASSUME NEW p \in Procs, ReleaseClaim(p) PROVE Moves
  BY <1>21 DEF ReleaseClaim
<1>22. ASSUME NEW p \in Procs, EnqueueSync(p) PROVE Moves
  BY <1>22 DEF EnqueueSync
<1>23. ASSUME NEW p \in Procs, EnqueueFails(p) PROVE Moves
  BY <1>23 DEF EnqueueFails
<1>24. ASSUME NEW p \in Procs, Hooks(p) PROVE Moves
  BY <1>24 DEF Hooks
<1>25. ASSUME NEW p \in Procs, LockLedger(p) PROVE Moves
  BY <1>25 DEF LockLedger
<1>26. ASSUME NEW p \in Procs, UndoPayout(p) PROVE Moves
  BY <1>26 DEF UndoPayout
<1>27. ASSUME NEW p \in Procs, Revoke(p) PROVE Moves
  BY <1>27 DEF Revoke
<1>28. ASSUME NEW p \in Procs, StampReversal(p) PROVE Moves
  BY <1>28 DEF StampReversal
<1>29. ASSUME NEW p \in Procs, SweepCancel(p) PROVE Moves
  BY <1>29 DEF SweepCancel
<1>30. ASSUME NEW p \in Procs, SweepPoll(p) PROVE Moves
  BY <1>30 DEF SweepPoll
<1>31. ASSUME NEW p \in Procs, SweepKeep(p) PROVE Moves
  BY <1>31 DEF SweepKeep
<1>32. ASSUME NEW p \in Procs, Crash(p) PROVE Moves
  BY <1>32 DEF Crash
<1>33. ASSUME NEW p \in Procs, NEW e \in Events, Load(p, e) PROVE Moves
  BY <1>33 DEF Load
<1>34. CASE UNCHANGED vars
  BY <1>34 DEF vars
<1>35. QED
  BY <1>1, <1>2, <1>3, <1>4, <1>5, <1>6, <1>7, <1>8, <1>9, <1>10, <1>11,
     <1>12, <1>13, <1>14, <1>15, <1>16, <1>17, <1>18, <1>19, <1>20, <1>21,
     <1>22, <1>23, <1>24, <1>25, <1>26, <1>27, <1>28, <1>29, <1>30, <1>31,
     <1>32, <1>33, <1>34 DEF Next, Continue, WebhookStep, FulfilStep,
     ReversalStep, SweepStep

\* Purchases at every step.
LEMMA PurchasesStep ==
  ASSUME TypeOK, Roles, Purchases, [Next]_vars
  PROVE  Purchases'
<1>1. scenario' = scenario /\ ProcsOK /\ (Delivered => Delivered')
  BY ScenarioKept, TypeParts, TrialMoves DEF Delivered
<1>2. TrialConsumed'
  BY TrialMoves DEF Purchases, TrialConsumed, Delivered, ReleasedTrial, ConsumedTrial
<1>3. ASSUME \A q \in Procs : Same(q), row'.linked = row.linked
      PROVE  Purchases'
  BY <1>1, <1>2, <1>3 DEF Purchases, PurchaseOf, Same, kind, gateway
<1>4. ASSUME NEW p \in Procs, Others(p), row'.linked = row.linked \/ Delivered',
             PurchaseOf(p)'
      PROVE  Purchases'
  <2>1. ASSUME NEW q \in Procs PROVE PurchaseOf(q)'
    BY <1>1, <1>4, <2>1 DEF Purchases, PurchaseOf, Others, Same, gateway
  <2>2. QED
    BY <1>1, <1>2, <1>4, <2>1 DEF Purchases, kind
<1>5. ASSUME NEW p \in Procs, Others(p), row'.linked = row.linked,
             pc'[p] \notin {"enqueue", "verify"},
             \/ job'[p] # "expiry" \/ pc'[p] = "sweep"
             \/ job'[p] = job[p] /\ pc[p] # "sweep"
      PROVE  Purchases'
  BY <1>1, <1>4, <1>5 DEF PurchaseOf, Purchases, gateway
<1>6. ASSUME Settle PROVE Purchases'
  BY <1>3, <1>1, <1>6, Unmoved DEF Settle
<1>7. ASSUME GiveBack PROVE Purchases'
  BY <1>3, <1>1, <1>7, Unmoved DEF GiveBack
<1>8. ASSUME LeaseAges PROVE Purchases'
  BY <1>3, <1>1, <1>8, Unmoved DEF LeaseAges
<1>9. ASSUME NEW e \in Events, Notify(e) PROVE Purchases'
  BY <1>3, <1>1, <1>9, Unmoved DEF Notify
<1>10. ASSUME NEW e \in Events, AutoRetry(e) PROVE Purchases'
  BY <1>3, <1>1, <1>10, Unmoved DEF AutoRetry
<1>11. ASSUME NEW e \in Events, Replay(e) PROVE Purchases'
  BY <1>3, <1>1, <1>11, Unmoved DEF Replay
<1>12. ASSUME NEW p \in Procs, SweepLoad(p) PROVE Purchases'
  BY <1>5, <1>12, StartEffects DEF Starts, Goes, Ends, NoJob
<1>13. ASSUME NEW p \in Procs, RecoveryLoad(p) PROVE Purchases'
  BY <1>5, <1>13, StartEffects DEF Starts, Goes, Ends, NoJob
<1>14. ASSUME NEW p \in Procs, HoldForReview(p) PROVE Purchases'
  BY <1>5, <1>14, HoldEffect DEF Starts, Goes, Ends, NoJob
<1>15. ASSUME NEW p \in Procs, ClearStale(p) PROVE Purchases'
  <2>1. pc'[p] = "enqueue" => FALSE
    BY <1>15, ClearEffect DEF Goes, AfterClear
  <2>2. pc'[p] = "verify" => gateway # "OTHER"
    BY <1>15, ClearEffect DEF Goes, AfterClear
  <2>3. PurchaseOf(p)'
    BY <1>1, <1>15, <2>1, <2>2, ClearEffect DEF Goes, PurchaseOf, Purchases, gateway
  <2>4. QED
    BY <1>4, <1>15, <2>3, ClearEffect DEF Goes
<1>16. ASSUME NEW p \in Procs, DropTrial(p) PROVE Purchases'
  BY <1>5, <1>16, QuietEffects DEF Starts, Goes, Ends, NoJob
<1>17. ASSUME NEW p \in Procs, Confirmed(p) PROVE Purchases'
  BY <1>5, <1>17, QuietEffects DEF Starts, Goes, Ends, NoJob
<1>18. ASSUME NEW p \in Procs, Unavailable(p) PROVE Purchases'
  BY <1>5, <1>18, UnavailableEffect DEF Starts, Goes, Ends, NoJob
<1>19. ASSUME NEW p \in Procs, WriteStatus(p) PROVE Purchases'
  BY <1>5, <1>19, WriteEffect DEF Starts, Goes, Ends, NoJob
<1>20. ASSUME NEW p \in Procs, Ack(p) PROVE Purchases'
  BY <1>5, <1>20, QuietEffects DEF Starts, Goes, Ends, NoJob
<1>21. ASSUME NEW p \in Procs, FailEvent(p) PROVE Purchases'
  BY <1>5, <1>21, QuietEffects DEF Starts, Goes, Ends, NoJob
<1>22. ASSUME NEW p \in Procs, Claim(p) PROVE Purchases'
  BY <1>5, <1>22, ClaimEffect DEF Starts, Goes, Ends, NoJob
<1>23. ASSUME NEW p \in Procs, LoseClaim(p) PROVE Purchases'
  BY <1>5, <1>23, BranchEffects DEF Starts, Goes, Ends, NoJob
<1>24. ASSUME NEW p \in Procs, Provision(p) PROVE Purchases'
  <2>1. Delivered'
    BY <1>24 DEF Provision, Delivered
  <2>2. PurchaseOf(p)'
    BY <1>1, <1>24, <2>1, ProvisionEffect DEF Goes, PurchaseOf, Purchases, gateway
  <2>3. QED
    BY <1>4, <1>24, <2>1, <2>2, ProvisionEffect DEF Goes
<1>25. ASSUME NEW p \in Procs, ProvisionFails(p) PROVE Purchases'
  BY <1>5, <1>25, QuietEffects DEF Starts, Goes, Ends, NoJob
<1>26. ASSUME NEW p \in Procs, ReleaseClaim(p) PROVE Purchases'
  BY <1>5, <1>26, ReleaseEffect DEF Starts, Goes, Ends, NoJob
<1>27. ASSUME NEW p \in Procs, EnqueueSync(p) PROVE Purchases'
  BY <1>5, <1>27, BranchEffects DEF Starts, Goes, Ends, NoJob
<1>28. ASSUME NEW p \in Procs, EnqueueFails(p) PROVE Purchases'
  BY <1>5, <1>28, BranchEffects DEF Starts, Goes, Ends, NoJob
<1>29. ASSUME NEW p \in Procs, Hooks(p) PROVE Purchases'
  BY <1>5, <1>29, BranchEffects DEF Starts, Goes, Ends, NoJob
<1>30. ASSUME NEW p \in Procs, LockLedger(p) PROVE Purchases'
  BY <1>5, <1>30, LedgerEffect DEF Starts, Goes, Ends, NoJob
<1>31. ASSUME NEW p \in Procs, UndoPayout(p) PROVE Purchases'
  BY <1>5, <1>31, QuietEffects DEF Starts, Goes, Ends, NoJob
<1>32. ASSUME NEW p \in Procs, Revoke(p) PROVE Purchases'
  BY <1>5, <1>32, QuietEffects DEF Starts, Goes, Ends, NoJob
<1>33. ASSUME NEW p \in Procs, StampReversal(p) PROVE Purchases'
  BY <1>5, <1>33, StampEffect DEF Starts, Goes, Ends, NoJob
<1>34. ASSUME NEW p \in Procs, SweepCancel(p) PROVE Purchases'
  BY <1>5, <1>34, CancelEffect DEF Starts, Goes, Ends, NoJob
<1>35. ASSUME NEW p \in Procs, SweepPoll(p) PROVE Purchases'
  <2>1. gateway # "OTHER"
    BY <1>35 DEF SweepPoll, LocalTtl
  <2>2. Others(p) /\ pc'[p] \in {"claim", "idle"}
    BY <1>35, PollEffect DEF Goes, Ends
  <2>3. PurchaseOf(p)'
    BY <1>1, <2>1, <2>2 DEF PurchaseOf, gateway
  <2>4. QED
    BY <1>4, <1>35, <2>2, <2>3, PollEffect
<1>36. ASSUME NEW p \in Procs, SweepKeep(p) PROVE Purchases'
  BY <1>5, <1>36, QuietEffects DEF Starts, Goes, Ends, NoJob
<1>37. ASSUME NEW p \in Procs, Crash(p) PROVE Purchases'
  BY <1>5, <1>37, QuietEffects DEF Starts, Goes, Ends, NoJob
<1>38. ASSUME NEW p \in Procs, NEW e \in Events, Load(p, e) PROVE Purchases'
  <2>1. FirstStep(EventKind(e)) # "enqueue" /\ (FirstStep(EventKind(e)) = "verify" => gateway # "OTHER")
    BY DEF FirstStep, ClaimedStep, StepFor
  <2>2. e # "expiry"
    BY NoSweepIsAnEvent
  <2>3. PurchaseOf(p)'
    BY <1>1, <1>38, <2>1, <2>2, StartEffects DEF Starts, PurchaseOf, gateway
  <2>4. QED
    BY <1>4, <1>38, <2>3, StartEffects DEF Starts
<1>39. CASE UNCHANGED vars
  BY <1>1, <1>3, <1>39, Unmoved DEF vars
<1>40. QED
  BY <1>6, <1>7, <1>8, <1>9, <1>10, <1>11, <1>12, <1>13, <1>14, <1>15, <1>16,
     <1>17, <1>18, <1>19, <1>20, <1>21, <1>22, <1>23, <1>24, <1>25, <1>26,
     <1>27, <1>28, <1>29, <1>30, <1>31, <1>32, <1>33, <1>34, <1>35, <1>36,
     <1>37, <1>38, <1>39 DEF Next, Continue, WebhookStep, FulfilStep,
     ReversalStep, SweepStep

\* Where a hold and a reversal stamp of the row and of a snapshot come from.
Inherits(p) ==
    /\ Others(p)
    /\ row'.hold = "manual" => \/ row.hold = "manual" \/ snap[p].hold = "manual"
                               \/ \E e \in Events : EventKind(e) = "underpaid"
    /\ row'.reversed => \/ row.reversed \/ snap[p].reversed
                        \/ \E e \in Events : EventKind(e) = "refund"
    /\ snap'[p].hold = "manual" => row.hold = "manual" \/ snap[p].hold = "manual"
    /\ snap'[p].reversed => row.reversed \/ snap[p].reversed

\* Holds and reversals at every step.
LEMMA VerdictsStep ==
  ASSUME TypeOK, Roles, Unheld, Unreversed, [Next]_vars
  PROVE  Unheld' /\ Unreversed'
<1> DEFINE Goal == Unheld' /\ Unreversed'
<1>1. scenario' = scenario /\ ProcsOK
  BY ScenarioKept, TypeParts
<1>2. ASSUME \A q \in Procs : Same(q), row' = row
      PROVE  Goal
  BY <1>1, <1>2 DEF Unheld, Unreversed, Same, EventKind
<1>3. ASSUME NEW p \in Procs, Inherits(p)
      PROVE  Goal
  <2>1. Unheld'
    BY <1>1, <1>3 DEF Unheld, Inherits, Others, Same, EventKind
  <2>2. Unreversed'
    BY <1>1, <1>3 DEF Unreversed, Inherits, Others, Same, EventKind
  <2>3. QED
    BY <2>1, <2>2
<1>4. NoRow.hold = "none" /\ NoRow.reversed = FALSE
  BY DEF NoRow
<1>5. \A p \in Procs : /\ job[p] \in Events \cup {NoJob, "expiry", "recovery"}
                       /\ snap[p] \in Rows /\ row \in Rows
  BY DEF TypeOK
<1> HIDE DEF Goal
<1>6. ASSUME Settle PROVE Goal
  BY <1>2, <1>1, <1>6, Unmoved DEF Settle
<1>7. ASSUME GiveBack PROVE Goal
  BY <1>2, <1>1, <1>7, Unmoved DEF GiveBack
<1>8. ASSUME LeaseAges PROVE Goal
  BY <1>2, <1>1, <1>8, Unmoved DEF LeaseAges
<1>9. ASSUME NEW e \in Events, Notify(e) PROVE Goal
  BY <1>2, <1>1, <1>9, Unmoved DEF Notify
<1>10. ASSUME NEW e \in Events, AutoRetry(e) PROVE Goal
  BY <1>2, <1>1, <1>10, Unmoved DEF AutoRetry
<1>11. ASSUME NEW e \in Events, Replay(e) PROVE Goal
  BY <1>2, <1>1, <1>11, Unmoved DEF Replay
<1>12. ASSUME NEW p \in Procs, SweepLoad(p) PROVE Goal
  <2>1. Inherits(p)
    BY <1>4, <1>12, StartEffects DEF Inherits, Starts, Goes, Ends
  <2>2. QED
    BY <1>3, <2>1
<1>13. ASSUME NEW p \in Procs, RecoveryLoad(p) PROVE Goal
  <2>1. Inherits(p)
    BY <1>4, <1>13, StartEffects DEF Inherits, Starts, Goes, Ends
  <2>2. QED
    BY <1>3, <2>1
<1>14. ASSUME NEW p \in Procs, HoldForReview(p) PROVE Goal
  <2>1. job[p] \in Events /\ EventKind(job[p]) = "underpaid"
    BY <1>5, <1>14, HoldEffect DEF Roles, RoleOf, Fits, IsWebhook
  <2>2. Inherits(p)
    BY <1>14, <2>1, HoldEffect DEF Goes, Inherits
  <2>3. QED
    BY <1>3, <2>2
<1>15. ASSUME NEW p \in Procs, ClearStale(p) PROVE Goal
  <2>1. Inherits(p)
    BY <1>4, <1>15, ClearEffect DEF Inherits, Starts, Goes, Ends
  <2>2. QED
    BY <1>3, <2>1
<1>16. ASSUME NEW p \in Procs, DropTrial(p) PROVE Goal
  <2>1. Inherits(p)
    BY <1>4, <1>16, QuietEffects DEF Inherits, Starts, Goes, Ends
  <2>2. QED
    BY <1>3, <2>1
<1>17. ASSUME NEW p \in Procs, Confirmed(p) PROVE Goal
  <2>1. Inherits(p)
    BY <1>4, <1>17, QuietEffects DEF Inherits, Starts, Goes, Ends
  <2>2. QED
    BY <1>3, <2>1
<1>18. ASSUME NEW p \in Procs, Unavailable(p) PROVE Goal
  <2>1. Inherits(p)
    BY <1>4, <1>18, UnavailableEffect DEF Inherits, Starts, Goes, Ends
  <2>2. QED
    BY <1>3, <2>1
<1>19. ASSUME NEW p \in Procs, WriteStatus(p) PROVE Goal
  <2>1. Inherits(p)
    BY <1>4, <1>19, WriteEffect DEF Inherits, Starts, Goes, Ends, Lifted
  <2>2. QED
    BY <1>3, <2>1
<1>20. ASSUME NEW p \in Procs, Ack(p) PROVE Goal
  <2>1. Inherits(p)
    BY <1>4, <1>20, QuietEffects DEF Inherits, Starts, Goes, Ends
  <2>2. QED
    BY <1>3, <2>1
<1>21. ASSUME NEW p \in Procs, FailEvent(p) PROVE Goal
  <2>1. Inherits(p)
    BY <1>4, <1>21, QuietEffects DEF Inherits, Starts, Goes, Ends
  <2>2. QED
    BY <1>3, <2>1
<1>22. ASSUME NEW p \in Procs, Claim(p) PROVE Goal
  <2>1. Inherits(p)
    BY <1>4, <1>22, ClaimEffect DEF Inherits, Starts, Goes, Ends
  <2>2. QED
    BY <1>3, <2>1
<1>23. ASSUME NEW p \in Procs, LoseClaim(p) PROVE Goal
  <2>1. Inherits(p)
    BY <1>4, <1>23, BranchEffects DEF Inherits, Starts, Goes, Ends
  <2>2. QED
    BY <1>3, <2>1
<1>24. ASSUME NEW p \in Procs, Provision(p) PROVE Goal
  <2>1. Inherits(p)
    BY <1>4, <1>24, ProvisionEffect DEF Inherits, Starts, Goes, Ends
  <2>2. QED
    BY <1>3, <2>1
<1>25. ASSUME NEW p \in Procs, ProvisionFails(p) PROVE Goal
  <2>1. Inherits(p)
    BY <1>4, <1>25, QuietEffects DEF Inherits, Starts, Goes, Ends
  <2>2. QED
    BY <1>3, <2>1
<1>26. ASSUME NEW p \in Procs, ReleaseClaim(p) PROVE Goal
  <2>1. Inherits(p)
    BY <1>4, <1>26, ReleaseEffect DEF Inherits, Starts, Goes, Ends
  <2>2. QED
    BY <1>3, <2>1
<1>27. ASSUME NEW p \in Procs, EnqueueSync(p) PROVE Goal
  <2>1. Inherits(p)
    BY <1>4, <1>27, BranchEffects DEF Inherits, Starts, Goes, Ends
  <2>2. QED
    BY <1>3, <2>1
<1>28. ASSUME NEW p \in Procs, EnqueueFails(p) PROVE Goal
  <2>1. Inherits(p)
    BY <1>4, <1>28, BranchEffects DEF Inherits, Starts, Goes, Ends
  <2>2. QED
    BY <1>3, <2>1
<1>29. ASSUME NEW p \in Procs, Hooks(p) PROVE Goal
  <2>1. Inherits(p)
    BY <1>4, <1>29, BranchEffects DEF Inherits, Starts, Goes, Ends
  <2>2. QED
    BY <1>3, <2>1
<1>30. ASSUME NEW p \in Procs, LockLedger(p) PROVE Goal
  <2>1. Inherits(p)
    BY <1>4, <1>30, LedgerEffect DEF Inherits, Starts, Goes, Ends
  <2>2. QED
    BY <1>3, <2>1
<1>31. ASSUME NEW p \in Procs, UndoPayout(p) PROVE Goal
  <2>1. Inherits(p)
    BY <1>4, <1>31, QuietEffects DEF Inherits, Starts, Goes, Ends
  <2>2. QED
    BY <1>3, <2>1
<1>32. ASSUME NEW p \in Procs, Revoke(p) PROVE Goal
  <2>1. Inherits(p)
    BY <1>4, <1>32, QuietEffects DEF Inherits, Starts, Goes, Ends
  <2>2. QED
    BY <1>3, <2>1
<1>33. ASSUME NEW p \in Procs, StampReversal(p) PROVE Goal
  <2>1. job[p] \in Events /\ EventKind(job[p]) = "refund"
    BY <1>5, <1>33, StampEffect DEF Roles, RoleOf, Fits, IsWebhook
  <2>2. Inherits(p)
    BY <1>33, <2>1, StampEffect DEF Goes, Inherits
  <2>3. QED
    BY <1>3, <2>2
<1>34. ASSUME NEW p \in Procs, SweepCancel(p) PROVE Goal
  <2>1. Inherits(p)
    BY <1>4, <1>34, CancelEffect DEF Inherits, Starts, Goes, Ends
  <2>2. QED
    BY <1>3, <2>1
<1>35. ASSUME NEW p \in Procs, SweepPoll(p) PROVE Goal
  <2>1. Inherits(p)
    BY <1>4, <1>35, PollEffect DEF Inherits, Starts, Goes, Ends
  <2>2. QED
    BY <1>3, <2>1
<1>36. ASSUME NEW p \in Procs, SweepKeep(p) PROVE Goal
  <2>1. Inherits(p)
    BY <1>4, <1>36, QuietEffects DEF Inherits, Starts, Goes, Ends
  <2>2. QED
    BY <1>3, <2>1
<1>37. ASSUME NEW p \in Procs, Crash(p) PROVE Goal
  <2>1. Inherits(p)
    BY <1>4, <1>37, QuietEffects DEF Inherits, Starts, Goes, Ends
  <2>2. QED
    BY <1>3, <2>1
<1>38. ASSUME NEW p \in Procs, NEW e \in Events, Load(p, e) PROVE Goal
  <2>1. Inherits(p)
    BY <1>4, <1>38, StartEffects DEF Inherits, Starts, Goes, Ends
  <2>2. QED
    BY <1>3, <2>1
<1>39. CASE UNCHANGED vars
  <2>1. Goal
    BY <1>1, <1>2, <1>39, Unmoved DEF vars
  <2>2. QED
    BY <2>1 DEF Goal
<1>40. QED
  BY <1>6, <1>7, <1>8, <1>9, <1>10, <1>11, <1>12, <1>13, <1>14, <1>15, <1>16,
     <1>17, <1>18, <1>19, <1>20, <1>21, <1>22, <1>23, <1>24, <1>25, <1>26,
     <1>27, <1>28, <1>29, <1>30, <1>31, <1>32, <1>33, <1>34, <1>35, <1>36,
     <1>37, <1>38, <1>39 DEF Goal, Next, Continue, WebhookStep, FulfilStep,
     ReversalStep, SweepStep

\* A single handler starts when no other is at work.
LEMMA NobodyElse ==
  ASSUME TypeOK, Serial, NEW p \in Procs, NEW j, NEW step, Take(p, j, step)
  PROVE  \A q \in Procs : pc[q] = "idle"
<1> DEFINE A == {q \in Procs : pc[q] # "idle"}
<1>1. IsFiniteSet(A)
  BY ProcsAssumption, FS_Subset
<1>2. Cardinality(A) \in Nat
  BY <1>1, FS_CardinalityType
<1>3. Cardinality(A) < scenario.handlers
  BY DEF Take
<1>4. Cardinality(A) = 0
  <2>1. scenario.handlers \in Nat /\ scenario.handlers <= 1
    BY ScenarioIs DEF Serial
  <2> HIDE DEF A
  <2>2. QED
    BY <1>2, <1>3, <2>1
<1>5. A = {}
  <2> HIDE DEF A
  <2>1. QED
    BY <1>1, <1>4, FS_EmptySet
<1>6. QED
  BY <1>5

\* A handler that nobody disturbs, at every step.
LEMMA SerialStep ==
  ASSUME TypeOK, Roles, SerialInv, [Next]_vars
  PROVE  SerialInv'
<1>1. scenario' = scenario /\ ProcsOK
  BY ScenarioKept, TypeParts
<1> SUFFICES ASSUME Serial PROVE Alone' /\ \A q \in Procs : Knows(q)'
  BY <1>1 DEF SerialInv, Serial
<1> DEFINE Goal == Alone' /\ \A q \in Procs : Knows(q)'
<1>2. Alone /\ \A q \in Procs : Knows(q)
  BY DEF SerialInv
<1>3. ASSUME \A q \in Procs : Same(q), row' = row
      PROVE  Goal
  <2>1. Alone'
    BY <1>2, <1>3 DEF Alone, Same
  <2>2. QED
    BY <1>1, <1>2, <1>3, <2>1 DEF Knows, Same, EventKind
<1>4. ASSUME NEW p \in Procs, Others(p), pc[p] # "idle" \/ \A q \in Procs : pc[q] = "idle",
             Knows(p)'
      PROVE  Goal
  <2>1. \A q \in Procs : q # p => pc'[q] = "idle"
    BY <1>2, <1>4 DEF Alone, Others, Same
  <2>2. \A q \in Procs : q # p => Knows(q)'
    BY <2>1 DEF Knows
  <2>3. QED
    BY <1>4, <2>1, <2>2 DEF Alone
<1>5. \A p \in Procs : /\ job[p] \in Events \cup {NoJob, "expiry", "recovery"}
                       /\ row \in Rows /\ RoleOf(p)
  BY DEF TypeOK, Roles
<1>6. \A k : NextStatus(k) = "COMPLETED" <=> k = "paid"
  BY DEF NextStatus
<1> HIDE DEF Goal
<1>7. ASSUME Settle PROVE Goal
  BY <1>3, <1>1, <1>7, Unmoved DEF Settle
<1>8. ASSUME GiveBack PROVE Goal
  BY <1>3, <1>1, <1>8, Unmoved DEF GiveBack
<1>9. ASSUME LeaseAges PROVE Goal
  BY <1>3, <1>1, <1>9, Unmoved DEF LeaseAges
<1>10. ASSUME NEW e \in Events, Notify(e) PROVE Goal
  BY <1>3, <1>1, <1>10, Unmoved DEF Notify
<1>11. ASSUME NEW e \in Events, AutoRetry(e) PROVE Goal
  BY <1>3, <1>1, <1>11, Unmoved DEF AutoRetry
<1>12. ASSUME NEW e \in Events, Replay(e) PROVE Goal
  BY <1>3, <1>1, <1>12, Unmoved DEF Replay
<1>13. ASSUME NEW p \in Procs, SweepLoad(p) PROVE Goal
  <2>1. \A q \in Procs : pc[q] = "idle"
    BY <1>13, NobodyElse DEF SweepLoad
  <2>2. Knows(p)'
    BY <1>13, StartEffects DEF Knows, Starts
  <2>3. QED
    BY <1>4, <1>13, <2>1, <2>2, StartEffects DEF Starts
<1>14. ASSUME NEW p \in Procs, RecoveryLoad(p) PROVE Goal
  <2>1. \A q \in Procs : pc[q] = "idle"
    BY <1>14, NobodyElse DEF RecoveryLoad
  <2>2. Knows(p)'
    BY <1>14, StartEffects DEF Knows, Starts
  <2>3. QED
    BY <1>4, <1>14, <2>1, <2>2, StartEffects DEF Starts
<1>15. ASSUME NEW p \in Procs, HoldForReview(p) PROVE Goal
  <2>1. Knows(p)' /\ Others(p) /\ pc[p] # "idle"
    BY <1>2, <1>15, HoldEffect DEF Knows, Starts, Goes, Ends
  <2>2. QED
    BY <1>4, <2>1
<1>16. ASSUME NEW p \in Procs, ClearStale(p) PROVE Goal
  <2>1. /\ AfterClear(EventKind(job[p])) = "write" => EventKind(job[p]) = "paid"
        /\ AfterClear(EventKind(job[p])) \in {"dropTrial", "ack", "verify", "write"}
    BY <1>6 DEF AfterClear, NextStatus
  <2>2. Knows(p)'
    BY <1>1, <1>2, <1>16, <2>1, ClearEffect DEF Knows, Goes, EventKind
  <2>3. QED
    BY <1>4, <1>16, <2>2, ClearEffect DEF Goes
<1>17. ASSUME NEW p \in Procs, DropTrial(p) PROVE Goal
  <2>1. Knows(p)' /\ Others(p) /\ pc[p] # "idle"
    BY <1>2, <1>17, QuietEffects DEF Knows, Starts, Goes, Ends
  <2>2. QED
    BY <1>4, <2>1
<1>18. ASSUME NEW p \in Procs, Confirmed(p) PROVE Goal
  <2>1. job[p] \in Events /\ EventKind(job[p]) = "paid"
    BY <1>5, <1>18, QuietEffects DEF RoleOf, Fits, IsWebhook
  <2>2. Knows(p)'
    BY <1>1, <1>2, <1>18, <2>1, QuietEffects DEF Knows, Goes, EventKind
  <2>3. QED
    BY <1>4, <1>18, <2>2, QuietEffects DEF Goes
<1>19. ASSUME NEW p \in Procs, Unavailable(p) PROVE Goal
  <2>1. Knows(p)' /\ Others(p) /\ pc[p] # "idle"
    BY <1>2, <1>19, UnavailableEffect DEF Knows, Starts, Goes, Ends
  <2>2. QED
    BY <1>4, <2>1
<1>20. ASSUME NEW p \in Procs, WriteStatus(p) PROVE Goal
  <2>1. Knows(p)' /\ Others(p) /\ pc[p] # "idle"
    BY <1>2, <1>20, WriteEffect DEF Knows, Starts, Goes, Ends
  <2>2. QED
    BY <1>4, <2>1
<1>21. ASSUME NEW p \in Procs, Ack(p) PROVE Goal
  <2>1. Knows(p)' /\ Others(p) /\ pc[p] # "idle"
    BY <1>2, <1>21, QuietEffects DEF Knows, Starts, Goes, Ends
  <2>2. QED
    BY <1>4, <2>1
<1>22. ASSUME NEW p \in Procs, FailEvent(p) PROVE Goal
  <2>1. Knows(p)' /\ Others(p) /\ pc[p] # "idle"
    BY <1>2, <1>22, QuietEffects DEF Knows, Starts, Goes, Ends
  <2>2. QED
    BY <1>4, <2>1
<1>23. ASSUME NEW p \in Procs, Claim(p) PROVE Goal
  <2>1. Knows(p)' /\ Others(p) /\ pc[p] # "idle"
    BY <1>2, <1>23, ClaimEffect DEF Knows, Starts, Goes, Ends
  <2>2. QED
    BY <1>4, <2>1
<1>24. ASSUME NEW p \in Procs, LoseClaim(p) PROVE Goal
  <2>1. Knows(p)' /\ Others(p) /\ pc[p] # "idle"
    BY <1>2, <1>24, BranchEffects DEF Knows, Starts, Goes, Ends
  <2>2. QED
    BY <1>4, <2>1
<1>25. ASSUME NEW p \in Procs, Provision(p) PROVE Goal
  <2>1. Knows(p)' /\ Others(p) /\ pc[p] # "idle"
    BY <1>2, <1>25, ProvisionEffect DEF Knows, Starts, Goes, Ends
  <2>2. QED
    BY <1>4, <2>1
<1>26. ASSUME NEW p \in Procs, ProvisionFails(p) PROVE Goal
  <2>1. Knows(p)' /\ Others(p) /\ pc[p] # "idle"
    BY <1>2, <1>26, QuietEffects DEF Knows, Starts, Goes, Ends
  <2>2. QED
    BY <1>4, <2>1
<1>27. ASSUME NEW p \in Procs, ReleaseClaim(p) PROVE Goal
  <2>1. Knows(p)' /\ Others(p) /\ pc[p] # "idle"
    BY <1>2, <1>27, ReleaseEffect DEF Knows, Starts, Goes, Ends
  <2>2. QED
    BY <1>4, <2>1
<1>28. ASSUME NEW p \in Procs, EnqueueSync(p) PROVE Goal
  <2>1. Knows(p)' /\ Others(p) /\ pc[p] # "idle"
    BY <1>2, <1>28, BranchEffects DEF Knows, Starts, Goes, Ends
  <2>2. QED
    BY <1>4, <2>1
<1>29. ASSUME NEW p \in Procs, EnqueueFails(p) PROVE Goal
  <2>1. Knows(p)' /\ Others(p) /\ pc[p] # "idle"
    BY <1>2, <1>29, BranchEffects DEF Knows, Starts, Goes, Ends
  <2>2. QED
    BY <1>4, <2>1
<1>30. ASSUME NEW p \in Procs, Hooks(p) PROVE Goal
  <2>1. Knows(p)' /\ Others(p) /\ pc[p] # "idle"
    BY <1>2, <1>30, BranchEffects DEF Knows, Starts, Goes, Ends
  <2>2. QED
    BY <1>4, <2>1
<1>31. ASSUME NEW p \in Procs, LockLedger(p) PROVE Goal
  <2>1. Knows(p)' /\ Others(p) /\ pc[p] # "idle"
    BY <1>2, <1>31, LedgerEffect DEF Knows, Starts, Goes, Ends
  <2>2. QED
    BY <1>4, <2>1
<1>32. ASSUME NEW p \in Procs, UndoPayout(p) PROVE Goal
  <2>1. Knows(p)' /\ Others(p) /\ pc[p] # "idle"
    BY <1>2, <1>32, QuietEffects DEF Knows, Starts, Goes, Ends
  <2>2. QED
    BY <1>4, <2>1
<1>33. ASSUME NEW p \in Procs, Revoke(p) PROVE Goal
  <2>1. Knows(p)' /\ Others(p) /\ pc[p] # "idle"
    BY <1>2, <1>33, QuietEffects DEF Knows, Starts, Goes, Ends
  <2>2. QED
    BY <1>4, <2>1
<1>34. ASSUME NEW p \in Procs, StampReversal(p) PROVE Goal
  <2>1. Knows(p)' /\ Others(p) /\ pc[p] # "idle"
    BY <1>2, <1>34, StampEffect DEF Knows, Starts, Goes, Ends
  <2>2. QED
    BY <1>4, <2>1
<1>35. ASSUME NEW p \in Procs, SweepCancel(p) PROVE Goal
  <2>1. Knows(p)' /\ Others(p) /\ pc[p] # "idle"
    BY <1>2, <1>35, CancelEffect DEF Knows, Starts, Goes, Ends
  <2>2. QED
    BY <1>4, <2>1
<1>36. ASSUME NEW p \in Procs, SweepPoll(p) PROVE Goal
  <2>1. Knows(p)' /\ Others(p) /\ pc[p] # "idle"
    BY <1>2, <1>36, PollEffect DEF Knows, Starts, Goes, Ends
  <2>2. QED
    BY <1>4, <2>1
<1>37. ASSUME NEW p \in Procs, SweepKeep(p) PROVE Goal
  <2>1. Knows(p)' /\ Others(p) /\ pc[p] # "idle"
    BY <1>2, <1>37, QuietEffects DEF Knows, Starts, Goes, Ends
  <2>2. QED
    BY <1>4, <2>1
<1>38. ASSUME NEW p \in Procs, Crash(p) PROVE Goal
  <2>1. Knows(p)' /\ Others(p) /\ pc[p] # "idle"
    BY <1>2, <1>38, QuietEffects DEF Knows, Starts, Goes, Ends
  <2>2. QED
    BY <1>4, <2>1
<1>39. ASSUME NEW p \in Procs, NEW e \in Events, Load(p, e) PROVE Goal
  <2>1. \A q \in Procs : pc[q] = "idle"
    BY <1>39, NobodyElse DEF Load
  <2>2. /\ FirstStep(EventKind(e)) = "clear" => row.status = "COMPLETED"
        /\ FirstStep(EventKind(e)) = "dropTrial" => row.status # "PENDING"
        /\ FirstStep(EventKind(e)) = "write" /\ EventKind(e) # "paid" => row.status = "PENDING"
    BY <1>5, <1>6 DEF FirstStep, ClaimedStep, StepFor, IsTerminal, Rows
  <2>3. Knows(p)'
    BY <1>1, <1>39, <2>2, StartEffects DEF Knows, Starts, EventKind
  <2>4. QED
    BY <1>4, <1>39, <2>1, <2>3, StartEffects DEF Starts
<1>40. CASE UNCHANGED vars
  <2>1. Goal
    BY <1>1, <1>3, <1>40, Unmoved DEF vars
  <2>2. QED
    BY <2>1 DEF Goal
<1>41. QED
  BY <1>7, <1>8, <1>9, <1>10, <1>11, <1>12, <1>13, <1>14, <1>15, <1>16, <1>17,
     <1>18, <1>19, <1>20, <1>21, <1>22, <1>23, <1>24, <1>25, <1>26, <1>27,
     <1>28, <1>29, <1>30, <1>31, <1>32, <1>33, <1>34, <1>35, <1>36, <1>37,
     <1>38, <1>39, <1>40 DEF Goal, Next, Continue, WebhookStep, FulfilStep,
     ReversalStep, SweepStep

\* A payment delivered long ago, at every step.
LEMMA LongAgoStep ==
  ASSUME TypeOK, Roles, LongAgoInv, [Next]_vars
  PROVE  LongAgoInv'
<1>1. scenario' = scenario /\ ProcsOK
  BY ScenarioKept, TypeParts
<1> DEFINE Facts ==
      /\ row.status # "PENDING" /\ row.fulfilledAt # Null /\ row.linked
      /\ row.reversed => row.status = "CANCELED"
      /\ row.status = "CANCELED" => Undone /\ Expired
      /\ \A p \in Procs : LongAgoOf(p)
<1> SUFFICES ASSUME LongAgo PROVE Facts'
  BY <1>1 DEF LongAgoInv, LongAgo, Paid, EventKind
<1>2. Facts
  BY DEF LongAgoInv
<1> HIDE DEF Facts
<1>3. ASSUME \A q \in Procs : Same(q), row' = row, UNCHANGED <<payout, swallowed, sub>>
      PROVE  Facts'
  <2>1. (Undone => Undone') /\ (Expired => Expired')
    BY <1>1, <1>3 DEF Undone, Expired, kind
  <2>2. ASSUME NEW q \in Procs PROVE LongAgoOf(q)'
    BY <1>2, <1>3, <2>1, <2>2 DEF LongAgoOf, Same, Facts
  <2>3. QED
    BY <1>2, <1>3, <2>1, <2>2 DEF Facts
<1>4. ASSUME NEW p \in Procs, Others(p), row'.fulfilledAt = row.fulfilledAt,
             row'.linked = row.linked,
             \/ row'.status = row.status
             \/ row'.status = "CANCELED" /\ Undone' /\ Expired',
             Undone => Undone', Expired => Expired',
             row'.reversed => row'.status = "CANCELED", LongAgoOf(p)'
      PROVE  Facts'
  <2>1. row.status = "CANCELED" => row'.status = "CANCELED"
    BY <1>4
  <2>2. ASSUME NEW q \in Procs PROVE LongAgoOf(q)'
    <3>1. CASE q = p
      BY <1>4, <3>1
    <3>2. CASE q # p
      BY <1>2, <1>4, <2>1, <3>2 DEF LongAgoOf, Others, Same, Facts
    <3>3. QED
      BY <3>1, <3>2
  <2>3. QED
    BY <1>2, <1>4, <2>1, <2>2 DEF Facts
<1>5. \A p \in Procs : LongAgoOf(p) /\ row \in Rows /\ NoRow.reversed = FALSE
  BY <1>2 DEF Facts, TypeOK, NoRow
<1>6. ASSUME Settle PROVE Facts'
  BY <1>3, <1>1, <1>6, Unmoved DEF Settle, ghostVars
<1>7. ASSUME GiveBack PROVE Facts'
  BY <1>3, <1>1, <1>7, Unmoved DEF GiveBack, ghostVars
<1>8. ASSUME LeaseAges PROVE Facts'
  BY <1>3, <1>1, <1>8, Unmoved DEF LeaseAges, ghostVars
<1>9. ASSUME NEW e \in Events, Notify(e) PROVE Facts'
  BY <1>3, <1>1, <1>9, Unmoved DEF Notify, ghostVars
<1>10. ASSUME NEW e \in Events, AutoRetry(e) PROVE Facts'
  BY <1>3, <1>1, <1>10, Unmoved DEF AutoRetry, ghostVars
<1>11. ASSUME NEW e \in Events, Replay(e) PROVE Facts'
  BY <1>3, <1>1, <1>11, Unmoved DEF Replay, ghostVars
<1>12. ASSUME NEW p \in Procs, SweepLoad(p) PROVE Facts'
  BY <1>2, <1>12 DEF SweepLoad, Facts
<1>13. ASSUME NEW p \in Procs, RecoveryLoad(p) PROVE Facts'
  BY <1>2, <1>13 DEF RecoveryLoad, Facts
<1>14. ASSUME NEW p \in Procs, HoldForReview(p) PROVE Facts'
  <2>1. (Undone => Undone') /\ (Expired => Expired')
    BY <1>1, <1>14 DEF HoldForReview, Undone, Expired, kind, ghostVars
  <2>2. LongAgoOf(p)'
    BY <1>2, <1>5, <1>14, <2>1, HoldEffect DEF LongAgoOf, Goes, Ends, Facts
  <2>3. QED
    BY <1>2, <1>4, <1>5, <1>14, <2>1, <2>2, HoldEffect DEF Goes, Ends, Facts, LongAgoOf
<1>15. ASSUME NEW p \in Procs, ClearStale(p) PROVE Facts'
  BY <1>5, <1>15, ClearEffect DEF LongAgoOf
<1>16. ASSUME NEW p \in Procs, DropTrial(p) PROVE Facts'
  <2>1. (Undone => Undone') /\ (Expired => Expired')
    BY <1>1, <1>16 DEF DropTrial, Undone, Expired, kind, ghostVars
  <2>2. LongAgoOf(p)'
    BY <1>2, <1>5, <1>16, <2>1, QuietEffects DEF LongAgoOf, Goes, Ends, Facts
  <2>3. QED
    BY <1>2, <1>4, <1>5, <1>16, <2>1, <2>2, QuietEffects DEF Goes, Ends, Facts, LongAgoOf
<1>17. ASSUME NEW p \in Procs, Confirmed(p) PROVE Facts'
  BY <1>5, <1>17, QuietEffects DEF LongAgoOf
<1>18. ASSUME NEW p \in Procs, Unavailable(p) PROVE Facts'
  BY <1>5, <1>18, UnavailableEffect DEF LongAgoOf
<1>19. ASSUME NEW p \in Procs, WriteStatus(p) PROVE Facts'
  BY <1>5, <1>19, WriteEffect DEF LongAgoOf
<1>20. ASSUME NEW p \in Procs, Ack(p) PROVE Facts'
  <2>1. (Undone => Undone') /\ (Expired => Expired')
    BY <1>1, <1>20 DEF Ack, Undone, Expired, kind, ghostVars
  <2>2. LongAgoOf(p)'
    BY <1>2, <1>5, <1>20, <2>1, QuietEffects DEF LongAgoOf, Goes, Ends, Facts
  <2>3. QED
    BY <1>2, <1>4, <1>5, <1>20, <2>1, <2>2, QuietEffects DEF Goes, Ends, Facts, LongAgoOf
<1>21. ASSUME NEW p \in Procs, FailEvent(p) PROVE Facts'
  BY <1>5, <1>21, QuietEffects DEF LongAgoOf
<1>22. ASSUME NEW p \in Procs, Claim(p) PROVE Facts'
  BY <1>5, <1>22, ClaimEffect DEF LongAgoOf
<1>23. ASSUME NEW p \in Procs, LoseClaim(p) PROVE Facts'
  BY <1>5, <1>23, BranchEffects DEF LongAgoOf
<1>24. ASSUME NEW p \in Procs, Provision(p) PROVE Facts'
  BY <1>5, <1>24, ProvisionEffect DEF LongAgoOf
<1>25. ASSUME NEW p \in Procs, ProvisionFails(p) PROVE Facts'
  BY <1>5, <1>25, QuietEffects DEF LongAgoOf
<1>26. ASSUME NEW p \in Procs, ReleaseClaim(p) PROVE Facts'
  BY <1>5, <1>26, ReleaseEffect DEF LongAgoOf
<1>27. ASSUME NEW p \in Procs, EnqueueSync(p) PROVE Facts'
  BY <1>5, <1>27, BranchEffects DEF LongAgoOf
<1>28. ASSUME NEW p \in Procs, EnqueueFails(p) PROVE Facts'
  BY <1>5, <1>28, BranchEffects DEF LongAgoOf
<1>29. ASSUME NEW p \in Procs, Hooks(p) PROVE Facts'
  BY <1>5, <1>29, BranchEffects DEF LongAgoOf
<1>30. ASSUME NEW p \in Procs, LockLedger(p) PROVE Facts'
  <2>1. (Undone => Undone') /\ (Expired => Expired')
    BY <1>1, <1>30 DEF LockLedger, Undone, Expired, kind, ghostVars
  <2>2. LongAgoOf(p)'
    BY <1>2, <1>5, <1>30, <2>1, LedgerEffect DEF LongAgoOf, Goes, Ends, Facts
  <2>3. QED
    BY <1>2, <1>4, <1>5, <1>30, <2>1, <2>2, LedgerEffect DEF Goes, Ends, Facts, LongAgoOf
<1>31. ASSUME NEW p \in Procs, UndoPayout(p) PROVE Facts'
  <2>1. Undone' /\ (Expired => Expired')
    BY <1>1, <1>31 DEF UndoPayout, Undone, Expired, kind, ghostVars
  <2>2. LongAgoOf(p)'
    BY <1>2, <1>5, <1>31, <2>1, QuietEffects DEF LongAgoOf, Goes, Ends, Facts
  <2>3. QED
    BY <1>2, <1>4, <1>5, <1>31, <2>1, <2>2, QuietEffects DEF Goes, Ends, Facts, LongAgoOf
<1>32. ASSUME NEW p \in Procs, Revoke(p) PROVE Facts'
  <2>1. (Undone => Undone') /\ Expired'
    <3>1. snap[p].linked
      BY <1>5, <1>32, QuietEffects DEF LongAgoOf
    <3>2. QED
      BY <1>1, <1>32, <3>1 DEF Revoke, Revocable, Undone, Expired, kind, ghostVars
  <2>2. LongAgoOf(p)'
    BY <1>2, <1>5, <1>32, <2>1, QuietEffects DEF LongAgoOf, Goes, Ends, Facts
  <2>3. QED
    BY <1>2, <1>4, <1>5, <1>32, <2>1, <2>2, QuietEffects DEF Goes, Ends, Facts, LongAgoOf
<1>33. ASSUME NEW p \in Procs, StampReversal(p) PROVE Facts'
  <2>1. (Undone => Undone') /\ (Expired => Expired')
    BY <1>1, <1>33 DEF StampReversal, Undone, Expired, kind, ghostVars
  <2>2. LongAgoOf(p)'
    BY <1>2, <1>5, <1>33, <2>1, StampEffect DEF LongAgoOf, Goes, Ends, Facts
  <2>3. QED
    BY <1>2, <1>4, <1>5, <1>33, <2>1, <2>2, StampEffect DEF Goes, Ends, Facts, LongAgoOf
<1>34. ASSUME NEW p \in Procs, SweepCancel(p) PROVE Facts'
  BY <1>5, <1>34, CancelEffect DEF LongAgoOf
<1>35. ASSUME NEW p \in Procs, SweepPoll(p) PROVE Facts'
  BY <1>5, <1>35, PollEffect DEF LongAgoOf
<1>36. ASSUME NEW p \in Procs, SweepKeep(p) PROVE Facts'
  BY <1>5, <1>36, QuietEffects DEF LongAgoOf
<1>37. ASSUME NEW p \in Procs, Crash(p) PROVE Facts'
  <2>1. (Undone => Undone') /\ (Expired => Expired')
    BY <1>1, <1>37 DEF Crash, Undone, Expired, kind, ghostVars
  <2>2. LongAgoOf(p)'
    BY <1>2, <1>5, <1>37, <2>1, QuietEffects DEF LongAgoOf, Goes, Ends, Facts
  <2>3. QED
    BY <1>2, <1>4, <1>5, <1>37, <2>1, <2>2, QuietEffects DEF Goes, Ends, Facts, LongAgoOf
<1>38. ASSUME NEW p \in Procs, NEW e \in Events, Load(p, e) PROVE Facts'
  <2>1. (Undone => Undone') /\ (Expired => Expired')
    BY <1>1, <1>38 DEF Load, Undone, Expired, kind, ghostVars
  <2>2. EventKind(e) # "paid"
    BY DEF LongAgo, Paid
  <2>3. FirstStep(EventKind(e)) \in {"hold", "ledger", "dropTrial", "ack"}
    BY <1>2, <1>5, <2>2 DEF FirstStep, ClaimedStep, StepFor, IsTerminal, NextStatus, Rows, Facts
  <2>4. LongAgoOf(p)'
    BY <1>2, <1>38, <2>3, StartEffects DEF LongAgoOf, Starts, Facts
  <2>5. QED
    BY <1>2, <1>4, <1>38, <2>1, <2>4, StartEffects DEF Starts, Facts
<1>39. CASE UNCHANGED vars
  BY <1>1, <1>3, <1>39, Unmoved DEF vars
<1>40. QED
  BY <1>6, <1>7, <1>8, <1>9, <1>10, <1>11, <1>12, <1>13, <1>14, <1>15, <1>16,
     <1>17, <1>18, <1>19, <1>20, <1>21, <1>22, <1>23, <1>24, <1>25, <1>26,
     <1>27, <1>28, <1>29, <1>30, <1>31, <1>32, <1>33, <1>34, <1>35, <1>36,
     <1>37, <1>38, <1>39 DEF Next, Continue, WebhookStep, FulfilStep,
     ReversalStep, SweepStep

\* One job for each event, at every step.
LEMMA OneJobStep ==
  ASSUME TypeOK, Roles, Sent, OneJob, [Next]_vars
  PROVE  OneJob'
<1>1. scenario' = scenario /\ ProcsOK /\ Boxes
  BY ScenarioKept, TypeParts DEF Boxes, TypeOK
<1> DEFINE Facts ==
      /\ \A e \in Events : inbox[e].jobs <= 1
      /\ \A p \in Procs : IsWebhook(p) =>
           inbox[job[p]].jobs = 0 /\ inbox[job[p]].status = "PROCESSING"
      /\ \A p, q \in Procs : IsWebhook(p) /\ job[q] = job[p] => p = q
<1> SUFFICES ASSUME scenario.replays = 0 PROVE Facts'
  BY <1>1 DEF OneJob
<1>2. Facts
  BY DEF OneJob
<1> HIDE DEF Facts
<1>3. ASSUME \A q \in Procs : job'[q] = job[q], inbox' = inbox
      PROVE  Facts'
  BY <1>2, <1>3 DEF Facts, IsWebhook
<1>4. NoJob \notin Events
  BY NoSweepIsAnEvent
<1>5. ASSUME NEW p \in Procs, \A q \in Procs : q # p => job'[q] = job[q],
             job'[p] \in {job[p], NoJob, "expiry", "recovery"}, inbox' = inbox
      PROVE  Facts'
  BY <1>2, <1>5, NoSweepIsAnEvent DEF Facts, IsWebhook
<1>6. ASSUME NEW e \in Events, OtherBoxes(e), inbox'[e].jobs <= 1,
             \A q \in Procs : job'[q] # e,
             \A q \in Procs : job'[q] = job[q] \/ job'[q] = NoJob
      PROVE  Facts'
  BY <1>2, <1>4, <1>6 DEF Facts, IsWebhook, OtherBoxes
<1>7. \A e \in Events : /\ inbox[e].jobs \in Nat /\ inbox[e].replays \in Nat
                        /\ inbox[e].status = "ABSENT" => inbox[e].jobs = 0
  BY <1>1 DEF Boxes, InboxRows, Sent
<1>8. \A q \in Procs : IsWebhook(q) => inbox[job[q]].status # "ABSENT"
  BY DEF Roles, RoleOf
<1>9. ASSUME NEW e \in Events, inbox[e].jobs # 0 \/ inbox[e].status # "PROCESSING",
             NEW q \in Procs
      PROVE  job[q] # e
  BY <1>2, <1>9 DEF Facts, IsWebhook
<1>10. ASSUME Settle PROVE Facts'
  BY <1>3, <1>10 DEF Settle
<1>11. ASSUME GiveBack PROVE Facts'
  BY <1>3, <1>11 DEF GiveBack
<1>12. ASSUME LeaseAges PROVE Facts'
  BY <1>3, <1>12 DEF LeaseAges
<1>13. ASSUME NEW e \in Events, Notify(e) PROVE Facts'
  <2>1. \A q \in Procs : job'[q] = job[q] /\ job[q] # e
    BY <1>9, <1>13 DEF Notify
  <2>2. QED
    BY <1>6, <1>7, <1>13, <2>1, BoxEffects
<1>14. ASSUME NEW e \in Events, AutoRetry(e) PROVE Facts'
  <2>1. \A q \in Procs : job'[q] = job[q] /\ job[q] # e
    BY <1>9, <1>14 DEF AutoRetry
  <2>2. QED
    BY <1>6, <1>7, <1>14, <2>1, BoxEffects
<1>15. ASSUME NEW e \in Events, Replay(e) PROVE Facts'
  BY <1>7, <1>15 DEF Replay
<1>16. ASSUME NEW p \in Procs, SweepLoad(p) PROVE Facts'
  <2>1. inbox' = inbox
    BY <1>16 DEF SweepLoad
  <2>2. QED
    BY <1>5, <1>16, <2>1, StartEffects DEF Starts, Goes, Ends, Others, Same
<1>17. ASSUME NEW p \in Procs, RecoveryLoad(p) PROVE Facts'
  <2>1. inbox' = inbox
    BY <1>17 DEF RecoveryLoad
  <2>2. QED
    BY <1>5, <1>17, <2>1, StartEffects DEF Starts, Goes, Ends, Others, Same
<1>18. ASSUME NEW p \in Procs, HoldForReview(p) PROVE Facts'
  <2>1. inbox' = inbox
    BY <1>18 DEF HoldForReview
  <2>2. QED
    BY <1>5, <1>18, <2>1, HoldEffect DEF Starts, Goes, Ends, Others, Same
<1>19. ASSUME NEW p \in Procs, ClearStale(p) PROVE Facts'
  <2>1. inbox' = inbox
    BY <1>19 DEF ClearStale
  <2>2. QED
    BY <1>5, <1>19, <2>1, ClearEffect DEF Starts, Goes, Ends, Others, Same
<1>20. ASSUME NEW p \in Procs, DropTrial(p) PROVE Facts'
  <2>1. inbox' = inbox
    BY <1>20 DEF DropTrial
  <2>2. QED
    BY <1>5, <1>20, <2>1, QuietEffects DEF Starts, Goes, Ends, Others, Same
<1>21. ASSUME NEW p \in Procs, Confirmed(p) PROVE Facts'
  <2>1. inbox' = inbox
    BY <1>21 DEF Confirmed
  <2>2. QED
    BY <1>5, <1>21, <2>1, QuietEffects DEF Starts, Goes, Ends, Others, Same
<1>22. ASSUME NEW p \in Procs, Unavailable(p) PROVE Facts'
  <2>1. inbox' = inbox
    BY <1>22 DEF Unavailable
  <2>2. QED
    BY <1>5, <1>22, <2>1, UnavailableEffect DEF Starts, Goes, Ends, Others, Same
<1>23. ASSUME NEW p \in Procs, WriteStatus(p) PROVE Facts'
  <2>1. inbox' = inbox
    BY <1>23 DEF WriteStatus
  <2>2. QED
    BY <1>5, <1>23, <2>1, WriteEffect DEF Starts, Goes, Ends, Others, Same
<1>24. ASSUME NEW p \in Procs, Ack(p) PROVE Facts'
  <2>1. Others(p) /\ job'[p] = NoJob /\ \A q \in Procs : q # p => job'[q] = job[q]
    BY <1>24, QuietEffects DEF Ends, Others, Same
  <2>2. CASE IsWebhook(p)
    <3>1. \A q \in Procs : job'[q] # job[p] /\ (job'[q] = job[q] \/ job'[q] = NoJob)
      BY <1>2, <1>4, <2>1, <2>2 DEF Facts, IsWebhook
    <3>2. inbox'[job[p]].jobs <= 1 /\ OtherBoxes(job[p])
      BY <1>2, <1>7, <1>24, <2>2, EventEffects DEF Facts, IsWebhook
    <3>3. QED
      BY <1>6, <2>2, <3>1, <3>2 DEF IsWebhook
  <2>3. IsWebhook(p)
    BY <1>24, QuietEffects, NoSweepIsAnEvent DEF TypeOK, Roles, RoleOf, IsWebhook
  <2>4. QED
    BY <2>2, <2>3
<1>25. ASSUME NEW p \in Procs, FailEvent(p) PROVE Facts'
  <2>1. Others(p) /\ job'[p] = NoJob /\ \A q \in Procs : q # p => job'[q] = job[q]
    BY <1>25, QuietEffects DEF Ends, Others, Same
  <2>2. CASE IsWebhook(p)
    <3>1. \A q \in Procs : job'[q] # job[p] /\ (job'[q] = job[q] \/ job'[q] = NoJob)
      BY <1>2, <1>4, <2>1, <2>2 DEF Facts, IsWebhook
    <3>2. inbox'[job[p]].jobs <= 1 /\ OtherBoxes(job[p])
      BY <1>2, <1>7, <1>25, <2>2, EventEffects DEF Facts, IsWebhook
    <3>3. QED
      BY <1>6, <2>2, <3>1, <3>2 DEF IsWebhook
  <2>3. IsWebhook(p)
    BY <1>25, QuietEffects, NoSweepIsAnEvent DEF TypeOK, Roles, RoleOf, IsWebhook
  <2>4. QED
    BY <2>2, <2>3
<1>26. ASSUME NEW p \in Procs, Claim(p) PROVE Facts'
  <2>1. inbox' = inbox
    BY <1>26 DEF Claim
  <2>2. QED
    BY <1>5, <1>26, <2>1, ClaimEffect DEF Starts, Goes, Ends, Others, Same
<1>27. ASSUME NEW p \in Procs, LoseClaim(p) PROVE Facts'
  <2>1. inbox' = inbox
    BY <1>27 DEF LoseClaim
  <2>2. QED
    BY <1>5, <1>27, <2>1, BranchEffects DEF Starts, Goes, Ends, Others, Same
<1>28. ASSUME NEW p \in Procs, Provision(p) PROVE Facts'
  <2>1. inbox' = inbox
    BY <1>28 DEF Provision
  <2>2. QED
    BY <1>5, <1>28, <2>1, ProvisionEffect DEF Starts, Goes, Ends, Others, Same
<1>29. ASSUME NEW p \in Procs, ProvisionFails(p) PROVE Facts'
  <2>1. inbox' = inbox
    BY <1>29 DEF ProvisionFails
  <2>2. QED
    BY <1>5, <1>29, <2>1, QuietEffects DEF Starts, Goes, Ends, Others, Same
<1>30. ASSUME NEW p \in Procs, ReleaseClaim(p) PROVE Facts'
  <2>1. inbox' = inbox
    BY <1>30 DEF ReleaseClaim
  <2>2. QED
    BY <1>5, <1>30, <2>1, ReleaseEffect DEF Starts, Goes, Ends, Others, Same
<1>31. ASSUME NEW p \in Procs, EnqueueSync(p) PROVE Facts'
  <2>1. inbox' = inbox
    BY <1>31 DEF EnqueueSync
  <2>2. QED
    BY <1>5, <1>31, <2>1, BranchEffects DEF Starts, Goes, Ends, Others, Same
<1>32. ASSUME NEW p \in Procs, EnqueueFails(p) PROVE Facts'
  <2>1. inbox' = inbox
    BY <1>32 DEF EnqueueFails
  <2>2. QED
    BY <1>5, <1>32, <2>1, BranchEffects DEF Starts, Goes, Ends, Others, Same
<1>33. ASSUME NEW p \in Procs, Hooks(p) PROVE Facts'
  <2>1. inbox' = inbox
    BY <1>33 DEF Hooks
  <2>2. QED
    BY <1>5, <1>33, <2>1, BranchEffects DEF Starts, Goes, Ends, Others, Same
<1>34. ASSUME NEW p \in Procs, LockLedger(p) PROVE Facts'
  <2>1. inbox' = inbox
    BY <1>34 DEF LockLedger
  <2>2. QED
    BY <1>5, <1>34, <2>1, LedgerEffect DEF Starts, Goes, Ends, Others, Same
<1>35. ASSUME NEW p \in Procs, UndoPayout(p) PROVE Facts'
  <2>1. inbox' = inbox
    BY <1>35 DEF UndoPayout
  <2>2. QED
    BY <1>5, <1>35, <2>1, QuietEffects DEF Starts, Goes, Ends, Others, Same
<1>36. ASSUME NEW p \in Procs, Revoke(p) PROVE Facts'
  <2>1. inbox' = inbox
    BY <1>36 DEF Revoke
  <2>2. QED
    BY <1>5, <1>36, <2>1, QuietEffects DEF Starts, Goes, Ends, Others, Same
<1>37. ASSUME NEW p \in Procs, StampReversal(p) PROVE Facts'
  <2>1. inbox' = inbox
    BY <1>37 DEF StampReversal
  <2>2. QED
    BY <1>5, <1>37, <2>1, StampEffect DEF Starts, Goes, Ends, Others, Same
<1>38. ASSUME NEW p \in Procs, SweepCancel(p) PROVE Facts'
  <2>1. inbox' = inbox
    BY <1>38 DEF SweepCancel
  <2>2. QED
    BY <1>5, <1>38, <2>1, CancelEffect DEF Starts, Goes, Ends, Others, Same
<1>39. ASSUME NEW p \in Procs, SweepPoll(p) PROVE Facts'
  <2>1. inbox' = inbox
    BY <1>39 DEF SweepPoll
  <2>2. QED
    BY <1>5, <1>39, <2>1, PollEffect DEF Starts, Goes, Ends, Others, Same
<1>40. ASSUME NEW p \in Procs, SweepKeep(p) PROVE Facts'
  <2>1. inbox' = inbox
    BY <1>40 DEF SweepKeep
  <2>2. QED
    BY <1>5, <1>40, <2>1, QuietEffects DEF Starts, Goes, Ends, Others, Same
<1>41. ASSUME NEW p \in Procs, Crash(p) PROVE Facts'
  <2>1. Others(p) /\ job'[p] = NoJob /\ \A q \in Procs : q # p => job'[q] = job[q]
    BY <1>41, QuietEffects DEF Ends, Others, Same
  <2>2. CASE IsWebhook(p)
    <3>1. \A q \in Procs : job'[q] # job[p] /\ (job'[q] = job[q] \/ job'[q] = NoJob)
      BY <1>2, <1>4, <2>1, <2>2 DEF Facts, IsWebhook
    <3>2. inbox'[job[p]].jobs <= 1 /\ OtherBoxes(job[p])
      BY <1>2, <1>7, <1>41, <2>2, EventEffects DEF Facts, IsWebhook
    <3>3. QED
      BY <1>6, <2>2, <3>1, <3>2 DEF IsWebhook
  <2>3. CASE ~IsWebhook(p)
    BY <1>5, <1>41, <2>1, <2>3 DEF Crash
  <2>4. QED
    BY <2>2, <2>3
<1>42. ASSUME NEW p \in Procs, NEW e \in Events, Load(p, e) PROVE Facts'
  <2>1. \A q \in Procs : job[q] # e
    BY <1>7, <1>9, <1>42, BoxEffects
  <2>2. Others(p) /\ job'[p] = e /\ (\A q \in Procs : q # p => job'[q] = job[q])
    BY <1>42, StartEffects DEF Starts, Others, Same
  <2>3. inbox'[e].jobs = 0 /\ inbox'[e].status = "PROCESSING" /\ OtherBoxes(e)
    BY <1>2, <1>7, <1>42, BoxEffects DEF Facts
  <2>4. \A f \in Events : inbox'[f].jobs <= 1
    BY <1>2, <2>3 DEF Facts, OtherBoxes
  <2>5. \A q \in Procs : job'[q] \in Events =>
          inbox'[job'[q]].jobs = 0 /\ inbox'[job'[q]].status = "PROCESSING"
    BY <1>2, <2>1, <2>2, <2>3 DEF Facts, OtherBoxes, IsWebhook
  <2>6. \A q, r \in Procs : job'[q] \in Events /\ job'[r] = job'[q] => q = r
    BY <1>2, <2>1, <2>2 DEF Facts, IsWebhook
  <2>7. QED
    BY <2>4, <2>5, <2>6 DEF Facts, IsWebhook
<1>43. CASE UNCHANGED vars
  BY <1>3, <1>43 DEF vars
<1>44. QED
  BY <1>10, <1>11, <1>12, <1>13, <1>14, <1>15, <1>16, <1>17, <1>18, <1>19,
     <1>20, <1>21, <1>22, <1>23, <1>24, <1>25, <1>26, <1>27, <1>28, <1>29,
     <1>30, <1>31, <1>32, <1>33, <1>34, <1>35, <1>36, <1>37, <1>38, <1>39,
     <1>40, <1>41, <1>42, <1>43 DEF Next, Continue, WebhookStep, FulfilStep,
     ReversalStep, SweepStep

\* Money given back stays given back.
LEMMA RefundStays ==
  ASSUME [Next]_vars
  PROVE  refunded => refunded'
  BY DEF Next, Continue, WebhookStep, FulfilStep, ReversalStep, SweepStep,
     vars, envVars, Settle, GiveBack, LeaseAges, Notify, AutoRetry, Replay,
     SweepLoad, RecoveryLoad, HoldForReview, ClearStale, DropTrial, Confirmed,
     Unavailable, WriteStatus, Ack, FailEvent, Claim, LoseClaim, Provision,
     ProvisionFails, ReleaseClaim, EnqueueSync, EnqueueFails, Hooks,
     LockLedger, UndoPayout, Revoke, StampReversal, SweepCancel, SweepPoll,
     SweepKeep, Crash, Load

\* What the handlers of a NEW purchase that is not polled work for.
LEMMA OnlyWebhooks ==
  ASSUME TypeOK, Roles, Purchases, kind = "NEW", gateway = "OTHER", NEW p \in Procs,
         pc[p] \notin {"idle", "sweep"}
  PROVE  IsWebhook(p) /\ Fits(pc[p], EventKind(job[p]))
  BY DEF TypeOK, Roles, RoleOf, Purchases, PurchaseOf, IsWebhook

\* The claim and the status, at every step.
LEMMA ClaimedHolds ==
  ASSUME TypeOK, Roles, Sent, Purchases, SerialInv, ClaimedInv, [Next]_vars
  PROVE  ClaimedInv'
<1>1. scenario' = scenario /\ ProcsOK /\ (refunded => refunded')
  BY ScenarioKept, TypeParts, RefundStays
<1> DEFINE Facts ==
      /\ row.fulfilledAt # Null => row.status = "COMPLETED" \/ (refunded /\ ~AllPaid)
      /\ \A p \in Procs : pc[p] = "claim" => row.status = "COMPLETED"
<1>2. AllPaid' = AllPaid /\ Serial' = Serial /\ kind' = kind /\ gateway' = gateway
  BY <1>1 DEF AllPaid, EventKind, Serial, kind, gateway
<1> SUFFICES ASSUME Serial \/ AllPaid, kind = "NEW", gateway = "OTHER" PROVE Facts'
  BY <1>2 DEF ClaimedInv
<1>3. Facts
  BY DEF ClaimedInv
<1> HIDE DEF Facts
<1>4. ASSUME \A q \in Procs : Same(q), row' = row
      PROVE  Facts'
  BY <1>1, <1>2, <1>3, <1>4 DEF Facts, Same
<1>5. ASSUME NEW p \in Procs, Others(p), row'.status = row.status,
             row'.fulfilledAt \in {row.fulfilledAt, Null}, pc'[p] # "claim"
      PROVE  Facts'
  BY <1>1, <1>2, <1>3, <1>5 DEF Facts, Others, Same
<1>6. ASSUME row'.status = "COMPLETED"
      PROVE  Facts'
  BY <1>6 DEF Facts
<1>7. ASSUME NEW p \in Procs, Others(p), Serial, pc[p] # "idle", pc'[p] # "claim",
             row'.fulfilledAt # Null => refunded /\ ~AllPaid
      PROVE  Facts'
  <2>1. \A q \in Procs : pc'[q] # "claim"
    BY <1>7 DEF SerialInv, Alone, Others, Same
  <2>2. QED
    BY <1>1, <1>2, <1>7, <2>1 DEF Facts
<1>8. \A p \in Procs : pc[p] \notin {"idle", "sweep"} => IsWebhook(p) /\ Fits(pc[p], EventKind(job[p]))
  BY OnlyWebhooks
<1>9. ASSUME NEW p \in Procs, pc[p] \notin {"idle", "sweep"}, EventKind(job[p]) # "paid",
             AllPaid, pc[p] \in {"write", "stamp"}
      PROVE  FALSE
  BY <1>8, <1>9 DEF AllPaid, IsWebhook, Fits
<1>10. ASSUME Settle PROVE Facts'
  BY <1>4, <1>1, <1>10, Unmoved DEF Settle
<1>11. ASSUME GiveBack PROVE Facts'
  BY <1>4, <1>1, <1>11, Unmoved DEF GiveBack
<1>12. ASSUME LeaseAges PROVE Facts'
  BY <1>4, <1>1, <1>12, Unmoved DEF LeaseAges
<1>13. ASSUME NEW e \in Events, Notify(e) PROVE Facts'
  BY <1>4, <1>1, <1>13, Unmoved DEF Notify
<1>14. ASSUME NEW e \in Events, AutoRetry(e) PROVE Facts'
  BY <1>4, <1>1, <1>14, Unmoved DEF AutoRetry
<1>15. ASSUME NEW e \in Events, Replay(e) PROVE Facts'
  BY <1>4, <1>1, <1>15, Unmoved DEF Replay
<1>16. ASSUME NEW p \in Procs, SweepLoad(p) PROVE Facts'
  BY <1>5, <1>16, StartEffects DEF Starts, Goes, Ends
<1>17. ASSUME NEW p \in Procs, RecoveryLoad(p) PROVE Facts'
  BY <1>17 DEF RecoveryLoad
<1>18. ASSUME NEW p \in Procs, HoldForReview(p) PROVE Facts'
  BY <1>5, <1>18, HoldEffect DEF Starts, Goes, Ends
<1>19. ASSUME NEW p \in Procs, ClearStale(p) PROVE Facts'
  BY <1>5, <1>19, ClearEffect DEF Starts, Goes, Ends, AfterClear
<1>20. ASSUME NEW p \in Procs, DropTrial(p) PROVE Facts'
  BY <1>5, <1>20, QuietEffects DEF Starts, Goes, Ends
<1>21. ASSUME NEW p \in Procs, Confirmed(p) PROVE Facts'
  BY <1>5, <1>21, QuietEffects DEF Starts, Goes, Ends
<1>22. ASSUME NEW p \in Procs, Unavailable(p) PROVE Facts'
  BY <1>5, <1>22, UnavailableEffect DEF Starts, Goes, Ends
<1>23. ASSUME NEW p \in Procs, WriteStatus(p) PROVE Facts'
  <2>1. CASE NextStatus(EventKind(job[p])) = "COMPLETED"
    BY <1>6, <1>23, <2>1, WriteEffect
  <2>2. CASE NextStatus(EventKind(job[p])) # "COMPLETED"
    <3>1. EventKind(job[p]) # "paid" /\ pc[p] = "write"
      BY <1>23, <2>2, WriteEffect DEF NextStatus
    <3>2. Serial /\ ~AllPaid
      BY <1>9, <3>1
    <3>3. row.status = "PENDING"
      BY <3>1, <3>2 DEF SerialInv, Knows
    <3>4. row'.fulfilledAt # Null => refunded /\ ~AllPaid
      BY <1>3, <1>23, <3>3, WriteEffect DEF Facts
    <3>5. Others(p) /\ pc'[p] = "ack"
      BY <1>23, <2>2, WriteEffect DEF Goes
    <3>6. QED
      BY <1>7, <3>1, <3>2, <3>4, <3>5
  <2>3. QED
    BY <2>1, <2>2
<1>24. ASSUME NEW p \in Procs, Ack(p) PROVE Facts'
  BY <1>5, <1>24, QuietEffects DEF Starts, Goes, Ends
<1>25. ASSUME NEW p \in Procs, FailEvent(p) PROVE Facts'
  BY <1>5, <1>25, QuietEffects DEF Starts, Goes, Ends
<1>26. ASSUME NEW p \in Procs, Claim(p) PROVE Facts'
  <2>1. row.status = "COMPLETED"
    BY <1>3, <1>26, ClaimEffect DEF Facts
  <2>2. QED
    BY <1>6, <1>26, <2>1, ClaimEffect
<1>27. ASSUME NEW p \in Procs, LoseClaim(p) PROVE Facts'
  BY <1>5, <1>27, BranchEffects DEF Starts, Goes, Ends
<1>28. ASSUME NEW p \in Procs, Provision(p) PROVE Facts'
  BY <1>6, <1>28, ProvisionEffect
<1>29. ASSUME NEW p \in Procs, ProvisionFails(p) PROVE Facts'
  BY <1>5, <1>29, QuietEffects DEF Starts, Goes, Ends
<1>30. ASSUME NEW p \in Procs, ReleaseClaim(p) PROVE Facts'
  BY <1>5, <1>30, ReleaseEffect DEF Starts, Goes, Ends
<1>31. ASSUME NEW p \in Procs, EnqueueSync(p) PROVE Facts'
  BY <1>5, <1>31, BranchEffects DEF Starts, Goes, Ends
<1>32. ASSUME NEW p \in Procs, EnqueueFails(p) PROVE Facts'
  BY <1>5, <1>32, BranchEffects DEF Starts, Goes, Ends
<1>33. ASSUME NEW p \in Procs, Hooks(p) PROVE Facts'
  BY <1>5, <1>33, BranchEffects DEF Starts, Goes, Ends
<1>34. ASSUME NEW p \in Procs, LockLedger(p) PROVE Facts'
  BY <1>5, <1>34, LedgerEffect DEF Starts, Goes, Ends
<1>35. ASSUME NEW p \in Procs, UndoPayout(p) PROVE Facts'
  BY <1>5, <1>35, QuietEffects DEF Starts, Goes, Ends
<1>36. ASSUME NEW p \in Procs, Revoke(p) PROVE Facts'
  BY <1>5, <1>36, QuietEffects DEF Starts, Goes, Ends
<1>37. ASSUME NEW p \in Procs, StampReversal(p) PROVE Facts'
  <2>1. IsWebhook(p) /\ EventKind(job[p]) = "refund" /\ pc[p] = "stamp"
    BY <1>8, <1>37, StampEffect DEF Fits
  <2>2. refunded
    BY <2>1 DEF Sent, Roles, RoleOf, IsWebhook
  <2>3. Serial /\ ~AllPaid
    BY <1>9, <2>1
  <2>4. QED
    BY <1>7, <1>37, <2>1, <2>2, <2>3, StampEffect DEF Goes
<1>38. ASSUME NEW p \in Procs, SweepCancel(p) PROVE Facts'
  <2>1. CASE row' = row
    BY <1>5, <1>38, <2>1, CancelEffect DEF Ends
  <2>2. CASE row.status = "PENDING"
    <3>1. Others(p) /\ pc'[p] = "idle" /\ row'.fulfilledAt = row.fulfilledAt
      BY <1>38, CancelEffect DEF Ends
    <3>2. QED
      BY <1>1, <1>2, <1>3, <2>2, <3>1 DEF Facts, Others, Same
  <2>3. QED
    BY <1>38, <2>1, <2>2, CancelEffect
<1>39. ASSUME NEW p \in Procs, SweepPoll(p) PROVE Facts'
  BY <1>39 DEF SweepPoll, LocalTtl
<1>40. ASSUME NEW p \in Procs, SweepKeep(p) PROVE Facts'
  BY <1>5, <1>40, QuietEffects DEF Starts, Goes, Ends
<1>41. ASSUME NEW p \in Procs, Crash(p) PROVE Facts'
  BY <1>5, <1>41, QuietEffects DEF Starts, Goes, Ends
<1>42. ASSUME NEW p \in Procs, NEW e \in Events, Load(p, e) PROVE Facts'
  <2>1. FirstStep(EventKind(e)) # "claim"
    BY DEF FirstStep, ClaimedStep, StepFor
  <2>2. QED
    BY <1>5, <1>42, <2>1, StartEffects DEF Starts
<1>43. CASE UNCHANGED vars
  BY <1>1, <1>4, <1>43, Unmoved DEF vars
<1>44. QED
  BY <1>10, <1>11, <1>12, <1>13, <1>14, <1>15, <1>16, <1>17, <1>18, <1>19,
     <1>20, <1>21, <1>22, <1>23, <1>24, <1>25, <1>26, <1>27, <1>28, <1>29,
     <1>30, <1>31, <1>32, <1>33, <1>34, <1>35, <1>36, <1>37, <1>38, <1>39,
     <1>40, <1>41, <1>42, <1>43 DEF Next, Continue, WebhookStep, FulfilStep,
     ReversalStep, SweepStep

\* A lone handler of a capture, at every step.
LEMMA SerialPaidStep ==
  ASSUME TypeOK, Roles, Sent, Purchases, SerialInv, ClaimedInv, SerialPaidInv, [Next]_vars
  PROVE  SerialPaidInv'
<1>1. /\ scenario' = scenario /\ ProcsOK /\ Boxes
      /\ (refunded => refunded') /\ (Delivered => Delivered')
  BY ScenarioKept, TypeParts, RefundStays, TrialMoves DEF TypeOK, Boxes, Delivered
<1> DEFINE Facts ==
      /\ \A p \in Procs : PaidOf(p)
      /\ \A e \in Paid : inbox[e].status = "PROCESSED" => Safe
<1>2. Serial' = Serial /\ kind' = kind /\ gateway' = gateway /\ Paid' = Paid /\ (Safe => Safe')
  <2>1. Paid' = Paid /\ Serial' = Serial /\ kind' = kind /\ gateway' = gateway
    BY <1>1 DEF Paid, EventKind, Serial, kind, gateway
  <2>2. Safe => Safe'
    BY <1>1 DEF Safe
  <2>3. QED
    BY <2>1, <2>2
<1> SUFFICES ASSUME Serial, kind = "NEW", gateway = "OTHER" PROVE Facts'
  BY <1>2 DEF SerialPaidInv
<1>3. Facts
  BY DEF SerialPaidInv
<1> HIDE DEF Facts
<1>4. ASSUME \A q \in Procs : Same(q), row' = row,
             \A e \in Events : inbox'[e].status = "PROCESSED" => inbox[e].status = "PROCESSED"
      PROVE  Facts'
  <2>1. \A e \in Paid : inbox'[e].status = "PROCESSED" => Safe'
    BY <1>2, <1>3, <1>4 DEF Facts, Paid
  <2>2. ASSUME NEW q \in Procs PROVE PaidOf(q)'
    <3>1. PaidOf(q) /\ Same(q) /\ row'.fulfilledAt = row.fulfilledAt
      BY <1>3, <1>4 DEF Facts
    <3>2. QED
      BY <1>1, <1>2, <3>1 DEF PaidOf, Same, IsWebhook, EventKind
  <2>3. QED
    BY <1>2, <2>1, <2>2 DEF Facts
<1>5. ASSUME NEW p \in Procs, Others(p), pc[p] # "idle" \/ \A q \in Procs : pc[q] = "idle",
             PaidOf(p)',
             \A e \in Paid : inbox'[e].status = "PROCESSED" =>
                inbox[e].status = "PROCESSED" \/ Safe
      PROVE  Facts'
  <2>1. \A e \in Paid : inbox'[e].status = "PROCESSED" => Safe'
    BY <1>2, <1>3, <1>5 DEF Facts
  <2>2. ASSUME NEW q \in Procs, q # p PROVE PaidOf(q)'
    <3>1. pc'[q] = "idle"
      BY <1>5, <2>2 DEF SerialInv, Alone, Others, Same
    <3>2. QED
      BY <3>1 DEF PaidOf
  <2>3. QED
    BY <1>2, <1>5, <2>1, <2>2 DEF Facts
<1>6. \A p \in Procs : pc[p] \notin {"idle", "sweep"} => IsWebhook(p) /\ Fits(pc[p], EventKind(job[p]))
  BY OnlyWebhooks
<1>7. \A p \in Procs : /\ PaidOf(p) /\ PurchaseOf(p) /\ Knows(p)
                       /\ pc[p] = "idle" => ~IsWebhook(p)
  BY <1>3, NoSweepIsAnEvent DEF Facts, Purchases, SerialInv, Roles, RoleOf, IsWebhook
<1>8. \A k : NextStatus(k) = "COMPLETED" <=> k = "paid"
  BY DEF NextStatus
<1>9. ASSUME Settle PROVE Facts'
  BY <1>4, <1>1, <1>9, Unmoved DEF Settle
<1>10. ASSUME GiveBack PROVE Facts'
  BY <1>4, <1>1, <1>10, Unmoved DEF GiveBack
<1>11. ASSUME LeaseAges PROVE Facts'
  BY <1>4, <1>1, <1>11, Unmoved DEF LeaseAges
<1>12. ASSUME NEW e \in Events, Notify(e) PROVE Facts'
  <2>1. \A f \in Events : inbox'[f].status = "PROCESSED" => inbox[f].status = "PROCESSED"
    BY <1>12, BoxEffects DEF OtherBoxes
  <2>2. QED
    BY <1>1, <1>4, <1>12, <2>1, Unmoved DEF Notify
<1>13. ASSUME NEW e \in Events, AutoRetry(e) PROVE Facts'
  <2>1. \A f \in Events : inbox'[f].status = "PROCESSED" => inbox[f].status = "PROCESSED"
    BY <1>13, BoxEffects DEF OtherBoxes
  <2>2. QED
    BY <1>1, <1>4, <1>13, <2>1, Unmoved DEF AutoRetry
<1>14. ASSUME NEW e \in Events, Replay(e) PROVE Facts'
  <2>1. \A f \in Events : inbox'[f].status = "PROCESSED" => inbox[f].status = "PROCESSED"
    BY <1>14, BoxEffects DEF OtherBoxes
  <2>2. QED
    BY <1>1, <1>4, <1>14, <2>1, Unmoved DEF Replay
<1>15. ASSUME NEW p \in Procs, SweepLoad(p) PROVE Facts'
  <2>1. \A q \in Procs : pc[q] = "idle"
    BY <1>15, NobodyElse DEF SweepLoad
  <2>2. PaidOf(p)'
    BY <1>15, StartEffects, NoSweepIsAnEvent DEF Starts, PaidOf, IsWebhook
  <2>3. QED
    BY <1>5, <1>15, <2>1, <2>2, StartEffects DEF Starts, SweepLoad
<1>16. ASSUME NEW p \in Procs, RecoveryLoad(p) PROVE Facts'
  BY <1>16 DEF RecoveryLoad
<1>17. ASSUME NEW p \in Procs, HoldForReview(p) PROVE Facts'
  <2>1. \A e \in Paid : inbox'[e].status = "PROCESSED" => inbox[e].status = "PROCESSED" \/ Safe
    BY <1>17 DEF HoldForReview
  <2>2. PaidOf(p)'
    BY <1>1, <1>2, <1>6, <1>7, <1>8, <1>17, HoldEffect, NoSweepIsAnEvent DEF
       PaidOf, Goes, Ends, EventKind, IsWebhook, Fits
  <2>3. QED
    BY <1>5, <1>17, <2>1, <2>2, HoldEffect DEF Goes, Ends
<1>18. ASSUME NEW p \in Procs, ClearStale(p) PROVE Facts'
  <2>1. \A e \in Paid : inbox'[e].status = "PROCESSED" => inbox[e].status = "PROCESSED" \/ Safe
    BY <1>18 DEF ClearStale
  <2>2. row'.fulfilledAt = Null
    BY <1>7, <1>18, ClearEffect DEF Knows
  <2>3. AfterClear(EventKind(job[p])) \notin {"hooks"} /\ (AfterClear("paid") # "ack")
    BY <1>8 DEF AfterClear, NextStatus
  <2>4. PaidOf(p)'
    BY <1>1, <1>18, <2>2, <2>3, ClearEffect DEF PaidOf, Goes, EventKind
  <2>5. QED
    BY <1>5, <1>18, <2>1, <2>4, ClearEffect DEF Goes
<1>19. ASSUME NEW p \in Procs, DropTrial(p) PROVE Facts'
  <2>1. \A e \in Paid : inbox'[e].status = "PROCESSED" => inbox[e].status = "PROCESSED" \/ Safe
    BY <1>19 DEF DropTrial
  <2>2. PaidOf(p)'
    BY <1>1, <1>2, <1>6, <1>7, <1>8, <1>19, QuietEffects, NoSweepIsAnEvent DEF
       PaidOf, Goes, Ends, EventKind, IsWebhook, Fits
  <2>3. QED
    BY <1>5, <1>19, <2>1, <2>2, QuietEffects DEF Goes, Ends
<1>20. ASSUME NEW p \in Procs, Confirmed(p) PROVE Facts'
  BY <1>7, <1>20, QuietEffects DEF PurchaseOf
<1>21. ASSUME NEW p \in Procs, Unavailable(p) PROVE Facts'
  BY <1>7, <1>21, UnavailableEffect DEF PurchaseOf
<1>22. ASSUME NEW p \in Procs, WriteStatus(p) PROVE Facts'
  <2>1. \A e \in Paid : inbox'[e].status = "PROCESSED" => inbox[e].status = "PROCESSED" \/ Safe
    BY <1>22 DEF WriteStatus
  <2>2. PaidOf(p)'
    BY <1>1, <1>2, <1>6, <1>7, <1>8, <1>22, WriteEffect, NoSweepIsAnEvent DEF
       PaidOf, Goes, Ends, EventKind, IsWebhook, Fits
  <2>3. QED
    BY <1>5, <1>22, <2>1, <2>2, WriteEffect DEF Goes, Ends
<1>23. ASSUME NEW p \in Procs, Ack(p) PROVE Facts'
  <2>1. \A e \in Paid : inbox'[e].status = "PROCESSED" => inbox[e].status = "PROCESSED" \/ Safe
    <3>1. IsWebhook(p) \/ inbox' = inbox
      BY <1>6, <1>23, QuietEffects DEF Crash, Boxes
    <3>2. pc[p] = "ack" /\ EventKind(job[p]) = "paid" /\ IsWebhook(p) => Safe
      BY <1>7 DEF PaidOf
    <3>3. QED
      BY <3>1, <3>2, <1>23, QuietEffects, EventEffects DEF OtherBoxes, Paid
  <2>2. PaidOf(p)'
    BY <1>1, <1>2, <1>6, <1>7, <1>8, <1>23, QuietEffects, NoSweepIsAnEvent DEF
       PaidOf, Goes, Ends, EventKind, IsWebhook, Fits
  <2>3. QED
    BY <1>5, <1>23, <2>1, <2>2, QuietEffects DEF Goes, Ends
<1>24. ASSUME NEW p \in Procs, FailEvent(p) PROVE Facts'
  <2>1. \A e \in Paid : inbox'[e].status = "PROCESSED" => inbox[e].status = "PROCESSED" \/ Safe
    <3>1. IsWebhook(p) \/ inbox' = inbox
      BY <1>6, <1>24, QuietEffects DEF Crash, Boxes
    <3>2. pc[p] = "ack" /\ EventKind(job[p]) = "paid" /\ IsWebhook(p) => Safe
      BY <1>7 DEF PaidOf
    <3>3. QED
      BY <3>1, <3>2, <1>24, QuietEffects, EventEffects DEF OtherBoxes, Paid
  <2>2. PaidOf(p)'
    BY <1>1, <1>2, <1>6, <1>7, <1>8, <1>24, QuietEffects, NoSweepIsAnEvent DEF
       PaidOf, Goes, Ends, EventKind, IsWebhook, Fits
  <2>3. QED
    BY <1>5, <1>24, <2>1, <2>2, QuietEffects DEF Goes, Ends
<1>25. ASSUME NEW p \in Procs, Claim(p) PROVE Facts'
  <2>1. \A e \in Paid : inbox'[e].status = "PROCESSED" => inbox[e].status = "PROCESSED" \/ Safe
    BY <1>25 DEF Claim
  <2>2. PaidOf(p)'
    BY <1>1, <1>2, <1>6, <1>7, <1>8, <1>25, ClaimEffect, NoSweepIsAnEvent DEF
       PaidOf, Goes, Ends, EventKind, IsWebhook, Fits
  <2>3. QED
    BY <1>5, <1>25, <2>1, <2>2, ClaimEffect DEF Goes, Ends
<1>26. ASSUME NEW p \in Procs, LoseClaim(p) PROVE Facts'
  <2>1. \A e \in Paid : inbox'[e].status = "PROCESSED" => inbox[e].status = "PROCESSED" \/ Safe
    BY <1>26 DEF LoseClaim
  <2>2. IsWebhook(p) /\ job[p] \notin {"expiry", "recovery"}
    BY <1>6, <1>26, BranchEffects, NoSweepIsAnEvent DEF IsWebhook
  <2>3. EventKind(job[p]) = "paid" => refunded
    BY <1>7, <1>26, <2>2, BranchEffects DEF PaidOf, MayClaim
  <2>4. PaidOf(p)'
    BY <1>1, <1>2, <1>26, <2>2, <2>3, BranchEffects DEF PaidOf, Goes, EventKind, IsWebhook, Safe
  <2>5. QED
    BY <1>5, <1>26, <2>1, <2>4, BranchEffects DEF Goes, Ends
<1>27. ASSUME NEW p \in Procs, Provision(p) PROVE Facts'
  <2>1. \A e \in Paid : inbox'[e].status = "PROCESSED" => inbox[e].status = "PROCESSED" \/ Safe
    BY <1>27 DEF Provision
  <2>2. PaidOf(p)'
    BY <1>1, <1>2, <1>6, <1>7, <1>8, <1>27, ProvisionEffect, NoSweepIsAnEvent
       DEF PaidOf, Goes, Ends, EventKind, IsWebhook, Fits
  <2>3. QED
    BY <1>5, <1>27, <2>1, <2>2, ProvisionEffect DEF Goes, Ends
<1>28. ASSUME NEW p \in Procs, ProvisionFails(p) PROVE Facts'
  <2>1. \A e \in Paid : inbox'[e].status = "PROCESSED" => inbox[e].status = "PROCESSED" \/ Safe
    BY <1>28 DEF ProvisionFails
  <2>2. PaidOf(p)'
    BY <1>1, <1>2, <1>6, <1>7, <1>8, <1>28, QuietEffects, NoSweepIsAnEvent DEF
       PaidOf, Goes, Ends, EventKind, IsWebhook, Fits
  <2>3. QED
    BY <1>5, <1>28, <2>1, <2>2, QuietEffects DEF Goes, Ends
<1>29. ASSUME NEW p \in Procs, ReleaseClaim(p) PROVE Facts'
  <2>1. \A e \in Paid : inbox'[e].status = "PROCESSED" => inbox[e].status = "PROCESSED" \/ Safe
    BY <1>29 DEF ReleaseClaim
  <2>2. PaidOf(p)'
    BY <1>1, <1>2, <1>6, <1>7, <1>8, <1>29, ReleaseEffect, NoSweepIsAnEvent
       DEF PaidOf, Goes, Ends, EventKind, IsWebhook, Fits
  <2>3. QED
    BY <1>5, <1>29, <2>1, <2>2, ReleaseEffect DEF Goes, Ends
<1>30. ASSUME NEW p \in Procs, EnqueueSync(p) PROVE Facts'
  <2>1. \A e \in Paid : inbox'[e].status = "PROCESSED" => inbox[e].status = "PROCESSED" \/ Safe
    BY <1>30 DEF EnqueueSync
  <2>2. Safe
    BY <1>7, <1>30, BranchEffects DEF PurchaseOf, Safe
  <2>3. PaidOf(p)'
    BY <1>1, <1>2, <1>30, <2>2, BranchEffects DEF PaidOf, Goes, Ends, NoJob
  <2>4. QED
    BY <1>5, <1>30, <2>1, <2>3, BranchEffects DEF Goes, Ends
<1>31. ASSUME NEW p \in Procs, EnqueueFails(p) PROVE Facts'
  <2>1. \A e \in Paid : inbox'[e].status = "PROCESSED" => inbox[e].status = "PROCESSED" \/ Safe
    BY <1>31 DEF EnqueueFails
  <2>2. PaidOf(p)'
    BY <1>1, <1>2, <1>6, <1>7, <1>8, <1>31, BranchEffects, NoSweepIsAnEvent
       DEF PaidOf, Goes, Ends, EventKind, IsWebhook, Fits
  <2>3. QED
    BY <1>5, <1>31, <2>1, <2>2, BranchEffects DEF Goes, Ends
<1>32. ASSUME NEW p \in Procs, Hooks(p) PROVE Facts'
  <2>1. \A e \in Paid : inbox'[e].status = "PROCESSED" => inbox[e].status = "PROCESSED" \/ Safe
    BY <1>32 DEF Hooks
  <2>2. PaidOf(p)'
    BY <1>1, <1>2, <1>6, <1>7, <1>8, <1>32, BranchEffects, NoSweepIsAnEvent
       DEF PaidOf, Goes, Ends, EventKind, IsWebhook, Fits
  <2>3. QED
    BY <1>5, <1>32, <2>1, <2>2, BranchEffects DEF Goes, Ends
<1>33. ASSUME NEW p \in Procs, LockLedger(p) PROVE Facts'
  <2>1. \A e \in Paid : inbox'[e].status = "PROCESSED" => inbox[e].status = "PROCESSED" \/ Safe
    BY <1>33 DEF LockLedger
  <2>2. PaidOf(p)'
    BY <1>1, <1>2, <1>6, <1>7, <1>8, <1>33, LedgerEffect, NoSweepIsAnEvent DEF
       PaidOf, Goes, Ends, EventKind, IsWebhook, Fits
  <2>3. QED
    BY <1>5, <1>33, <2>1, <2>2, LedgerEffect DEF Goes, Ends
<1>34. ASSUME NEW p \in Procs, UndoPayout(p) PROVE Facts'
  <2>1. \A e \in Paid : inbox'[e].status = "PROCESSED" => inbox[e].status = "PROCESSED" \/ Safe
    BY <1>34 DEF UndoPayout
  <2>2. PaidOf(p)'
    BY <1>1, <1>2, <1>6, <1>7, <1>8, <1>34, QuietEffects, NoSweepIsAnEvent DEF
       PaidOf, Goes, Ends, EventKind, IsWebhook, Fits
  <2>3. QED
    BY <1>5, <1>34, <2>1, <2>2, QuietEffects DEF Goes, Ends
<1>35. ASSUME NEW p \in Procs, Revoke(p) PROVE Facts'
  <2>1. \A e \in Paid : inbox'[e].status = "PROCESSED" => inbox[e].status = "PROCESSED" \/ Safe
    BY <1>35 DEF Revoke
  <2>2. PaidOf(p)'
    BY <1>1, <1>2, <1>6, <1>7, <1>8, <1>35, QuietEffects, NoSweepIsAnEvent DEF
       PaidOf, Goes, Ends, EventKind, IsWebhook, Fits
  <2>3. QED
    BY <1>5, <1>35, <2>1, <2>2, QuietEffects DEF Goes, Ends
<1>36. ASSUME NEW p \in Procs, StampReversal(p) PROVE Facts'
  <2>1. \A e \in Paid : inbox'[e].status = "PROCESSED" => inbox[e].status = "PROCESSED" \/ Safe
    BY <1>36 DEF StampReversal
  <2>2. PaidOf(p)'
    BY <1>1, <1>2, <1>6, <1>7, <1>8, <1>36, StampEffect, NoSweepIsAnEvent DEF
       PaidOf, Goes, Ends, EventKind, IsWebhook, Fits
  <2>3. QED
    BY <1>5, <1>36, <2>1, <2>2, StampEffect DEF Goes, Ends
<1>37. ASSUME NEW p \in Procs, SweepCancel(p) PROVE Facts'
  <2>1. \A e \in Paid : inbox'[e].status = "PROCESSED" => inbox[e].status = "PROCESSED" \/ Safe
    BY <1>37 DEF SweepCancel
  <2>2. PaidOf(p)'
    BY <1>1, <1>2, <1>6, <1>7, <1>8, <1>37, CancelEffect, NoSweepIsAnEvent DEF
       PaidOf, Goes, Ends, EventKind, IsWebhook, Fits
  <2>3. QED
    BY <1>5, <1>37, <2>1, <2>2, CancelEffect DEF Goes, Ends
<1>38. ASSUME NEW p \in Procs, SweepPoll(p) PROVE Facts'
  BY <1>38 DEF SweepPoll, LocalTtl
<1>39. ASSUME NEW p \in Procs, SweepKeep(p) PROVE Facts'
  <2>1. \A e \in Paid : inbox'[e].status = "PROCESSED" => inbox[e].status = "PROCESSED" \/ Safe
    BY <1>39 DEF SweepKeep
  <2>2. PaidOf(p)'
    BY <1>1, <1>2, <1>6, <1>7, <1>8, <1>39, QuietEffects, NoSweepIsAnEvent DEF
       PaidOf, Goes, Ends, EventKind, IsWebhook, Fits
  <2>3. QED
    BY <1>5, <1>39, <2>1, <2>2, QuietEffects DEF Goes, Ends
<1>40. ASSUME NEW p \in Procs, Crash(p) PROVE Facts'
  <2>1. \A e \in Paid : inbox'[e].status = "PROCESSED" => inbox[e].status = "PROCESSED" \/ Safe
    BY <1>40, EventEffects DEF OtherBoxes, Paid, Crash
  <2>2. PaidOf(p)'
    BY <1>1, <1>2, <1>6, <1>7, <1>8, <1>40, QuietEffects, NoSweepIsAnEvent DEF
       PaidOf, Goes, Ends, EventKind, IsWebhook, Fits
  <2>3. QED
    BY <1>5, <1>40, <2>1, <2>2, QuietEffects DEF Goes, Ends
<1>41. ASSUME NEW p \in Procs, NEW e \in Events, Load(p, e) PROVE Facts'
  <2>1. \A q \in Procs : pc[q] = "idle"
    BY <1>41, NobodyElse DEF Load
  <2>2. \A f \in Events : inbox'[f].status = "PROCESSED" => inbox[f].status = "PROCESSED"
    BY <1>41, BoxEffects DEF OtherBoxes
  <2>3. /\ FirstStep("paid") \notin {"claim", "hooks"}
        /\ FirstStep("paid") = "ack" => row.linked
        /\ FirstStep("paid") = "write" => row.status # "COMPLETED" \/ row.fulfilledAt = Null
    BY DEF FirstStep, ClaimedStep, StepFor, NextStatus
  <2>4. row.linked => Safe
    BY DEF Purchases, Safe
  <2>5. row.status # "COMPLETED" => row.fulfilledAt = Null \/ refunded
    BY DEF ClaimedInv
  <2>6. PaidOf(p)'
    BY <1>1, <1>2, <1>41, <2>3, <2>4, <2>5, StartEffects DEF Starts, PaidOf, EventKind
  <2>7. QED
    BY <1>5, <1>41, <2>1, <2>2, <2>6, StartEffects DEF Starts, Paid
<1>42. CASE UNCHANGED vars
  BY <1>1, <1>4, <1>42, Unmoved DEF vars
<1>43. QED
  BY <1>9, <1>10, <1>11, <1>12, <1>13, <1>14, <1>15, <1>16, <1>17, <1>18,
     <1>19, <1>20, <1>21, <1>22, <1>23, <1>24, <1>25, <1>26, <1>27, <1>28,
     <1>29, <1>30, <1>31, <1>32, <1>33, <1>34, <1>35, <1>36, <1>37, <1>38,
     <1>39, <1>40, <1>41, <1>42 DEF Next, Continue, WebhookStep, FulfilStep,
     ReversalStep, SweepStep

\* A notification stays answerable through the steps of the others and through
\* those of its own handler that wait.
LEMMA StaysAnswerable ==
  ASSUME NEW e, Answerable(e), NEW p \in Procs, Others(p), Open(e)',
         row'.fulfilledAt \in {row.fulfilledAt, Null},
         job'[p] = e => Waits(p)'
  PROVE  Answerable(e)'
<1>1. ASSUME NEW q \in Procs, job'[q] = e PROVE Waits(q)'
  <2>1. CASE q = p
    BY <1>1, <2>1
  <2>2. CASE q # p
    <3>1. Same(q) /\ Waits(q)
      BY <1>1, <2>2 DEF Others, Same, Answerable
    <3>2. QED
      BY <3>1 DEF Same, Waits
  <2>3. QED
    BY <2>1, <2>2
<1>2. QED
  BY <1>1 DEF Answerable

\* Captures that overlap: while the payment is claimed or has been seen claimed,
\* and is not delivered, a notification stays answerable, at every step.
LEMMA AllPaidStep ==
  ASSUME TypeOK, Roles, Sent, Purchases, ClaimedInv, OneJob, AllPaidInv, [Next]_vars
  PROVE  AllPaidInv'
<1>1. /\ scenario' = scenario /\ ProcsOK /\ Boxes
      /\ (Delivered => Delivered')
  BY ScenarioKept, TypeParts, TrialMoves DEF TypeOK, Boxes, Delivered
<1> DEFINE Goal == \E e \in Events : Answerable(e)'
<1>2. AllPaid' = AllPaid /\ kind' = kind /\ gateway' = gateway
  BY <1>1 DEF AllPaid, EventKind, kind, gateway
<1> SUFFICES ASSUME AllPaid, kind = "NEW", gateway = "OTHER", scenario.replays = 0,
                    ~Delivered', Committed'
             PROVE  Goal
  BY <1>1, <1>2 DEF AllPaidInv
<1> HIDE DEF Goal
<1>3. ~Delivered
  BY <1>1
<1>4. Committed => \E e \in Events : Answerable(e)
  BY <1>3 DEF AllPaidInv
<1>5. /\ ~row.linked
      /\ row.fulfilledAt # Null => row.status = "COMPLETED"
      /\ \A p \in Procs : pc[p] # "enqueue"
  BY <1>3 DEF Purchases, PurchaseOf, ClaimedInv
<1>6. ASSUME NEW p \in Procs, pc[p] \notin {"idle", "sweep"}
      PROVE  /\ job[p] \in Events /\ pc[p] \in {"clear", "write", "claim", "provision", "release", "hooks", "ack", "fail"}
             /\ EventKind(job[p]) = "paid"
             /\ inbox[job[p]].status = "PROCESSING"
             /\ \A q \in Procs : job[q] = job[p] => q = p
  <2>1. IsWebhook(p) /\ Fits(pc[p], EventKind(job[p])) /\ inbox[job[p]].status # "ABSENT"
    BY <1>6, OnlyWebhooks DEF Roles, RoleOf
  <2>2. EventKind(job[p]) = "paid"
    BY <2>1 DEF AllPaid, Sent, IsWebhook
  <2>3. pc[p] \in Steps /\ pc[p] \notin {"verify", "enqueue"}
    BY <1>5 DEF TypeOK, Purchases, PurchaseOf
  <2>4. pc[p] \in {"clear", "write", "claim", "provision", "release", "hooks", "ack", "fail"}
    BY <1>6, <2>1, <2>2, <2>3 DEF Fits, Steps
  <2>5. QED
    BY <2>1, <2>2, <2>4 DEF IsWebhook, OneJob
<1>7. ASSUME \A q \in Procs : Same(q), row'.fulfilledAt = row.fulfilledAt,
             \A e \in Events : /\ (Open(e) => Open(e)')
                               /\ (inbox'[e].status = "PROCESSED" => inbox[e].status = "PROCESSED")
      PROVE  Goal
  <2>1. Committed
    BY <1>7 DEF Committed, Same
  <2>2. PICK e \in Events : Answerable(e)
    BY <1>4, <2>1
  <2>3. Answerable(e)'
    BY <1>7, <2>2 DEF Answerable, Waits, Same
  <2>4. QED
    BY <2>3 DEF Goal
<1>8. ASSUME NEW p \in Procs, Others(p), Committed,
             row'.fulfilledAt \in {row.fulfilledAt, Null},
             \A e \in Events : Answerable(e) => /\ Open(e)'
                                                /\ job'[p] = e => Waits(p)'
      PROVE  Goal
  <2>1. PICK e \in Events : Answerable(e)
    BY <1>4, <1>8
  <2>2. Answerable(e)'
    BY <1>8, <2>1, StaysAnswerable
  <2>3. QED
    BY <2>2 DEF Goal
<1>9. \A p \in Procs, e \in Events : Answerable(e) /\ job[p] = e => Waits(p)
  BY DEF Answerable
<1>10. \A e \in Events : inbox' = inbox /\ Answerable(e) => Open(e)'
  BY DEF Answerable, Open
<1>11. NoJob \notin Events /\ "expiry" \notin Events /\ "recovery" \notin Events
  BY NoSweepIsAnEvent
<1>12. ASSUME Settle PROVE Goal
  <2>1. \A e \in Events : Open(e)' <=> Open(e)
    BY <1>12 DEF Open, Settle
  <2>2. QED
    BY <1>1, <1>7, <1>12, <2>1, Unmoved DEF Settle
<1>13. ASSUME GiveBack PROVE Goal
  <2>1. \A e \in Events : Open(e)' <=> Open(e)
    BY <1>13 DEF Open, GiveBack
  <2>2. QED
    BY <1>1, <1>7, <1>13, <2>1, Unmoved DEF GiveBack
<1>14. ASSUME LeaseAges PROVE Goal
  <2>1. \A e \in Events : Open(e)' <=> Open(e)
    BY <1>14 DEF Open, LeaseAges
  <2>2. QED
    BY <1>1, <1>7, <1>14, <2>1, Unmoved DEF LeaseAges
<1>15. ASSUME NEW e \in Events, Notify(e) PROVE Goal
  <2>1. \A f \in Events : /\ (Open(f) => Open(f)')
                        /\ (inbox'[f].status = "PROCESSED" => inbox[f].status = "PROCESSED")
    BY <1>15, BoxEffects DEF OtherBoxes, Open
  <2>2. (\A q \in Procs : Same(q)) /\ row' = row
    BY <1>1, <1>15, Unmoved DEF Notify
  <2>3. QED
    BY <1>7, <2>1, <2>2
<1>16. ASSUME NEW e \in Events, AutoRetry(e) PROVE Goal
  <2>1. \A f \in Events : /\ (Open(f) => Open(f)')
                        /\ (inbox'[f].status = "PROCESSED" => inbox[f].status = "PROCESSED")
    BY <1>16, BoxEffects DEF OtherBoxes, Open
  <2>2. (\A q \in Procs : Same(q)) /\ row' = row
    BY <1>1, <1>16, Unmoved DEF AutoRetry
  <2>3. QED
    BY <1>7, <2>1, <2>2
<1>17. ASSUME NEW e \in Events, Replay(e) PROVE Goal
  BY <1>1, <1>17 DEF Replay, Boxes, InboxRows
<1>18. ASSUME NEW p \in Procs, SweepLoad(p) PROVE Goal
  <2>1. inbox' = inbox
    BY <1>18 DEF SweepLoad
  <2>2. /\ Others(p) /\ job'[p] \in {"expiry", NoJob} /\ pc'[p] \in {"sweep", "idle"}
        /\ row'.fulfilledAt = row.fulfilledAt
    BY <1>18, StartEffects DEF Starts, Ends
  <2>3. Committed
    BY <2>1, <2>2 DEF Committed, Others, Same
  <2>4. QED
    BY <1>8, <1>10, <1>11, <2>1, <2>2, <2>3
<1>19. ASSUME NEW p \in Procs, RecoveryLoad(p) PROVE Goal
  BY <1>19 DEF RecoveryLoad
<1>20. ASSUME NEW p \in Procs, HoldForReview(p) PROVE Goal
  BY <1>6, <1>20, HoldEffect
<1>21. ASSUME NEW p \in Procs, ClearStale(p) PROVE Goal
  <2>1. inbox' = inbox
    BY <1>21 DEF ClearStale
  <2>2. job[p] \in Events /\ EventKind(job[p]) = "paid" /\ IsWebhook(p)
    BY <1>6, <1>21, ClearEffect DEF IsWebhook
  <2>3. /\ Others(p) /\ pc[p] = "clear" /\ pc'[p] = "write" /\ job'[p] = job[p]
        /\ row'.fulfilledAt \in {row.fulfilledAt, Null}
    BY <1>21, <2>2, ClearEffect DEF Goes, AfterClear, NextStatus
  <2>4. Committed
    BY <2>1, <2>3 DEF Committed, Others, Same
  <2>5. ASSUME Answerable(job[p]) PROVE Waits(p)'
    <3>1. Waits(p)
      BY <1>9, <2>2, <2>5
    <3>2. QED
      BY <3>1, <2>2, <2>3, <1>21, ClearEffect DEF Waits
  <2>6. QED
    BY <1>8, <1>10, <2>1, <2>3, <2>4, <2>5
<1>22. ASSUME NEW p \in Procs, DropTrial(p) PROVE Goal
  BY <1>6, <1>22, QuietEffects
<1>23. ASSUME NEW p \in Procs, Confirmed(p) PROVE Goal
  BY <1>6, <1>23, QuietEffects
<1>24. ASSUME NEW p \in Procs, Unavailable(p) PROVE Goal
  BY <1>6, <1>24, UnavailableEffect
<1>25. ASSUME NEW p \in Procs, WriteStatus(p) PROVE Goal
  <2>1. inbox' = inbox
    BY <1>25 DEF WriteStatus
  <2>2. job[p] \in Events /\ EventKind(job[p]) = "paid" /\ IsWebhook(p)
    BY <1>6, <1>25, WriteEffect DEF IsWebhook
  <2>3. /\ Others(p) /\ pc[p] = "write" /\ pc'[p] = "claim" /\ job'[p] = job[p]
        /\ row'.fulfilledAt \in {row.fulfilledAt, Null}
    BY <1>25, <2>2, WriteEffect DEF Goes, NextStatus
  <2>4. Committed
    BY <2>1, <2>3 DEF Committed, Others, Same
  <2>5. ASSUME Answerable(job[p]) PROVE Waits(p)'
    <3>1. Waits(p)
      BY <1>9, <2>2, <2>5
    <3>2. QED
      BY <3>1, <2>2, <2>3, <1>25, WriteEffect DEF Waits
  <2>6. QED
    BY <1>8, <1>10, <2>1, <2>3, <2>4, <2>5
<1>26. ASSUME NEW p \in Procs, Ack(p) PROVE Goal
  <2>1. /\ Others(p) /\ pc'[p] = "idle" /\ row' = row /\ job'[p] = NoJob /\ pc[p] = "ack"
    BY <1>26, QuietEffects DEF Ends
  <2>2. job[p] \in Events
    BY <1>6, <2>1
  <2>3. Committed
    BY <1>26, <2>1, <2>2, EventEffects DEF Committed, Others, Same, OtherBoxes, IsWebhook
  <2>4. ASSUME NEW f \in Events, Answerable(f) PROVE Open(f)'
    <3>1. job[p] = f => pc[p] # "ack"
      BY <1>9, <2>4 DEF Waits
    <3>2. QED
      BY <1>26, <2>1, <2>2, <2>4, <3>1, EventEffects DEF Answerable, Open, OtherBoxes, IsWebhook
  <2>5. QED
    BY <1>8, <1>11, <2>1, <2>3, <2>4
<1>27. ASSUME NEW p \in Procs, FailEvent(p) PROVE Goal
  <2>1. /\ Others(p) /\ pc'[p] = "idle" /\ row' = row /\ job'[p] = NoJob /\ pc[p] = "fail"
    BY <1>27, QuietEffects DEF Ends
  <2>2. job[p] \in Events
    BY <1>6, <2>1
  <2>3. Committed
    BY <1>27, <2>1, <2>2, EventEffects DEF Committed, Others, Same, OtherBoxes, IsWebhook
  <2>4. ASSUME NEW f \in Events, Answerable(f) PROVE Open(f)'
    <3>1. job[p] = f => pc[p] # "ack"
      BY <1>9, <2>4 DEF Waits
    <3>2. QED
      BY <1>27, <2>1, <2>2, <2>4, <3>1, EventEffects DEF Answerable, Open, OtherBoxes, IsWebhook
  <2>5. QED
    BY <1>8, <1>11, <2>1, <2>3, <2>4
<1>28. ASSUME NEW p \in Procs, Claim(p) PROVE Goal
  <2>1. /\ pc[p] = "claim" /\ job[p] \in Events /\ inbox[job[p]].status = "PROCESSING"
        /\ \A q \in Procs : job[q] = job[p] => q = p
    BY <1>6, <1>28, ClaimEffect
  <2>2. Open(job[p])'
    BY <1>28, <2>1 DEF Claim, Open
  <2>3. ASSUME NEW q \in Procs, job'[q] = job[p] PROVE Waits(q)'
    <3>1. q = p
      BY <1>28, <2>1, <2>3, ClaimEffect DEF Others, Same
    <3>2. QED
      BY <1>28, <3>1, ClaimEffect DEF Waits
  <2>4. PICK f \in Events : f = job[p]
    BY <2>1
  <2>5. Open(f)'
    BY <2>2, <2>4, <1>28 DEF Open, Claim
  <2>6. Answerable(f)'
    BY <2>3, <2>4, <2>5 DEF Answerable
  <2>7. QED
    BY <2>6 DEF Goal
<1>29. ASSUME NEW p \in Procs, LoseClaim(p) PROVE Goal
  <2>1. inbox' = inbox
    BY <1>29 DEF LoseClaim
  <2>2. job[p] \in Events /\ EventKind(job[p]) = "paid" /\ IsWebhook(p)
    BY <1>6, <1>29, BranchEffects DEF IsWebhook
  <2>3. /\ Others(p) /\ pc[p] = "claim" /\ pc'[p] = "hooks" /\ job'[p] = job[p]
        /\ row'.fulfilledAt \in {row.fulfilledAt, Null}
    BY <1>29, <2>2, BranchEffects DEF Goes, MayClaim
  <2>4. row.fulfilledAt # Null /\ Committed
    BY <1>29, <1>11, <2>2, BranchEffects DEF MayClaim, Committed
  <2>5. ASSUME Answerable(job[p]) PROVE Waits(p)'
    <3>1. Waits(p)
      BY <1>9, <2>2, <2>5
    <3>2. QED
      BY <3>1, <2>2, <2>3, <2>4 DEF Waits
  <2>6. QED
    BY <1>8, <1>10, <2>1, <2>3, <2>4, <2>5
<1>30. ASSUME NEW p \in Procs, Provision(p) PROVE Goal
  BY <1>30 DEF Provision, Delivered
<1>31. ASSUME NEW p \in Procs, ProvisionFails(p) PROVE Goal
  <2>1. inbox' = inbox
    BY <1>31 DEF ProvisionFails
  <2>2. job[p] \in Events /\ EventKind(job[p]) = "paid" /\ IsWebhook(p)
    BY <1>6, <1>31, QuietEffects DEF IsWebhook
  <2>3. /\ Others(p) /\ pc[p] = "provision" /\ pc'[p] = "release" /\ job'[p] = job[p]
        /\ row'.fulfilledAt \in {row.fulfilledAt, Null}
    BY <1>31, <2>2, QuietEffects DEF Goes
  <2>4. Committed
    BY <2>1, <2>3 DEF Committed, Others, Same
  <2>5. ASSUME Answerable(job[p]) PROVE Waits(p)'
    <3>1. Waits(p)
      BY <1>9, <2>2, <2>5
    <3>2. QED
      BY <2>3 DEF Waits
  <2>6. QED
    BY <1>8, <1>10, <2>1, <2>3, <2>4, <2>5
<1>32. ASSUME NEW p \in Procs, ReleaseClaim(p) PROVE Goal
  <2>1. inbox' = inbox
    BY <1>32 DEF ReleaseClaim
  <2>2. job[p] \in Events /\ EventKind(job[p]) = "paid" /\ IsWebhook(p)
    BY <1>6, <1>32, ReleaseEffect DEF IsWebhook
  <2>3. /\ Others(p) /\ pc[p] = "release" /\ pc'[p] = "fail" /\ job'[p] = job[p]
        /\ row'.fulfilledAt \in {row.fulfilledAt, Null}
    BY <1>32, <2>2, ReleaseEffect DEF Goes
  <2>4. Committed
    BY <2>1, <2>3 DEF Committed, Others, Same
  <2>5. ASSUME Answerable(job[p]) PROVE Waits(p)'
    <3>1. Waits(p)
      BY <1>9, <2>2, <2>5
    <3>2. QED
      BY <2>3 DEF Waits
  <2>6. QED
    BY <1>8, <1>10, <2>1, <2>3, <2>4, <2>5
<1>33. ASSUME NEW p \in Procs, EnqueueSync(p) PROVE Goal
  BY <1>6, <1>33, BranchEffects
<1>34. ASSUME NEW p \in Procs, EnqueueFails(p) PROVE Goal
  BY <1>6, <1>34, BranchEffects
<1>35. ASSUME NEW p \in Procs, Hooks(p) PROVE Goal
  <2>1. inbox' = inbox
    BY <1>35 DEF Hooks
  <2>2. job[p] \in Events /\ EventKind(job[p]) = "paid" /\ IsWebhook(p)
    BY <1>6, <1>35, BranchEffects DEF IsWebhook
  <2>3. /\ Others(p) /\ pc[p] = "hooks" /\ pc'[p] = "ack" /\ job'[p] = job[p]
        /\ row'.fulfilledAt \in {row.fulfilledAt, Null}
    BY <1>35, <2>2, BranchEffects DEF Goes
  <2>4. Committed
    BY <2>3 DEF Committed
  <2>5. ASSUME Answerable(job[p]) PROVE Waits(p)'
    <3>1. Waits(p)
      BY <1>9, <2>2, <2>5
    <3>2. QED
      BY <3>1, <2>2, <2>3 DEF Waits
  <2>6. QED
    BY <1>8, <1>10, <2>1, <2>3, <2>4, <2>5
<1>36. ASSUME NEW p \in Procs, LockLedger(p) PROVE Goal
  BY <1>6, <1>36, LedgerEffect
<1>37. ASSUME NEW p \in Procs, UndoPayout(p) PROVE Goal
  BY <1>6, <1>37, QuietEffects
<1>38. ASSUME NEW p \in Procs, Revoke(p) PROVE Goal
  BY <1>6, <1>38, QuietEffects
<1>39. ASSUME NEW p \in Procs, StampReversal(p) PROVE Goal
  BY <1>6, <1>39, StampEffect
<1>40. ASSUME NEW p \in Procs, SweepCancel(p) PROVE Goal
  <2>1. inbox' = inbox
    BY <1>40 DEF SweepCancel
  <2>2. /\ Others(p) /\ job'[p] \in {"expiry", NoJob} /\ pc'[p] \in {"sweep", "idle"}
        /\ row'.fulfilledAt = row.fulfilledAt
    BY <1>40, CancelEffect DEF Starts, Ends
  <2>3. Committed
    BY <2>1, <2>2 DEF Committed, Others, Same
  <2>4. QED
    BY <1>8, <1>10, <1>11, <2>1, <2>2, <2>3
<1>41. ASSUME NEW p \in Procs, SweepPoll(p) PROVE Goal
  BY <1>41 DEF SweepPoll, LocalTtl
<1>42. ASSUME NEW p \in Procs, SweepKeep(p) PROVE Goal
  <2>1. inbox' = inbox
    BY <1>42 DEF SweepKeep
  <2>2. /\ Others(p) /\ job'[p] \in {"expiry", NoJob} /\ pc'[p] \in {"sweep", "idle"}
        /\ row'.fulfilledAt = row.fulfilledAt
    BY <1>42, QuietEffects DEF Starts, Ends
  <2>3. Committed
    BY <2>1, <2>2 DEF Committed, Others, Same
  <2>4. QED
    BY <1>8, <1>10, <1>11, <2>1, <2>2, <2>3
<1>43. ASSUME NEW p \in Procs, Crash(p) PROVE Goal
  <2>1. /\ Others(p) /\ pc'[p] = "idle" /\ row' = row /\ job'[p] = NoJob
    BY <1>43, QuietEffects DEF Ends
  <2>2. \A f \in Events : inbox'[f].status = inbox[f].status
    BY <1>43, EventEffects DEF OtherBoxes, Crash
  <2>3. Committed
    BY <2>1, <2>2 DEF Committed, Others, Same
  <2>4. QED
    BY <1>8, <1>11, <2>1, <2>2, <2>3 DEF Answerable, Open
<1>44. ASSUME NEW p \in Procs, NEW e \in Events, Load(p, e) PROVE Goal
  <2>1. /\ Others(p) /\ pc[p] = "idle" /\ pc'[p] = FirstStep(EventKind(e)) /\ row' = row
        /\ job'[p] = e /\ snap'[p] = row
    BY <1>44, StartEffects DEF Starts
  <2>2. EventKind(e) = "paid"
    <3>1. inbox'[e].status # "ABSENT" /\ inbox[e].status # "ABSENT"
      BY <1>44, BoxEffects DEF Sent
    <3>2. QED
      BY <3>1 DEF Sent, AllPaid
  <2>3. /\ FirstStep("paid") \in {"clear", "fail", "write"}
        /\ FirstStep("paid") = "write" => row.fulfilledAt = Null
    BY <1>5 DEF FirstStep, ClaimedStep, StepFor, NextStatus
  <2>4. \A f \in Events : /\ (Open(f) => Open(f)')
                        /\ (inbox'[f].status = "PROCESSED" => inbox[f].status = "PROCESSED")
    BY <1>44, BoxEffects DEF OtherBoxes, Open
  <2>5. pc'[p] \notin {"hooks", "ack"} /\ Waits(p)'
    BY <2>1, <2>2, <2>3 DEF Waits
  <2>6. Committed
    <3>1. CASE \E q \in Procs : pc'[q] \in {"hooks", "ack"}
      BY <2>1, <2>5, <3>1 DEF Committed, Others, Same
    <3>2. CASE \E f \in Events : inbox'[f].status = "PROCESSED"
      BY <2>4, <3>2 DEF Committed
    <3>3. CASE row'.fulfilledAt # Null
      BY <2>1, <3>3 DEF Committed
    <3>4. QED
      BY <3>1, <3>2, <3>3 DEF Committed
  <2>7. \A f \in Events : Answerable(f) => Open(f)' /\ (job'[p] = f => Waits(p)')
    BY <2>4, <2>5 DEF Answerable
  <2>8. QED
    BY <1>8, <2>1, <2>6, <2>7
<1>45. CASE UNCHANGED vars
  <2>1. \A e \in Events : Open(e)' <=> Open(e)
    BY <1>45 DEF Open, vars
  <2>2. QED
    BY <1>1, <1>7, <1>45, <2>1, Unmoved DEF vars
<1>46. QED
  BY <1>12, <1>13, <1>14, <1>15, <1>16, <1>17, <1>18, <1>19, <1>20, <1>21,
     <1>22, <1>23, <1>24, <1>25, <1>26, <1>27, <1>28, <1>29, <1>30, <1>31,
     <1>32, <1>33, <1>34, <1>35, <1>36, <1>37, <1>38, <1>39, <1>40, <1>41,
     <1>42, <1>43, <1>44, <1>45 DEF Next, Continue, WebhookStep, FulfilStep,
     ReversalStep, SweepStep

\* Handlers that do not overlap, or captures only, or a payment delivered long ago.
LEMMA UndisturbedMeans ==
  ASSUME Undisturbed
  PROVE  \/ Serial
         \/ AllPaid
         \/ LongAgo /\ \A e \in Events : EventKind(e) \in {"refund", "nothing"}
  BY DEF Undisturbed, Serial, AllPaid, LongAgo, Paid

\* A payment that can still be paid keeps its reservation, at every step.
LEMMA PendingStep ==
  ASSUME TypeOK, Roles, Sent, SerialInv, LongAgoInv, PendingKeepsTrial, [Next]_vars
  PROVE  PendingKeepsTrial'
<1> DEFINE Kept == row.status = "PENDING" => trial # "RELEASED"
<1>1. scenario' = scenario /\ LongAgoInv'
  BY ScenarioKept, LongAgoStep
<1> SUFFICES ASSUME Undisturbed PROVE Kept'
  BY <1>1 DEF PendingKeepsTrial, Undisturbed, EventKind
<1>2. Kept
  BY DEF PendingKeepsTrial
<1>3. LongAgo => Kept'
  BY <1>1 DEF LongAgoInv, LongAgo, Paid, EventKind
<1>4. SUFFICES ASSUME Serial \/ AllPaid PROVE Kept'
  BY <1>3, UndisturbedMeans
<1>5. ASSUME row'.status = "PENDING" => row.status = "PENDING",
             trial' \in {trial, ConsumedTrial}
      PROVE  Kept'
  BY <1>2, <1>5 DEF ConsumedTrial
<1>6. ASSUME NEW p \in Procs, pc[p] \in {"dropTrial", "write"}
      PROVE  /\ pc[p] = "dropTrial" => row.status # "PENDING"
             /\ NextStatus(EventKind(job[p])) = "PENDING" /\ pc[p] = "write" =>
                  row.status = "PENDING"
  <2>1. CASE Serial
    BY <1>6, <2>1 DEF SerialInv, Knows, NextStatus
  <2>2. CASE AllPaid
    <3>1. IsWebhook(p) /\ Fits(pc[p], EventKind(job[p])) /\ inbox[job[p]].status # "ABSENT"
      BY <1>6 DEF Roles, RoleOf, TypeOK, IsWebhook
    <3>2. EventKind(job[p]) = "paid"
      BY <2>2, <3>1 DEF AllPaid, Sent, IsWebhook
    <3>3. QED
      BY <3>1, <3>2 DEF Fits, NextStatus
  <2>3. QED
    BY <1>4, <2>1, <2>2
<1> HIDE DEF Kept
<1>7. ASSUME Settle PROVE Kept'
  BY <1>5, <1>7 DEF Settle, envVars
<1>8. ASSUME GiveBack PROVE Kept'
  BY <1>5, <1>8 DEF GiveBack, envVars
<1>9. ASSUME LeaseAges PROVE Kept'
  BY <1>5, <1>9 DEF LeaseAges, envVars
<1>10. ASSUME NEW e \in Events, Notify(e) PROVE Kept'
  BY <1>5, <1>10 DEF Notify, envVars
<1>11. ASSUME NEW e \in Events, AutoRetry(e) PROVE Kept'
  BY <1>5, <1>11 DEF AutoRetry, envVars
<1>12. ASSUME NEW e \in Events, Replay(e) PROVE Kept'
  BY <1>5, <1>12 DEF Replay, envVars
<1>13. ASSUME NEW p \in Procs, SweepLoad(p) PROVE Kept'
  BY <1>5, <1>13, StartEffects DEF SweepLoad
<1>14. ASSUME NEW p \in Procs, RecoveryLoad(p) PROVE Kept'
  BY <1>5, <1>14, StartEffects DEF RecoveryLoad
<1>15. ASSUME NEW p \in Procs, HoldForReview(p) PROVE Kept'
  BY <1>5, <1>15, HoldEffect DEF HoldForReview
<1>16. ASSUME NEW p \in Procs, ClearStale(p) PROVE Kept'
  BY <1>5, <1>16, ClearEffect DEF ClearStale
<1>17. ASSUME NEW p \in Procs, DropTrial(p) PROVE Kept'
  <2>1. row'.status # "PENDING" \/ (row' = row /\ trial' = trial)
    BY <1>6, <1>17, QuietEffects
  <2>2. QED
    BY <1>5, <2>1 DEF Kept
<1>18. ASSUME NEW p \in Procs, Confirmed(p) PROVE Kept'
  BY <1>5, <1>18, QuietEffects DEF Confirmed
<1>19. ASSUME NEW p \in Procs, Unavailable(p) PROVE Kept'
  BY <1>5, <1>19, UnavailableEffect DEF Unavailable
<1>20. ASSUME NEW p \in Procs, WriteStatus(p) PROVE Kept'
  <2>1. /\ pc[p] = "write" /\ row'.status = NextStatus(EventKind(job[p]))
        /\ row'.status # "CANCELED" => trial' = trial
    BY <1>20, WriteEffect
  <2>2. QED
    BY <1>5, <1>6, <2>1 DEF Kept
<1>21. ASSUME NEW p \in Procs, Ack(p) PROVE Kept'
  BY <1>5, <1>21, QuietEffects DEF Ack
<1>22. ASSUME NEW p \in Procs, FailEvent(p) PROVE Kept'
  BY <1>5, <1>22, QuietEffects DEF FailEvent
<1>23. ASSUME NEW p \in Procs, Claim(p) PROVE Kept'
  <2>1. trial' = trial
    BY <1>23 DEF Claim
  <2>2. row'.status = "PENDING" => row.status = "PENDING"
    BY <1>23, ClaimEffect
  <2>3. QED
    BY <1>5, <2>1, <2>2
<1>24. ASSUME NEW p \in Procs, LoseClaim(p) PROVE Kept'
  BY <1>5, <1>24, BranchEffects DEF LoseClaim
<1>25. ASSUME NEW p \in Procs, Provision(p) PROVE Kept'
  <2>1. trial' = ConsumedTrial
    BY <1>25 DEF Provision
  <2>2. QED
    BY <2>1 DEF Kept, ConsumedTrial
<1>26. ASSUME NEW p \in Procs, ProvisionFails(p) PROVE Kept'
  BY <1>5, <1>26, QuietEffects DEF ProvisionFails
<1>27. ASSUME NEW p \in Procs, ReleaseClaim(p) PROVE Kept'
  BY <1>5, <1>27, ReleaseEffect DEF ReleaseClaim
<1>28. ASSUME NEW p \in Procs, EnqueueSync(p) PROVE Kept'
  BY <1>5, <1>28, BranchEffects DEF EnqueueSync
<1>29. ASSUME NEW p \in Procs, EnqueueFails(p) PROVE Kept'
  BY <1>5, <1>29, BranchEffects DEF EnqueueFails
<1>30. ASSUME NEW p \in Procs, Hooks(p) PROVE Kept'
  BY <1>5, <1>30, BranchEffects DEF Hooks
<1>31. ASSUME NEW p \in Procs, LockLedger(p) PROVE Kept'
  BY <1>5, <1>31, LedgerEffect DEF LockLedger
<1>32. ASSUME NEW p \in Procs, UndoPayout(p) PROVE Kept'
  BY <1>5, <1>32, QuietEffects DEF UndoPayout
<1>33. ASSUME NEW p \in Procs, Revoke(p) PROVE Kept'
  BY <1>5, <1>33, QuietEffects DEF Revoke
<1>34. ASSUME NEW p \in Procs, StampReversal(p) PROVE Kept'
  BY <1>34, StampEffect DEF Kept
<1>35. ASSUME NEW p \in Procs, SweepCancel(p) PROVE Kept'
  <2>1. row'.status # "PENDING" \/ (row' = row /\ trial' = trial)
    BY <1>6, <1>35, CancelEffect
  <2>2. QED
    BY <1>5, <2>1 DEF Kept
<1>36. ASSUME NEW p \in Procs, SweepPoll(p) PROVE Kept'
  BY <1>5, <1>36, PollEffect DEF SweepPoll
<1>37. ASSUME NEW p \in Procs, SweepKeep(p) PROVE Kept'
  BY <1>5, <1>37, QuietEffects DEF SweepKeep
<1>38. ASSUME NEW p \in Procs, Crash(p) PROVE Kept'
  BY <1>5, <1>38, QuietEffects DEF Crash
<1>39. ASSUME NEW p \in Procs, NEW e \in Events, Load(p, e) PROVE Kept'
  BY <1>5, <1>39, StartEffects DEF Load
<1>40. CASE UNCHANGED vars
  BY <1>5, <1>40 DEF vars
<1>41. QED
  BY <1>7, <1>8, <1>9, <1>10, <1>11, <1>12, <1>13, <1>14, <1>15, <1>16, <1>17,
     <1>18, <1>19, <1>20, <1>21, <1>22, <1>23, <1>24, <1>25, <1>26, <1>27,
     <1>28, <1>29, <1>30, <1>31, <1>32, <1>33, <1>34, <1>35, <1>36, <1>37,
     <1>38, <1>39, <1>40 DEF Next, Continue, WebhookStep, FulfilStep,
     ReversalStep, SweepStep

\* What no handler takes back, at every step.
LEMMA TakenBackStep ==
  ASSUME TypeOK, Roles, Sent, Unheld, Unreversed, SerialInv, LongAgoInv, [Next]_vars,
         Undisturbed
  PROVE  CompletedStays /\ HoldStays /\ ReversalStays
<1> DEFINE Calm == CompletedStays /\ HoldStays /\ ReversalStays
<1>1. ASSUME row' = row PROVE Calm
  BY <1>1 DEF CompletedStays, HoldStays, ReversalStays
<1>2. ASSUME NEW p \in Procs, pc[p] \notin {"idle", "sweep"}, job[p] \notin {"expiry", "recovery"}
      PROVE  /\ IsWebhook(p) /\ Fits(pc[p], EventKind(job[p]))
             /\ EventKind(job[p]) # "nothing"
             /\ EventKind(job[p]) = "refund" => refunded
  BY <1>2 DEF TypeOK, Roles, RoleOf, Sent, IsWebhook
<1>3. ASSUME NEW p \in Procs
      PROVE  job[p] \in {"expiry", "recovery"} =>
               pc[p] \notin {"hold", "verify", "write", "stamp"}
  BY DEF Roles, RoleOf
<1>4. ASSUME NEW p \in Procs
      PROVE  /\ row.hold = "manual" /\ pc[p] \in {"verify", "write", "stamp", "sweep"} =>
                  snap[p].hold = "manual"
             /\ row.reversed /\ pc[p] \in {"hold", "verify", "write", "sweep"} =>
                  snap[p].reversed
             /\ pc[p] = "write" /\ row.status = "COMPLETED" => EventKind(job[p]) = "paid"
             /\ pc[p] = "stamp" => refunded
  <2>1. pc[p] = "stamp" => refunded
    BY <1>2, <1>3 DEF Fits
  <2>2. CASE Serial
    BY <2>1, <2>2 DEF SerialInv, Knows
  <2>3. CASE AllPaid
    <3>1. row.hold # "manual" /\ ~row.reversed
      BY <2>3 DEF AllPaid, Unheld, Unreversed
    <3>2. pc[p] = "write" => EventKind(job[p]) = "paid"
      BY <1>2, <1>3, <2>3 DEF AllPaid, IsWebhook
    <3>3. QED
      BY <2>1, <3>1, <3>2
  <2>4. CASE LongAgo /\ \A e \in Events : EventKind(e) \in {"refund", "nothing"}
    <3>1. row.hold # "manual"
      BY <2>4 DEF Unheld
    <3>2. pc[p] \notin {"verify", "write", "sweep"}
      BY <2>4 DEF LongAgoInv, LongAgoOf
    <3>3. pc[p] # "hold"
      BY <1>2, <1>3, <2>4 DEF Fits, IsWebhook
    <3>4. QED
      BY <2>1, <3>1, <3>2, <3>3
  <2>5. QED
    BY <2>2, <2>3, <2>4, UndisturbedMeans
<1>5. \A r \in Rows : r.reversed \in BOOLEAN
  BY DEF Rows
<1>6. row \in Rows /\ \A p \in Procs : snap[p] \in Rows
  BY DEF TypeOK
<1>7. ASSUME row'.status = row.status, row'.hold = row.hold, row'.reversed = row.reversed
      PROVE  Calm
  BY <1>7 DEF CompletedStays, HoldStays, ReversalStays
<1> HIDE DEF Calm
<1>8. ASSUME Settle PROVE Calm
  BY <1>1, <1>8 DEF Settle, envVars
<1>9. ASSUME GiveBack PROVE Calm
  BY <1>1, <1>9 DEF GiveBack, envVars
<1>10. ASSUME LeaseAges PROVE Calm
  BY <1>1, <1>10 DEF LeaseAges, envVars
<1>11. ASSUME NEW e \in Events, Notify(e) PROVE Calm
  BY <1>1, <1>11 DEF Notify, envVars
<1>12. ASSUME NEW e \in Events, AutoRetry(e) PROVE Calm
  BY <1>1, <1>12 DEF AutoRetry, envVars
<1>13. ASSUME NEW e \in Events, Replay(e) PROVE Calm
  BY <1>1, <1>13 DEF Replay, envVars
<1>14. ASSUME NEW p \in Procs, SweepLoad(p) PROVE Calm
  BY <1>1, <1>14, StartEffects
<1>15. ASSUME NEW p \in Procs, RecoveryLoad(p) PROVE Calm
  BY <1>1, <1>15, StartEffects
<1>16. ASSUME NEW p \in Procs, HoldForReview(p) PROVE Calm
  BY <1>4, <1>5, <1>6, <1>16, HoldEffect DEF Calm, CompletedStays, HoldStays,
     ReversalStays
<1>17. ASSUME NEW p \in Procs, ClearStale(p) PROVE Calm
  BY <1>7, <1>17, ClearEffect
<1>18. ASSUME NEW p \in Procs, DropTrial(p) PROVE Calm
  BY <1>1, <1>18, QuietEffects
<1>19. ASSUME NEW p \in Procs, Confirmed(p) PROVE Calm
  BY <1>1, <1>19, QuietEffects
<1>20. ASSUME NEW p \in Procs, Unavailable(p) PROVE Calm
  BY <1>4, <1>5, <1>6, <1>20, UnavailableEffect DEF Calm, CompletedStays,
     HoldStays, ReversalStays
<1>21. ASSUME NEW p \in Procs, WriteStatus(p) PROVE Calm
  BY <1>4, <1>5, <1>6, <1>21, WriteEffect DEF Calm, CompletedStays, HoldStays,
     ReversalStays, Lifted, NextStatus
<1>22. ASSUME NEW p \in Procs, Ack(p) PROVE Calm
  BY <1>1, <1>22, QuietEffects
<1>23. ASSUME NEW p \in Procs, FailEvent(p) PROVE Calm
  BY <1>1, <1>23, QuietEffects
<1>24. ASSUME NEW p \in Procs, Claim(p) PROVE Calm
  BY <1>24, ClaimEffect DEF Calm, CompletedStays, HoldStays, ReversalStays
<1>25. ASSUME NEW p \in Procs, LoseClaim(p) PROVE Calm
  BY <1>1, <1>25, BranchEffects
<1>26. ASSUME NEW p \in Procs, Provision(p) PROVE Calm
  BY <1>26, ProvisionEffect DEF Calm, CompletedStays, HoldStays, ReversalStays
<1>27. ASSUME NEW p \in Procs, ProvisionFails(p) PROVE Calm
  BY <1>1, <1>27, QuietEffects
<1>28. ASSUME NEW p \in Procs, ReleaseClaim(p) PROVE Calm
  BY <1>7, <1>28, ReleaseEffect
<1>29. ASSUME NEW p \in Procs, EnqueueSync(p) PROVE Calm
  BY <1>1, <1>29, BranchEffects
<1>30. ASSUME NEW p \in Procs, EnqueueFails(p) PROVE Calm
  BY <1>1, <1>30, BranchEffects
<1>31. ASSUME NEW p \in Procs, Hooks(p) PROVE Calm
  BY <1>1, <1>31, BranchEffects
<1>32. ASSUME NEW p \in Procs, LockLedger(p) PROVE Calm
  BY <1>1, <1>32, LedgerEffect
<1>33. ASSUME NEW p \in Procs, UndoPayout(p) PROVE Calm
  BY <1>1, <1>33, QuietEffects
<1>34. ASSUME NEW p \in Procs, Revoke(p) PROVE Calm
  BY <1>1, <1>34, QuietEffects
<1>35. ASSUME NEW p \in Procs, StampReversal(p) PROVE Calm
  BY <1>4, <1>5, <1>6, <1>35, StampEffect DEF Calm, CompletedStays, HoldStays,
     ReversalStays
<1>36. ASSUME NEW p \in Procs, SweepCancel(p) PROVE Calm
  BY <1>4, <1>5, <1>6, <1>36, CancelEffect DEF Calm, CompletedStays,
     HoldStays, ReversalStays
<1>37. ASSUME NEW p \in Procs, SweepPoll(p) PROVE Calm
  BY <1>4, <1>5, <1>6, <1>37, PollEffect DEF Calm, CompletedStays, HoldStays,
     ReversalStays
<1>38. ASSUME NEW p \in Procs, SweepKeep(p) PROVE Calm
  BY <1>1, <1>38, QuietEffects
<1>39. ASSUME NEW p \in Procs, Crash(p) PROVE Calm
  BY <1>1, <1>39, QuietEffects
<1>40. ASSUME NEW p \in Procs, NEW e \in Events, Load(p, e) PROVE Calm
  BY <1>1, <1>40, StartEffects
<1>41. CASE UNCHANGED vars
  BY <1>1, <1>41 DEF vars, Calm
<1>42. QED
  BY <1>8, <1>9, <1>10, <1>11, <1>12, <1>13, <1>14, <1>15, <1>16, <1>17,
     <1>18, <1>19, <1>20, <1>21, <1>22, <1>23, <1>24, <1>25, <1>26, <1>27,
     <1>28, <1>29, <1>30, <1>31, <1>32, <1>33, <1>34, <1>35, <1>36, <1>37,
     <1>38, <1>39, <1>40, <1>41 DEF Calm, Next, Continue, WebhookStep, FulfilStep,
     ReversalStep, SweepStep

(***************************************************************************)
(* The invariant and the theorems.                                         *)
(***************************************************************************)

\* What the handlers are doing, what the claim protocol keeps, and what is known
\* of the row under the conditions of the properties.
Inv ==
    /\ TypeOK
    /\ Roles /\ Sent /\ Leases
    /\ Fences /\ Owners
    /\ Purchases /\ Unheld /\ Unreversed
    /\ SerialInv /\ LongAgoInv /\ OneJob
    /\ ClaimedInv /\ SerialPaidInv /\ AllPaidInv
    /\ PendingKeepsTrial

\* Every handler starts idle and no notification has arrived.
LEMMA AtRest ==
  ASSUME Init
  PROVE  /\ \A p \in Procs : /\ pc[p] = "idle" /\ job[p] = NoJob /\ ~IsWebhook(p)
                             /\ snap[p] = NoRow /\ claimedAt[p] = Null
         /\ \A e \in Events : inbox[e].status = "ABSENT" /\ inbox[e].jobs = 0
         /\ ~aged /\ ~refunded
         /\ NoRow.hold = "none" /\ NoRow.reversed = FALSE
  BY NoSweepIsAnEvent DEF Init, IsWebhook, NoRow

\* The two places a payment starts from.
LEMMA TwoStarts ==
  ASSUME Init
  PROVE  \/ /\ scenario.history = "draft" /\ row.status = "PENDING"
            /\ row.fulfilledAt = Null /\ row.linked = (kind = "RENEW")
            /\ row.hold = "none" /\ row.reversed = FALSE
            /\ clock = 1 /\ deliveredAt = {} /\ trial \in {"NONE", "RESERVED"}
         \/ /\ scenario.history = "fulfilled" /\ row.status = "COMPLETED"
            /\ row.fulfilledAt = 1 /\ row.linked = TRUE
            /\ row.hold = "none" /\ row.reversed = FALSE
            /\ clock = 2 /\ deliveredAt = {1} /\ trial \in {"NONE", "CONSUMED"}
<1>1. scenario.history \in {"draft", "fulfilled"}
  BY TypeInit, ScenarioIs
<1>2. CASE scenario.history = "draft"
  <2>1. Draft
    BY <1>2 DEF Init
  <2>2. PICK l \in {kind = "RENEW"}, g \in {"none", "claim", "real"} :
          row = [status |-> "PENDING", fulfilledAt |-> Null, linked |-> l,
                 gatewayId |-> g, hold |-> "none", reversed |-> FALSE]
    BY <2>1 DEF Draft
  <2>3. QED
    BY <1>2, <2>1, <2>2, DraftTyped
<1>3. CASE scenario.history = "fulfilled"
  <2>1. Fulfilled
    BY <1>3 DEF Init
  <2>2. QED
    BY <1>3, <2>1 DEF Fulfilled
<1>4. QED
  BY <1>1, <1>2, <1>3

\* The invariant holds at the start.
LEMMA InvInit ==
  ASSUME Init
  PROVE  Inv
<1>1. TypeOK
  BY TypeInit
<1> USE AtRest, TwoStarts
<1>2. Roles /\ Sent
  BY DEF Roles, RoleOf, Sent, NoJob
<1>3. Leases
  BY DEF Leases, Owning
<1>4. Fences /\ Owners
  <2>1. \A p \in Procs : phases[p] = "idle"
    BY DEF phases, PhaseOf
  <2>2. Stamped
    <3>1. CASE deliveredAt = {} /\ row.fulfilledAt = 0 /\ clock = 1
      BY <3>1 DEF Stamped
    <3>2. CASE deliveredAt = {1} /\ row.fulfilledAt = 1 /\ clock = 2 /\ row.linked = TRUE
      BY <3>2 DEF Stamped
    <3>3. QED
      BY <3>1, <3>2 DEF Null
  <2>3. QED
    BY <2>1, <2>2 DEF Fences, Owners, Fenced, Apart
<1>5. Purchases
  BY DEF Purchases, PurchaseOf, TrialConsumed, Delivered, NoJob
<1>6. Unheld /\ Unreversed
  BY DEF Unheld, Unreversed
<1>7. SerialInv
  BY DEF SerialInv, Alone, Knows
<1>8. LongAgoInv
  <2>1. ASSUME scenario.history = "fulfilled"
        PROVE  /\ row.status = "COMPLETED" /\ row.fulfilledAt = 1 /\ row.linked = TRUE
               /\ row.reversed = FALSE
    BY <2>1
  <2>2. \A p \in Procs : LongAgoOf(p)
    BY DEF LongAgoOf
  <2>3. ASSUME LongAgo
        PROVE  /\ row.status # "PENDING" /\ row.fulfilledAt # Null /\ row.linked
               /\ row.status # "CANCELED" /\ ~row.reversed
    <3>1. scenario.history = "fulfilled"
      BY <2>3 DEF LongAgo
    <3>2. row.fulfilledAt # Null
      BY <2>1, <3>1 DEF Null
    <3>3. row.linked /\ ~row.reversed
      BY <2>1, <3>1
    <3>4. QED
      BY <2>1, <3>1, <3>2, <3>3
  <2>4. QED
    BY <2>2, <2>3 DEF LongAgoInv
<1>9. OneJob
  BY DEF OneJob
<1>10. ClaimedInv
  BY DEF ClaimedInv
<1>11. SerialPaidInv
  BY DEF SerialPaidInv, PaidOf, Paid
<1>12. AllPaidInv
  BY DEF AllPaidInv, Committed, Delivered
<1>13. PendingKeepsTrial
  BY DEF PendingKeepsTrial
<1>14. QED
  BY <1>1, <1>2, <1>3, <1>4, <1>5, <1>6, <1>7, <1>8, <1>9, <1>10, <1>11, <1>12, <1>13
     DEF Inv

\* Every step keeps the invariant.
LEMMA InvStep ==
  ASSUME Inv, [Next]_vars
  PROVE  Inv'
<1> USE DEF Inv
<1>1. TypeOK'
  BY TypeStep
<1>2. Roles' /\ Sent' /\ Leases'
  BY RolesStep, LeasesStep
<1>3. Fences' /\ Owners'
  BY <1>1, RefineStep, FencesStep, OwnersStep
<1>4. Purchases' /\ Unheld' /\ Unreversed'
  BY PurchasesStep, VerdictsStep
<1>5. SerialInv' /\ LongAgoInv' /\ OneJob'
  BY SerialStep, LongAgoStep, OneJobStep
<1>6. ClaimedInv' /\ SerialPaidInv' /\ AllPaidInv'
  BY ClaimedHolds, SerialPaidStep, AllPaidStep
<1>7. PendingKeepsTrial'
  BY PendingStep
<1>8. QED
  BY <1>1, <1>2, <1>3, <1>4, <1>5, <1>6, <1>7

\* The invariant holds in every reachable state.
THEOREM Inductive == Spec => []Inv
  BY InvInit, InvStep, PTL DEF Spec

\* However many handlers, events, failures and crashes there are, the row, the
\* snapshots and the inbox keep their types.
THEOREM TypeCorrect == Spec => []TypeOK
<1>1. Inv => TypeOK
  BY DEF Inv
<1>2. QED
  BY <1>1, Inductive, PTL

\* Workers, poll and recovery sweep together implement the claim protocol.
THEOREM RefinesClaimProtocol == Spec => ImplementsClaim
<1>1. Init => (scenario.history = "draft" => Protocol!Init)
  <2> SUFFICES ASSUME Init, scenario.history = "draft" PROVE Protocol!Init
    OBVIOUS
  <2>1. /\ row.fulfilledAt = 0 /\ clock = 1 /\ deliveredAt = {}
        /\ row.linked = (kind = "RENEW")
    BY TwoStarts DEF Null
  <2>2. kind \in {"NEW", "RENEW", "ADDON"}
    BY TypeInit, ScenarioIs
  <2>3. \A p \in Procs : PhaseOf(p) = "idle" /\ LeaseOf(p) = 0 /\ SeenOf(p) = 0
    BY AtRest DEF PhaseOf, LeaseOf, SeenOf, Null
  <2>4. QED
    BY <2>1, <2>2, <2>3 DEF Protocol!Init, Protocol!Null
<1>2. Inv /\ [Next]_vars => [Protocol!Next]_(Protocol!vars)
  BY RefineStep DEF Inv
<1>3. QED
  BY <1>1, <1>2, Inductive, PTL DEF Spec, ImplementsClaim

\* Whoever races for the payment, it is provisioned at most once when leases
\* outlive provisioning, and the claim of a delivery is never erased.
THEOREM ProvisionedOnce == Spec => [](Protocol!AtMostOnce /\ Protocol!DeliveredStaysClaimed)
<1>1. Inv => Protocol!AtMostOnce /\ Protocol!DeliveredStaysClaimed
  BY FencesAre DEF Inv, Protocol!Stamps, Protocol!Exclusive, Protocol!AtMostOnce
<1>2. QED
  BY <1>1, Inductive, PTL

\* A delivered paid trial stays consumed, and a payment that can still be paid
\* keeps its reservation while its handlers are undisturbed.
THEOREM RowStaysConsistent == Spec => []RowConsistent
<1>1. Inv => RowConsistent
  BY DEF Inv, RowConsistent, Purchases
<1>2. QED
  BY <1>1, Inductive, PTL

\* No undisturbed handler takes back a delivery, a hold or a reversal.
THEOREM NothingIsTakenBack == Spec => NothingTakenBack
<1>1. Inv /\ [Next]_vars =>
        [Undisturbed => CompletedStays /\ HoldStays /\ ReversalStays]_vars
  BY TakenBackStep DEF Inv
<1>2. QED
  BY <1>1, Inductive, PTL DEF Spec, NothingTakenBack

\* A stamped reversal leaves nothing of the payment standing but what a logged
\* failure left.
THEOREM RefundIsUndone == Spec => []RefundUndone
<1>1. Inv => RefundUndone
  BY DEF Inv, LongAgoInv, LongAgo, Undone, Expired, RefundUndone
<1>2. QED
  BY <1>1, Inductive, PTL

\* Captured money for a NEW purchase is not acknowledged away.
THEOREM NewIsNotStranded == Spec => []NewNeverStranded
<1>1. ASSUME Inv PROVE NewNeverStranded
  <2> SUFFICES ASSUME kind = "NEW", gateway = "OTHER", Undisturbed,
                      Serial \/ scenario.replays = 0,
                      NEW f \in Paid, inbox[f].status = "PROCESSED"
               PROVE  \/ Delivered \/ refunded
                      \/ \E e \in Paid : inbox[e].status \in {"ENQUEUED", "PROCESSING", "FAILED"}
    BY DEF NewNeverStranded, NeverStranded, Serial
  <2>1. CASE Serial
    BY <1>1, <2>1 DEF Inv, SerialPaidInv, Safe
  <2>2. CASE AllPaid /\ ~Serial /\ ~Delivered
    <3>1. Committed
      BY DEF Committed, Paid
    <3>2. PICK e \in Events : Answerable(e)
      BY <1>1, <2>2, <3>1 DEF Inv, AllPaidInv
    <3>3. inbox[e].status \in {"ENQUEUED", "PROCESSING", "FAILED"}
      BY <3>2 DEF Answerable, Open
    <3>4. e \in Paid
      BY <1>1, <2>2, <3>3 DEF Inv, Sent, AllPaid, Paid
    <3>5. QED
      BY <3>3, <3>4
  <2>3. CASE LongAgo
    BY <2>3 DEF LongAgo
  <2>4. QED
    BY <2>1, <2>2, <2>3, UndisturbedMeans
<1>2. QED
  BY <1>1, Inductive, PTL
================================================================================
