---------------------------- MODULE InboxAndClaim_proof ----------------------------
(***************************************************************************)
(* What a notification passes on its way to a purchase: the inbox, which   *)
(* brings it to a reconciliation run, and the fulfilment claim, which      *)
(* decides which of the runs provisions.  Both are proved for any number   *)
(* of processes; neither reads what the other keeps.                       *)
(*                                                                         *)
(* The claim has two inductive invariants.  Stamps holds however slow the  *)
(* owners are: it separates the timestamps claimants hold or have observed *)
(* from those the committed provisionings stamped, which is what makes the *)
(* fences enough.  Exclusive adds what the two-minute lease buys when it   *)
(* outlives every provisioning: a claimant that provisions still owns the  *)
(* row.                                                                    *)
(*                                                                         *)
(* The inbox: RowInv holds whatever goes wrong.  CaptureInv is about       *)
(* notifications in order: once the provider has sent the capture nothing  *)
(* older is on its way, so the row keeps the capture, and from then on a   *)
(* request that will add a job, a job, or a worker that has read the       *)
(* capture has it in hand until it is applied or stands FAILED.            *)
(***************************************************************************)
EXTENDS FulfilmentClaim, WebhookInbox, FiniteSetTheorems, TLAPS

-----------------------------------------------------------------------------
(* The claim                                                               *)

\* Every state satisfies the type invariant.
THEOREM TypeCorrect == Spec => []TypeOK
<1>1. Init => TypeOK
  BY KindsAssumption DEF Init, TypeOK, Null, Phases
<1>2. TypeOK /\ [Next]_vars => TypeOK'
  <2> SUFFICES ASSUME TypeOK, [Next]_vars PROVE TypeOK'
    OBVIOUS
  <2> USE DEF TypeOK, Null, Phases, DropLease, Later, Erased
  <2>1. ASSUME NEW c \in Claimants, Claim(c) PROVE TypeOK'
    BY <2>1 DEF Claim
  <2>2. ASSUME NEW c \in Claimants, Deliver(c) PROVE TypeOK'
    BY <2>2 DEF Deliver
  <2>3. ASSUME NEW c \in Claimants, Fail(c) PROVE TypeOK'
    BY <2>3 DEF Fail
  <2>4. ASSUME NEW c \in Claimants, Release(c) PROVE TypeOK'
    BY <2>4 DEF Release
  <2>5. ASSUME NEW c \in Claimants, ObserveStale(c) PROVE TypeOK'
    BY <2>5 DEF ObserveStale, Unfinished
  <2>6. ASSUME NEW c \in Claimants, ClearStale(c) PROVE TypeOK'
    BY <2>6 DEF ClearStale
  <2>7. ASSUME NEW c \in Claimants, Crash(c) PROVE TypeOK'
    BY <2>7 DEF Crash
  <2>8. CASE UNCHANGED vars
    BY <2>8 DEF vars
  <2>9. QED
    BY <2>1, <2>2, <2>3, <2>4, <2>5, <2>6, <2>7, <2>8 DEF Next
<1>3. QED
  BY <1>1, <1>2, PTL DEF Spec

\* The fences separate delivered timestamps from the ones still held.
LEMMA StampsStep ==
    ASSUME TypeOK, Stamps, [Next]_vars
    PROVE  Stamps'
<1> USE DEF TypeOK, Stamps, Null, Phases, Holding, DeliveredStaysClaimed,
            DropLease, Later, Erased
<1>1. ASSUME NEW c \in Claimants, Claim(c) PROVE Stamps'
  BY <1>1 DEF Claim
<1>2. ASSUME NEW c \in Claimants, Deliver(c) PROVE Stamps'
  BY <1>2 DEF Deliver
<1>3. ASSUME NEW c \in Claimants, Fail(c) PROVE Stamps'
  BY <1>3 DEF Fail
<1>4. ASSUME NEW c \in Claimants, Release(c) PROVE Stamps'
  BY <1>4 DEF Release
<1>5. ASSUME NEW c \in Claimants, ObserveStale(c) PROVE Stamps'
  BY <1>5 DEF ObserveStale, Unfinished
<1>6. ASSUME NEW c \in Claimants, ClearStale(c) PROVE Stamps'
  BY <1>6 DEF ClearStale
<1>7. ASSUME NEW c \in Claimants, Crash(c) PROVE Stamps'
  BY <1>7 DEF Crash
<1>8. CASE UNCHANGED vars
  BY <1>8 DEF vars
<1>9. QED
  BY <1>1, <1>2, <1>3, <1>4, <1>5, <1>6, <1>7, <1>8 DEF Next

\* With leases that outlive every provisioning, the owner stays the owner.
LEMMA ExclusiveStep ==
    ASSUME IInv, [Next]_vars
    PROVE  Exclusive'
<1> SUFFICES ASSUME ~LeaseMayBeOvertaken PROVE Exclusive'
  BY DEF Exclusive
<1> USE DEF IInv, TypeOK, Stamps, Exclusive, AtMostOnce, Null, Phases,
            Holding, DeliveredStaysClaimed, DropLease, Later, Erased
<1>1. ASSUME NEW c \in Claimants, Claim(c) PROVE Exclusive'
  BY <1>1 DEF Claim
<1>2. ASSUME NEW c \in Claimants, Deliver(c) PROVE Exclusive'
  BY <1>2 DEF Deliver
<1>3. ASSUME NEW c \in Claimants, Fail(c) PROVE Exclusive'
  BY <1>3 DEF Fail
<1>4. ASSUME NEW c \in Claimants, Release(c) PROVE Exclusive'
  BY <1>4 DEF Release
<1>5. ASSUME NEW c \in Claimants, ObserveStale(c) PROVE Exclusive'
  BY <1>5 DEF ObserveStale, Unfinished, Live
<1>6. ASSUME NEW c \in Claimants, ClearStale(c) PROVE Exclusive'
  BY <1>6 DEF ClearStale
<1>7. ASSUME NEW c \in Claimants, Crash(c) PROVE Exclusive'
  BY <1>7 DEF Crash
<1>8. CASE UNCHANGED vars
  BY <1>8 DEF vars
<1>9. QED
  BY <1>1, <1>2, <1>3, <1>4, <1>5, <1>6, <1>7, <1>8 DEF Next

\* The strengthening is an invariant of the claim protocol.
THEOREM Inductive == Spec => []IInv
<1>1. Init => Stamps /\ Exclusive
  BY DEF Init, Stamps, Exclusive, AtMostOnce, DeliveredStaysClaimed, Holding, Null
<1>2. TypeOK /\ TypeOK' /\ Stamps /\ Exclusive /\ [Next]_vars
        => Stamps' /\ Exclusive'
  BY StampsStep, ExclusiveStep DEF IInv
<1>3. QED
  BY <1>1, <1>2, TypeCorrect, PTL DEF Spec, IInv

\* However many workers, sweeps and requests race for a payment, it is
\* provisioned at most once when leases outlive provisioning.
THEOREM ProvisionedAtMostOnce == Spec => []AtMostOnce
<1>1. IInv => AtMostOnce
  BY DEF IInv, Exclusive, AtMostOnce
<1>2. QED
  BY <1>1, Inductive, PTL

\* A delivered payment is never reopened, even when leases are overtaken.
THEOREM DeliveredNeverReopened == Spec => []DeliveredStaysClaimed
<1>1. IInv => DeliveredStaysClaimed
  BY DEF IInv, Stamps
<1>2. QED
  BY <1>1, Inductive, PTL

\* Two claimants never provision under the same timestamp.
THEOREM SingleHolder == Spec => []OneHolder
<1>1. IInv => OneHolder
  BY DEF IInv, Stamps, Holding, OneHolder
<1>2. QED
  BY <1>1, Inductive, PTL

\* The claim is erased only by its holder's release or by a recovery that
\* observed it.
THEOREM OnlyHolderErases == Spec => ClaimErasedByHolder
<1> DEFINE OnlyByHolder ==
      fulfilledAt # Null /\ fulfilledAt' = Null =>
        \E c \in Claimants :
            /\ phase'[c] = "idle"
            /\ \/ phase[c] = "failed" /\ lease[c] = fulfilledAt
               \/ phase[c] = "recovering" /\ seen[c] = fulfilledAt
<1>1. TypeOK /\ [Next]_vars => [OnlyByHolder]_vars
  <2> SUFFICES ASSUME TypeOK, Next PROVE OnlyByHolder
    OBVIOUS
  <2> USE DEF TypeOK, Null, Phases, DropLease, Later, Erased
  <2>1. PICK c \in Claimants :
          \/ Claim(c) \/ Deliver(c) \/ Fail(c) \/ Release(c)
          \/ ObserveStale(c) \/ ClearStale(c) \/ Crash(c)
    BY DEF Next
  <2>2. CASE Release(c)
    BY <2>2 DEF Release
  <2>3. CASE ClearStale(c)
    BY <2>3 DEF ClearStale
  <2>4. CASE Claim(c) \/ Deliver(c)
    BY <2>4 DEF Claim, Deliver
  <2>5. CASE Fail(c) \/ ObserveStale(c) \/ Crash(c)
    BY <2>5 DEF Fail, ObserveStale, Crash
  <2>6. QED
    BY <2>1, <2>2, <2>3, <2>4, <2>5
<1>2. QED
  BY <1>1, TypeCorrect, PTL DEF Spec, ClaimErasedByHolder

-----------------------------------------------------------------------------
(* The inbox: its invariant                                                *)

Capture == LastPayload

\* Requests and workers are at steps of their own, with what these steps need.
Roles ==
    /\ \A i \in Ingress :
          /\ pc[i] \in {"idle", "find", "create", "refresh", "duplicate", "mark", "add",
                        "addFailed"}
          /\ pc[i] # "idle" => msg[i] \in Payloads
          /\ pc[i] = "idle" => msg[i] = 0
    /\ \A w \in Workers :
          /\ pc[w] \in {"idle", "count", "run", "ack", "fail"}
          /\ pc[w] # "idle" => msg[w] \in Payloads
          /\ pc[w] = "ack" => msg[w] \in applied
          /\ pc[w] = "fail" => spent["failedRuns"] > 0

\* Without a row there is nothing to work on.
RowFirst ==
    row = NoRow =>
        /\ jobs = 0 /\ DOMAIN retries = {} /\ replay = "none"
        /\ \A i \in Ingress : pc[i] \in {"idle", "find", "create"}
        /\ \A w \in Workers : pc[w] = "idle"

\* A retry is numbered by the run it will be.
Numbered == DOMAIN retries \subseteq 1 .. MaxAutoRetries

RowInv == InboxTypeOK /\ Roles /\ RowFirst /\ Numbered

\* The order of the provider: once it has sent the capture, no request carries an
\* older payload.
Sequential ==
    /\ \A i \in Ingress : pc[i] # "idle" => msg[i] <= latest
    /\ latest = Capture => \A i \in Ingress : pc[i] # "idle" => msg[i] = Capture

\* So the row keeps the capture, and whoever answers for it has seen it there.
Recorded ==
    /\ row # NoRow /\ row.payload = Capture => latest = Capture
    /\ Capture \in answered => row.payload = Capture
    /\ \A i \in Ingress :
          /\ pc[i] \in {"duplicate", "mark", "add"} /\ msg[i] = Capture
                => row.payload = Capture
          /\ pc[i] # "addFailed"
    /\ replay = "none"
    /\ \A w \in Workers : task[w] # "replay"

\* Someone has the capture, or will read it from the row.
InHand ==
    \/ \E i \in Ingress : pc[i] \in {"mark", "add"}
    \/ jobs > 0
    \/ \E n \in DOMAIN retries : retries[n] = "waiting"
    \/ \E w \in Workers : pc[w] \in {"count", "run", "fail"} /\ msg[w] = Capture
    \/ /\ row.status = "FAILED"
       /\ \A w \in Workers : pc[w] = "idle" \/ msg[w] = Capture

CaptureInHand ==
    Calm /\ row # NoRow /\ row.payload = Capture /\ Capture \notin applied => InHand

\* At most one worker works when jobs are run one at a time.
Alone ==
    scenario.alone => \A v, w \in Workers : pc[v] # "idle" /\ pc[w] # "idle" => v = w

CaptureInv == Orderly => Sequential /\ Recorded /\ CaptureInHand

InboxInv == RowInv /\ Alone /\ CaptureInv

-----------------------------------------------------------------------------
(* Types                                                                   *)

\* A row keeps its type when its fields change; the absent row is none.
LEMMA RowTyped ==
  /\ NoRow \notin Rows
  /\ \A m \in Payloads : FreshRow(m) \in Rows
  /\ \A r \in Rows, s \in Lifecycle : [r EXCEPT !.status = s] \in Rows
  /\ \A r \in Rows, s \in Lifecycle, m \in Payloads :
        [r EXCEPT !.payload = m, !.status = s] \in Rows
  /\ \A r \in Rows, s \in Lifecycle : [r EXCEPT !.status = s, !.runs = @ + 1] \in Rows
<1>1. NoRow \notin Rows
  <2>1. \A r \in Rows : r.payload \in Payloads
    BY DEF Rows
  <2> QED
    BY <2>1 DEF NoRow, Payloads
<1>2. ASSUME NEW m \in Payloads PROVE FreshRow(m) \in Rows
  BY DEF Rows, FreshRow, Lifecycle
<1>3. ASSUME NEW r \in Rows, NEW s \in Lifecycle PROVE [r EXCEPT !.status = s] \in Rows
  BY DEF Rows
<1>4. ASSUME NEW r \in Rows, NEW s \in Lifecycle, NEW m \in Payloads
      PROVE  [r EXCEPT !.payload = m, !.status = s] \in Rows
  BY DEF Rows
<1>5. ASSUME NEW r \in Rows, NEW s \in Lifecycle
      PROVE  [r EXCEPT !.status = s, !.runs = @ + 1] \in Rows
  <2>1. r.runs \in Nat /\ r.runs + 1 \in Nat
    BY DEF Rows
  <2> DEFINE n == r.runs + 1
  <2>2. [r EXCEPT !.status = s, !.runs = n] \in Rows
    <3> HIDE DEF n
    <3> QED
      BY <2>1 DEF Rows, n
  <2> QED
    BY <2>2
<1> QED
  BY <1>1, <1>2, <1>3, <1>4, <1>5

\* The steps that write the row.
RowWritten ==
    \/ row' = row
    \/ \E i \in Ingress : Create(i) /\ row = NoRow /\ row' = FreshRow(msg[i])
    \/ \E i \in Ingress : Refresh(i)
    \/ row # NoRow /\ \E s \in Lifecycle : row' = [row EXCEPT !.status = s]
    \/ \E w \in Workers : Count(w)

\* A step that writes the row is one of these.
LEMMA RowEffect ==
  ASSUME RowInv, [InboxNext]_inboxVars
  PROVE  RowWritten
<1> USE DEF RowInv, Roles, RowFirst, RowWritten, Lifecycle, queueVars
<1>1. ASSUME NEW i \in Ingress, NEW m \in Payloads, Notify(i, m) PROVE RowWritten
  BY <1>1 DEF Notify, Goto, Spend
<1>2. ASSUME NEW i \in Ingress, Find(i) PROVE RowWritten
  BY <1>2 DEF Find, Goto, Collision, Received
<1>3. ASSUME NEW i \in Ingress, Create(i) PROVE RowWritten
  BY <1>3 DEF Create, Goto, Collision, Received, FreshRow
<1>4. ASSUME NEW i \in Ingress, Refresh(i) PROVE RowWritten
  BY <1>4 DEF Refresh, Goto
<1>5. ASSUME NEW i \in Ingress, Duplicate(i) PROVE RowWritten
  BY <1>5 DEF Duplicate, Goto, Return
<1>6. ASSUME NEW i \in Ingress, MarkEnqueued(i) PROVE RowWritten
  BY <1>6 DEF MarkEnqueued, Goto
<1>7. ASSUME NEW i \in Ingress, Add(i) PROVE RowWritten
  BY <1>7 DEF Add, Goto, Return
<1>8. ASSUME NEW i \in Ingress, AddFails(i) PROVE RowWritten
  BY <1>8 DEF AddFails, Goto, Spend
<1>9. ASSUME NEW i \in Ingress, MarkAddFailed(i) PROVE RowWritten
  BY <1>9 DEF MarkAddFailed, Goto, Return
<1>10. ASSUME NEW i \in Ingress, IngressCrash(i) PROVE RowWritten
  BY <1>10 DEF IngressCrash, Goto, Return, Spend
<1>11. ASSUME NEW w \in Workers, TakeJob(w) PROVE RowWritten
  BY <1>11 DEF TakeJob, Goto
<1>12. ASSUME NEW w \in Workers, Count(w) PROVE RowWritten
  BY <1>12 DEF Count, Goto
<1>13. ASSUME NEW w \in Workers, Run(w) PROVE RowWritten
  BY <1>13 DEF Run, Goto
<1>14. ASSUME NEW w \in Workers, RunFails(w) PROVE RowWritten
  BY <1>14 DEF RunFails, Goto, Spend
<1>15. ASSUME NEW w \in Workers, MarkProcessed(w) PROVE RowWritten
  BY <1>15 DEF MarkProcessed, Goto, EndJob, Return
<1>16. ASSUME NEW w \in Workers, MarkFailed(w) PROVE RowWritten
  BY <1>16 DEF MarkFailed, Goto, EndJob, Return
<1>17. ASSUME NEW w \in Workers, WorkerCrash(w) PROVE RowWritten
  BY <1>17 DEF WorkerCrash, Goto, Return, Spend
<1>18. CASE AutoRetry
  BY <1>18 DEF AutoRetry, Received, Retryable, MaxAutoRetries
<1>19. CASE Replay
  BY <1>19 DEF Replay, Received, Spend
<1>20. CASE PurgeReplay
  BY <1>20 DEF PurgeReplay
<1>21. CASE UNCHANGED inboxVars
  BY <1>21 DEF inboxVars
<1> QED
  BY <1>1, <1>2, <1>3, <1>4, <1>5, <1>6, <1>7, <1>8, <1>9, <1>10, <1>11, <1>12, <1>13,
     <1>14, <1>15, <1>16, <1>17, <1>18, <1>19, <1>20, <1>21
     DEF InboxNext, IngressStep, WorkerStep

\* The row stays typed, and once it is there it stays.
LEMMA RowStep ==
  ASSUME RowInv, [InboxNext]_inboxVars
  PROVE  row' \in Rows \cup {NoRow} /\ (row # NoRow => row' # NoRow)
<1>1. row \in Rows \cup {NoRow} /\ RowWritten
  BY RowEffect DEF RowInv, InboxTypeOK
<1>2. CASE row' = row
  BY <1>1, <1>2
<1>3. ASSUME NEW i \in Ingress, Create(i), row = NoRow, row' = FreshRow(msg[i])
      PROVE  row' \in Rows
  <2>1. msg[i] \in Payloads
    BY <1>3 DEF RowInv, Roles, Create
  <2> QED
    BY <1>3, <2>1, RowTyped
<1>4. ASSUME NEW i \in Ingress, Refresh(i) PROVE row' \in Rows
  <2>1. msg[i] \in Payloads /\ row \in Rows /\ "RECEIVED" \in Lifecycle
    BY <1>1, <1>4 DEF RowInv, Roles, RowFirst, Refresh, Lifecycle
  <2> QED
    BY <1>4, <2>1, RowTyped DEF Refresh
<1>5. ASSUME row # NoRow, NEW s \in Lifecycle, row' = [row EXCEPT !.status = s]
      PROVE  row' \in Rows
  BY <1>1, <1>5, RowTyped
<1>6. ASSUME NEW w \in Workers, Count(w) PROVE row' \in Rows
  <2>1. row \in Rows /\ "PROCESSING" \in Lifecycle
    BY <1>1, <1>6 DEF RowInv, Roles, RowFirst, Count, Lifecycle
  <2> QED
    BY <1>6, <2>1, RowTyped, PayloadAssumption DEF Count, Payloads
<1> QED
  BY <1>1, <1>2, <1>3, <1>4, <1>5, <1>6, RowTyped DEF RowWritten

ControlTyped ==
    /\ pc \in [Procs -> {"idle", "find", "create", "refresh", "duplicate", "mark", "add",
                         "addFailed", "count", "run", "ack", "fail"}]
    /\ msg \in [Procs -> 0 .. LastPayload]
    /\ task \in [Workers -> {NoTask, "plain", "retry", "replay"}]

QueuesTyped ==
    /\ jobs \in Nat
    /\ DOMAIN retries \subseteq Nat
    /\ \A n \in DOMAIN retries : retries[n] \in {"waiting", "taken"}
    /\ replay \in {"none", "waiting", "active", "retained"}

NewsTyped ==
    /\ scenario \in Scenarios
    /\ answered \in SUBSET Payloads
    /\ applied \in SUBSET Payloads
    /\ latest \in 0 .. LastPayload
    /\ spent \in [Bounds -> Nat]

\* Processes stay typed.
LEMMA ControlStep ==
  ASSUME RowInv, [InboxNext]_inboxVars
  PROVE  ControlTyped'
<1> USE InboxProcsAssumption, PayloadAssumption DEF RowInv, InboxTypeOK, ControlTyped,
    Procs, Payloads, NoTask
<1>1. ASSUME NEW i \in Ingress, NEW m \in Payloads, Notify(i, m) PROVE ControlTyped'
  BY <1>1 DEF Notify, Goto, Spend
<1>2. ASSUME NEW i \in Ingress, Find(i) PROVE ControlTyped'
  BY <1>2 DEF Find, Goto, Collision, Received
<1>3. ASSUME NEW i \in Ingress, Create(i) PROVE ControlTyped'
  BY <1>3 DEF Create, Goto, Collision, Received, FreshRow
<1>4. ASSUME NEW i \in Ingress, Refresh(i) PROVE ControlTyped'
  BY <1>4 DEF Refresh, Goto
<1>5. ASSUME NEW i \in Ingress, Duplicate(i) PROVE ControlTyped'
  BY <1>5 DEF Duplicate, Goto, Return
<1>6. ASSUME NEW i \in Ingress, MarkEnqueued(i) PROVE ControlTyped'
  BY <1>6 DEF MarkEnqueued, Goto
<1>7. ASSUME NEW i \in Ingress, Add(i) PROVE ControlTyped'
  BY <1>7 DEF Add, Goto, Return
<1>8. ASSUME NEW i \in Ingress, AddFails(i) PROVE ControlTyped'
  BY <1>8 DEF AddFails, Goto, Spend
<1>9. ASSUME NEW i \in Ingress, MarkAddFailed(i) PROVE ControlTyped'
  BY <1>9 DEF MarkAddFailed, Goto, Return
<1>10. ASSUME NEW i \in Ingress, IngressCrash(i) PROVE ControlTyped'
  BY <1>10 DEF IngressCrash, Goto, Return, Spend
<1>11. ASSUME NEW w \in Workers, TakeJob(w) PROVE ControlTyped'
  <2>1. row.payload \in 0 .. LastPayload
    BY DEF RowInv, InboxTypeOK, Rows, NoRow, Payloads
  <2> QED
    BY <1>11, <2>1 DEF TakeJob, Goto
<1>12. ASSUME NEW w \in Workers, Count(w) PROVE ControlTyped'
  BY <1>12 DEF Count, Goto
<1>13. ASSUME NEW w \in Workers, Run(w) PROVE ControlTyped'
  BY <1>13 DEF Run, Goto
<1>14. ASSUME NEW w \in Workers, RunFails(w) PROVE ControlTyped'
  BY <1>14 DEF RunFails, Goto, Spend
<1>15. ASSUME NEW w \in Workers, MarkProcessed(w) PROVE ControlTyped'
  BY <1>15 DEF MarkProcessed, Goto, EndJob, Return
<1>16. ASSUME NEW w \in Workers, MarkFailed(w) PROVE ControlTyped'
  BY <1>16 DEF MarkFailed, Goto, EndJob, Return
<1>17. ASSUME NEW w \in Workers, WorkerCrash(w) PROVE ControlTyped'
  BY <1>17 DEF WorkerCrash, Goto, Return, Spend
<1>18. CASE AutoRetry
  BY <1>18 DEF AutoRetry, Received, Retryable, MaxAutoRetries
<1>19. CASE Replay
  BY <1>19 DEF Replay, Received, Spend
<1>20. CASE PurgeReplay
  BY <1>20 DEF PurgeReplay
<1>21. CASE UNCHANGED inboxVars
  BY <1>21 DEF inboxVars
<1> QED
  BY <1>1, <1>2, <1>3, <1>4, <1>5, <1>6, <1>7, <1>8, <1>9, <1>10, <1>11, <1>12, <1>13,
     <1>14, <1>15, <1>16, <1>17, <1>18, <1>19, <1>20, <1>21
     DEF InboxNext, IngressStep, WorkerStep

\* So do the queues.
LEMMA QueuesStep ==
  ASSUME RowInv, [InboxNext]_inboxVars
  PROVE  QueuesTyped'
<1> USE DEF RowInv, RowFirst, Roles, InboxTypeOK, QueuesTyped, queueVars, Rows, NoRow
<1>1. ASSUME NEW i \in Ingress, NEW m \in Payloads, Notify(i, m) PROVE QueuesTyped'
  BY <1>1 DEF Notify, Goto, Spend
<1>2. ASSUME NEW i \in Ingress, Find(i) PROVE QueuesTyped'
  BY <1>2 DEF Find, Goto, Collision, Received
<1>3. ASSUME NEW i \in Ingress, Create(i) PROVE QueuesTyped'
  BY <1>3 DEF Create, Goto, Collision, Received, FreshRow
<1>4. ASSUME NEW i \in Ingress, Refresh(i) PROVE QueuesTyped'
  BY <1>4 DEF Refresh, Goto
<1>5. ASSUME NEW i \in Ingress, Duplicate(i) PROVE QueuesTyped'
  BY <1>5 DEF Duplicate, Goto, Return
<1>6. ASSUME NEW i \in Ingress, MarkEnqueued(i) PROVE QueuesTyped'
  BY <1>6 DEF MarkEnqueued, Goto
<1>7. ASSUME NEW i \in Ingress, Add(i) PROVE QueuesTyped'
  BY <1>7 DEF Add, Goto, Return
<1>8. ASSUME NEW i \in Ingress, AddFails(i) PROVE QueuesTyped'
  BY <1>8 DEF AddFails, Goto, Spend
<1>9. ASSUME NEW i \in Ingress, MarkAddFailed(i) PROVE QueuesTyped'
  BY <1>9 DEF MarkAddFailed, Goto, Return
<1>10. ASSUME NEW i \in Ingress, IngressCrash(i) PROVE QueuesTyped'
  BY <1>10 DEF IngressCrash, Goto, Return, Spend
<1>11. ASSUME NEW w \in Workers, TakeJob(w) PROVE QueuesTyped'
  BY <1>11 DEF TakeJob, Goto
<1>12. ASSUME NEW w \in Workers, Count(w) PROVE QueuesTyped'
  BY <1>12 DEF Count, Goto
<1>13. ASSUME NEW w \in Workers, Run(w) PROVE QueuesTyped'
  BY <1>13 DEF Run, Goto
<1>14. ASSUME NEW w \in Workers, RunFails(w) PROVE QueuesTyped'
  BY <1>14 DEF RunFails, Goto, Spend
<1>15. ASSUME NEW w \in Workers, MarkProcessed(w) PROVE QueuesTyped'
  BY <1>15 DEF MarkProcessed, Goto, EndJob, Return
<1>16. ASSUME NEW w \in Workers, MarkFailed(w) PROVE QueuesTyped'
  BY <1>16 DEF MarkFailed, Goto, EndJob, Return
<1>17. ASSUME NEW w \in Workers, WorkerCrash(w) PROVE QueuesTyped'
  BY <1>17 DEF WorkerCrash, Goto, Return, Spend
<1>18. CASE AutoRetry
  BY <1>18 DEF AutoRetry, Received, Retryable, MaxAutoRetries
<1>19. CASE Replay
  BY <1>19 DEF Replay, Received, Spend
<1>20. CASE PurgeReplay
  BY <1>20 DEF PurgeReplay
<1>21. CASE UNCHANGED inboxVars
  BY <1>21 DEF inboxVars
<1> QED
  BY <1>1, <1>2, <1>3, <1>4, <1>5, <1>6, <1>7, <1>8, <1>9, <1>10, <1>11, <1>12, <1>13,
     <1>14, <1>15, <1>16, <1>17, <1>18, <1>19, <1>20, <1>21
     DEF InboxNext, IngressStep, WorkerStep

\* So does what is counted and sent.
LEMMA NewsStep ==
  ASSUME RowInv, [InboxNext]_inboxVars
  PROVE  NewsTyped'
<1> USE PayloadAssumption DEF RowInv, Roles, InboxTypeOK, NewsTyped, Payloads, providerVars,
    Bounds
<1>1. ASSUME NEW i \in Ingress, NEW m \in Payloads, Notify(i, m) PROVE NewsTyped'
  BY <1>1 DEF Notify, Goto, Spend
<1>2. ASSUME NEW i \in Ingress, Find(i) PROVE NewsTyped'
  BY <1>2 DEF Find, Goto, Collision, Received
<1>3. ASSUME NEW i \in Ingress, Create(i) PROVE NewsTyped'
  BY <1>3 DEF Create, Goto, Collision, Received, FreshRow
<1>4. ASSUME NEW i \in Ingress, Refresh(i) PROVE NewsTyped'
  BY <1>4 DEF Refresh, Goto
<1>5. ASSUME NEW i \in Ingress, Duplicate(i) PROVE NewsTyped'
  BY <1>5 DEF Duplicate, Goto, Return
<1>6. ASSUME NEW i \in Ingress, MarkEnqueued(i) PROVE NewsTyped'
  BY <1>6 DEF MarkEnqueued, Goto
<1>7. ASSUME NEW i \in Ingress, Add(i) PROVE NewsTyped'
  BY <1>7 DEF Add, Goto, Return
<1>8. ASSUME NEW i \in Ingress, AddFails(i) PROVE NewsTyped'
  BY <1>8 DEF AddFails, Goto, Spend
<1>9. ASSUME NEW i \in Ingress, MarkAddFailed(i) PROVE NewsTyped'
  BY <1>9 DEF MarkAddFailed, Goto, Return
<1>10. ASSUME NEW i \in Ingress, IngressCrash(i) PROVE NewsTyped'
  BY <1>10 DEF IngressCrash, Goto, Return, Spend
<1>11. ASSUME NEW w \in Workers, TakeJob(w) PROVE NewsTyped'
  BY <1>11 DEF TakeJob, Goto
<1>12. ASSUME NEW w \in Workers, Count(w) PROVE NewsTyped'
  BY <1>12 DEF Count, Goto
<1>13. ASSUME NEW w \in Workers, Run(w) PROVE NewsTyped'
  BY <1>13 DEF Run, Goto
<1>14. ASSUME NEW w \in Workers, RunFails(w) PROVE NewsTyped'
  BY <1>14 DEF RunFails, Goto, Spend
<1>15. ASSUME NEW w \in Workers, MarkProcessed(w) PROVE NewsTyped'
  BY <1>15 DEF MarkProcessed, Goto, EndJob, Return
<1>16. ASSUME NEW w \in Workers, MarkFailed(w) PROVE NewsTyped'
  BY <1>16 DEF MarkFailed, Goto, EndJob, Return
<1>17. ASSUME NEW w \in Workers, WorkerCrash(w) PROVE NewsTyped'
  BY <1>17 DEF WorkerCrash, Goto, Return, Spend
<1>18. CASE AutoRetry
  BY <1>18 DEF AutoRetry, Received, Retryable, MaxAutoRetries
<1>19. CASE Replay
  BY <1>19 DEF Replay, Received, Spend
<1>20. CASE PurgeReplay
  BY <1>20 DEF PurgeReplay
<1>21. CASE UNCHANGED inboxVars
  BY <1>21 DEF inboxVars
<1> QED
  BY <1>1, <1>2, <1>3, <1>4, <1>5, <1>6, <1>7, <1>8, <1>9, <1>10, <1>11, <1>12, <1>13,
     <1>14, <1>15, <1>16, <1>17, <1>18, <1>19, <1>20, <1>21
     DEF InboxNext, IngressStep, WorkerStep

\* The types hold after every step.
LEMMA TypeStep ==
  ASSUME RowInv, [InboxNext]_inboxVars
  PROVE  InboxTypeOK'
BY RowStep, ControlStep, QueuesStep, NewsStep
   DEF InboxTypeOK, ControlTyped, QueuesTyped, NewsTyped

-----------------------------------------------------------------------------
(* Roles, rows and retries                                                 *)


\* Whoever goes on carries what the next step needs.
LEMMA RolesStep ==
  ASSUME RowInv, [InboxNext]_inboxVars
  PROVE  Roles'
<1> USE InboxProcsAssumption, PayloadAssumption DEF RowInv, InboxTypeOK, Roles, RowFirst,
    Procs, Payloads, Rows, NoRow, Bounds
<1>1. ASSUME NEW i \in Ingress, NEW m \in Payloads, Notify(i, m) PROVE Roles'
  BY <1>1 DEF Notify, Goto, Spend
<1>2. ASSUME NEW i \in Ingress, Find(i) PROVE Roles'
  BY <1>2 DEF Find, Goto, Collision, Received
<1>3. ASSUME NEW i \in Ingress, Create(i) PROVE Roles'
  BY <1>3 DEF Create, Goto, Collision, Received, FreshRow
<1>4. ASSUME NEW i \in Ingress, Refresh(i) PROVE Roles'
  BY <1>4 DEF Refresh, Goto
<1>5. ASSUME NEW i \in Ingress, Duplicate(i) PROVE Roles'
  BY <1>5 DEF Duplicate, Goto, Return
<1>6. ASSUME NEW i \in Ingress, MarkEnqueued(i) PROVE Roles'
  BY <1>6 DEF MarkEnqueued, Goto
<1>7. ASSUME NEW i \in Ingress, Add(i) PROVE Roles'
  BY <1>7 DEF Add, Goto, Return
<1>8. ASSUME NEW i \in Ingress, AddFails(i) PROVE Roles'
  BY <1>8 DEF AddFails, Goto, Spend
<1>9. ASSUME NEW i \in Ingress, MarkAddFailed(i) PROVE Roles'
  BY <1>9 DEF MarkAddFailed, Goto, Return
<1>10. ASSUME NEW i \in Ingress, IngressCrash(i) PROVE Roles'
  BY <1>10 DEF IngressCrash, Goto, Return, Spend
<1>11. ASSUME NEW w \in Workers, TakeJob(w) PROVE Roles'
  BY <1>11 DEF TakeJob, Goto
<1>12. ASSUME NEW w \in Workers, Count(w) PROVE Roles'
  BY <1>12 DEF Count, Goto
<1>13. ASSUME NEW w \in Workers, Run(w) PROVE Roles'
  BY <1>13 DEF Run, Goto
<1>14. ASSUME NEW w \in Workers, RunFails(w) PROVE Roles'
  BY <1>14 DEF RunFails, Goto, Spend
<1>15. ASSUME NEW w \in Workers, MarkProcessed(w) PROVE Roles'
  BY <1>15 DEF MarkProcessed, Goto, EndJob, Return
<1>16. ASSUME NEW w \in Workers, MarkFailed(w) PROVE Roles'
  BY <1>16 DEF MarkFailed, Goto, EndJob, Return
<1>17. ASSUME NEW w \in Workers, WorkerCrash(w) PROVE Roles'
  BY <1>17 DEF WorkerCrash, Goto, Return, Spend
<1>18. CASE AutoRetry
  BY <1>18 DEF AutoRetry, Received, Retryable, MaxAutoRetries
<1>19. CASE Replay
  BY <1>19 DEF Replay, Received, Spend
<1>20. CASE PurgeReplay
  BY <1>20 DEF PurgeReplay
<1>21. CASE UNCHANGED inboxVars
  BY <1>21 DEF inboxVars
<1> QED
  BY <1>1, <1>2, <1>3, <1>4, <1>5, <1>6, <1>7, <1>8, <1>9, <1>10, <1>11, <1>12, <1>13,
     <1>14, <1>15, <1>16, <1>17, <1>18, <1>19, <1>20, <1>21
     DEF InboxNext, IngressStep, WorkerStep

\* No row, no work.
LEMMA RowFirstStep ==
  ASSUME RowInv, [InboxNext]_inboxVars
  PROVE  RowFirst'
<1> USE InboxProcsAssumption, RowStep DEF RowInv, InboxTypeOK, Roles, RowFirst, Procs,
    queueVars
<1>1. ASSUME NEW i \in Ingress, NEW m \in Payloads, Notify(i, m) PROVE RowFirst'
  BY <1>1 DEF Notify, Goto, Spend
<1>2. ASSUME NEW i \in Ingress, Find(i) PROVE RowFirst'
  BY <1>2 DEF Find, Goto, Collision, Received
<1>3. ASSUME NEW i \in Ingress, Create(i) PROVE RowFirst'
  <2>1. row' # NoRow
    <3>1. msg[i] \in Payloads
      BY <1>3 DEF RowInv, Roles, Create
    <3> QED
      BY <1>3, <3>1, RowTyped DEF Create, Received
  <2> QED
    BY <2>1 DEF RowFirst
<1>4. ASSUME NEW i \in Ingress, Refresh(i) PROVE RowFirst'
  BY <1>4 DEF Refresh, Goto
<1>5. ASSUME NEW i \in Ingress, Duplicate(i) PROVE RowFirst'
  BY <1>5 DEF Duplicate, Goto, Return
<1>6. ASSUME NEW i \in Ingress, MarkEnqueued(i) PROVE RowFirst'
  BY <1>6 DEF MarkEnqueued, Goto
<1>7. ASSUME NEW i \in Ingress, Add(i) PROVE RowFirst'
  BY <1>7 DEF Add, Goto, Return
<1>8. ASSUME NEW i \in Ingress, AddFails(i) PROVE RowFirst'
  BY <1>8 DEF AddFails, Goto, Spend
<1>9. ASSUME NEW i \in Ingress, MarkAddFailed(i) PROVE RowFirst'
  BY <1>9 DEF MarkAddFailed, Goto, Return
<1>10. ASSUME NEW i \in Ingress, IngressCrash(i) PROVE RowFirst'
  BY <1>10 DEF IngressCrash, Goto, Return, Spend
<1>11. ASSUME NEW w \in Workers, TakeJob(w) PROVE RowFirst'
  <2>1. row # NoRow
    BY <1>11 DEF TakeJob, RowInv, RowFirst
  <2> QED
    BY <1>11, <2>1 DEF TakeJob, RowFirst
<1>12. ASSUME NEW w \in Workers, Count(w) PROVE RowFirst'
  BY <1>12 DEF Count, Goto
<1>13. ASSUME NEW w \in Workers, Run(w) PROVE RowFirst'
  BY <1>13 DEF Run, Goto
<1>14. ASSUME NEW w \in Workers, RunFails(w) PROVE RowFirst'
  BY <1>14 DEF RunFails, Goto, Spend
<1>15. ASSUME NEW w \in Workers, MarkProcessed(w) PROVE RowFirst'
  BY <1>15 DEF MarkProcessed, Goto, EndJob, Return
<1>16. ASSUME NEW w \in Workers, MarkFailed(w) PROVE RowFirst'
  BY <1>16 DEF MarkFailed, Goto, EndJob, Return
<1>17. ASSUME NEW w \in Workers, WorkerCrash(w) PROVE RowFirst'
  BY <1>17 DEF WorkerCrash, Goto, Return, Spend
<1>18. CASE AutoRetry
  BY <1>18 DEF AutoRetry, Received, Retryable, MaxAutoRetries
<1>19. CASE Replay
  BY <1>19 DEF Replay, Received, Spend
<1>20. CASE PurgeReplay
  BY <1>20 DEF PurgeReplay
<1>21. CASE UNCHANGED inboxVars
  BY <1>21 DEF inboxVars
<1> QED
  BY <1>1, <1>2, <1>3, <1>4, <1>5, <1>6, <1>7, <1>8, <1>9, <1>10, <1>11, <1>12, <1>13,
     <1>14, <1>15, <1>16, <1>17, <1>18, <1>19, <1>20, <1>21
     DEF InboxNext, IngressStep, WorkerStep

\* A retry takes a number within the limit.
LEMMA NumberedStep ==
  ASSUME RowInv, [InboxNext]_inboxVars
  PROVE  Numbered'
<1> USE DEF RowInv, InboxTypeOK, Numbered, Rows, NoRow, queueVars, MaxAutoRetries
<1>1. ASSUME NEW i \in Ingress, NEW m \in Payloads, Notify(i, m) PROVE Numbered'
  BY <1>1 DEF Notify, Goto, Spend
<1>2. ASSUME NEW i \in Ingress, Find(i) PROVE Numbered'
  BY <1>2 DEF Find, Goto, Collision, Received
<1>3. ASSUME NEW i \in Ingress, Create(i) PROVE Numbered'
  BY <1>3 DEF Create, Goto, Collision, Received, FreshRow
<1>4. ASSUME NEW i \in Ingress, Refresh(i) PROVE Numbered'
  BY <1>4 DEF Refresh, Goto
<1>5. ASSUME NEW i \in Ingress, Duplicate(i) PROVE Numbered'
  BY <1>5 DEF Duplicate, Goto, Return
<1>6. ASSUME NEW i \in Ingress, MarkEnqueued(i) PROVE Numbered'
  BY <1>6 DEF MarkEnqueued, Goto
<1>7. ASSUME NEW i \in Ingress, Add(i) PROVE Numbered'
  BY <1>7 DEF Add, Goto, Return
<1>8. ASSUME NEW i \in Ingress, AddFails(i) PROVE Numbered'
  BY <1>8 DEF AddFails, Goto, Spend
<1>9. ASSUME NEW i \in Ingress, MarkAddFailed(i) PROVE Numbered'
  BY <1>9 DEF MarkAddFailed, Goto, Return
<1>10. ASSUME NEW i \in Ingress, IngressCrash(i) PROVE Numbered'
  BY <1>10 DEF IngressCrash, Goto, Return, Spend
<1>11. ASSUME NEW w \in Workers, TakeJob(w) PROVE Numbered'
  BY <1>11 DEF TakeJob, Goto
<1>12. ASSUME NEW w \in Workers, Count(w) PROVE Numbered'
  BY <1>12 DEF Count, Goto
<1>13. ASSUME NEW w \in Workers, Run(w) PROVE Numbered'
  BY <1>13 DEF Run, Goto
<1>14. ASSUME NEW w \in Workers, RunFails(w) PROVE Numbered'
  BY <1>14 DEF RunFails, Goto, Spend
<1>15. ASSUME NEW w \in Workers, MarkProcessed(w) PROVE Numbered'
  BY <1>15 DEF MarkProcessed, Goto, EndJob, Return
<1>16. ASSUME NEW w \in Workers, MarkFailed(w) PROVE Numbered'
  BY <1>16 DEF MarkFailed, Goto, EndJob, Return
<1>17. ASSUME NEW w \in Workers, WorkerCrash(w) PROVE Numbered'
  BY <1>17 DEF WorkerCrash, Goto, Return, Spend
<1>18. CASE AutoRetry
  BY <1>18 DEF AutoRetry, Received, Retryable, MaxAutoRetries
<1>19. CASE Replay
  BY <1>19 DEF Replay, Received, Spend
<1>20. CASE PurgeReplay
  BY <1>20 DEF PurgeReplay
<1>21. CASE UNCHANGED inboxVars
  BY <1>21 DEF inboxVars
<1> QED
  BY <1>1, <1>2, <1>3, <1>4, <1>5, <1>6, <1>7, <1>8, <1>9, <1>10, <1>11, <1>12, <1>13,
     <1>14, <1>15, <1>16, <1>17, <1>18, <1>19, <1>20, <1>21
     DEF InboxNext, IngressStep, WorkerStep

\* Jobs that run one at a time do so.
LEMMA AloneStep ==
  ASSUME RowInv, Alone, [InboxNext]_inboxVars
  PROVE  Alone'
<1> USE InboxProcsAssumption DEF RowInv, InboxTypeOK, Alone, Procs
<1>1. ASSUME NEW i \in Ingress, NEW m \in Payloads, Notify(i, m) PROVE Alone'
  BY <1>1 DEF Notify, Goto, Spend
<1>2. ASSUME NEW i \in Ingress, Find(i) PROVE Alone'
  BY <1>2 DEF Find, Goto, Collision, Received
<1>3. ASSUME NEW i \in Ingress, Create(i) PROVE Alone'
  BY <1>3 DEF Create, Goto, Collision, Received, FreshRow
<1>4. ASSUME NEW i \in Ingress, Refresh(i) PROVE Alone'
  BY <1>4 DEF Refresh, Goto
<1>5. ASSUME NEW i \in Ingress, Duplicate(i) PROVE Alone'
  BY <1>5 DEF Duplicate, Goto, Return
<1>6. ASSUME NEW i \in Ingress, MarkEnqueued(i) PROVE Alone'
  BY <1>6 DEF MarkEnqueued, Goto
<1>7. ASSUME NEW i \in Ingress, Add(i) PROVE Alone'
  BY <1>7 DEF Add, Goto, Return
<1>8. ASSUME NEW i \in Ingress, AddFails(i) PROVE Alone'
  BY <1>8 DEF AddFails, Goto, Spend
<1>9. ASSUME NEW i \in Ingress, MarkAddFailed(i) PROVE Alone'
  BY <1>9 DEF MarkAddFailed, Goto, Return
<1>10. ASSUME NEW i \in Ingress, IngressCrash(i) PROVE Alone'
  BY <1>10 DEF IngressCrash, Goto, Return, Spend
<1>11. ASSUME NEW w \in Workers, TakeJob(w) PROVE Alone'
  BY <1>11 DEF TakeJob, Goto
<1>12. ASSUME NEW w \in Workers, Count(w) PROVE Alone'
  BY <1>12 DEF Count, Goto
<1>13. ASSUME NEW w \in Workers, Run(w) PROVE Alone'
  BY <1>13 DEF Run, Goto
<1>14. ASSUME NEW w \in Workers, RunFails(w) PROVE Alone'
  BY <1>14 DEF RunFails, Goto, Spend
<1>15. ASSUME NEW w \in Workers, MarkProcessed(w) PROVE Alone'
  BY <1>15 DEF MarkProcessed, Goto, EndJob, Return
<1>16. ASSUME NEW w \in Workers, MarkFailed(w) PROVE Alone'
  BY <1>16 DEF MarkFailed, Goto, EndJob, Return
<1>17. ASSUME NEW w \in Workers, WorkerCrash(w) PROVE Alone'
  BY <1>17 DEF WorkerCrash, Goto, Return, Spend
<1>18. CASE AutoRetry
  BY <1>18 DEF AutoRetry, Received, Retryable, MaxAutoRetries
<1>19. CASE Replay
  BY <1>19 DEF Replay, Received, Spend
<1>20. CASE PurgeReplay
  BY <1>20 DEF PurgeReplay
<1>21. CASE UNCHANGED inboxVars
  BY <1>21 DEF inboxVars
<1> QED
  BY <1>1, <1>2, <1>3, <1>4, <1>5, <1>6, <1>7, <1>8, <1>9, <1>10, <1>11, <1>12, <1>13,
     <1>14, <1>15, <1>16, <1>17, <1>18, <1>19, <1>20, <1>21
     DEF InboxNext, IngressStep, WorkerStep

\* So does all that is independent of the order of deliveries.
LEMMA RowInvStep ==
  ASSUME RowInv, [InboxNext]_inboxVars
  PROVE  RowInv'
BY TypeStep, RolesStep, RowFirstStep, NumberedStep DEF RowInv

-----------------------------------------------------------------------------
(* The capture                                                             *)

Spends(b) == spent' = [spent EXCEPT ![b] = @ + 1]

\* Nothing is unspent again.
LEMMA SpentGrows ==
  ASSUME RowInv, [InboxNext]_inboxVars
  PROVE  /\ scenario' = scenario
         /\ \/ spent' = spent
            \/ \E b \in Bounds : Spends(b)
<1> USE DEF Bounds, Spends, queueVars
<1>1. ASSUME NEW i \in Ingress, NEW m \in Payloads, Notify(i, m)
      PROVE  scenario' = scenario /\ Spends("deliveries")
  BY <1>1 DEF Notify, Spend
<1>2. ASSUME NEW i \in Ingress, AddFails(i) PROVE scenario' = scenario /\ Spends("badAdds")
  BY <1>2 DEF AddFails, Spend
<1>3. ASSUME NEW i \in Ingress, IngressCrash(i)
      PROVE  scenario' = scenario /\ Spends("lostRequests")
  BY <1>3 DEF IngressCrash, Spend
<1>4. ASSUME NEW w \in Workers, RunFails(w)
      PROVE  scenario' = scenario /\ Spends("failedRuns")
  BY <1>4 DEF RunFails, Spend
<1>5. ASSUME NEW w \in Workers, WorkerCrash(w)
      PROVE  scenario' = scenario /\ Spends("lostWorkers")
  BY <1>5 DEF WorkerCrash, Spend
<1>6. ASSUME Replay PROVE scenario' = scenario /\ Spends("replays")
  BY <1>6 DEF Replay, Spend
<1>7. ASSUME NEW i \in Ingress,
             \/ Find(i) \/ Create(i) \/ Refresh(i) \/ Duplicate(i)
             \/ MarkEnqueued(i) \/ Add(i) \/ MarkAddFailed(i)
      PROVE  scenario' = scenario /\ spent' = spent
  BY <1>7 DEF Find, Create, Refresh, Duplicate, MarkEnqueued, Add, MarkAddFailed
<1>8. ASSUME NEW w \in Workers,
             TakeJob(w) \/ Count(w) \/ Run(w) \/ MarkProcessed(w) \/ MarkFailed(w)
      PROVE  scenario' = scenario /\ spent' = spent
  BY <1>8 DEF TakeJob, Count, Run, MarkProcessed, MarkFailed
<1>9. CASE AutoRetry \/ PurgeReplay
  BY <1>9 DEF AutoRetry, PurgeReplay
<1>10. CASE UNCHANGED inboxVars
  BY <1>10 DEF inboxVars
<1> QED
  BY <1>1, <1>2, <1>3, <1>4, <1>5, <1>6, <1>7, <1>8, <1>9, <1>10
     DEF InboxNext, IngressStep, WorkerStep

\* What is orderly or calm now was so before.
LEMMA OrderlyBefore ==
  ASSUME RowInv, [InboxNext]_inboxVars
  PROVE  (Orderly' => Orderly) /\ (Calm' => Calm)
<1>1. \A b \in Bounds : spent[b] \in Nat
  BY DEF RowInv, InboxTypeOK
<1>2. \A b \in Bounds : spent'[b] \in Nat /\ spent[b] <= spent'[b]
  <2>1. CASE spent' = spent
    BY <1>1, <2>1
  <2>2. ASSUME NEW c \in Bounds, Spends(c)
        PROVE  \A b \in Bounds : spent'[b] \in Nat /\ spent[b] <= spent'[b]
    BY <1>1, <2>2 DEF RowInv, InboxTypeOK, Spends
  <2> QED
    BY <2>1, <2>2, SpentGrows
<1>3. /\ spent["lostRequests"] \in Nat /\ spent["lostRequests"] <= spent'["lostRequests"]
      /\ spent["badAdds"] \in Nat /\ spent["badAdds"] <= spent'["badAdds"]
      /\ spent["replays"] \in Nat /\ spent["replays"] <= spent'["replays"]
      /\ spent["failedRuns"] \in Nat /\ spent["failedRuns"] <= spent'["failedRuns"]
      /\ spent'["lostRequests"] \in Nat /\ spent'["badAdds"] \in Nat
      /\ spent'["replays"] \in Nat /\ spent'["failedRuns"] \in Nat
  BY <1>1, <1>2 DEF Bounds
<1> QED
  BY <1>3, SpentGrows DEF Orderly, Calm

\* While it is orderly, no request dies, no addition fails and nobody replays.
LEMMA OrderlySteps ==
  ASSUME RowInv, [InboxNext]_inboxVars, Orderly'
  PROVE  /\ \A i \in Ingress : ~AddFails(i) /\ ~IngressCrash(i)
         /\ ~Replay
<1> DEFINE sum == spent["lostRequests"] + spent["badAdds"] + spent["replays"]
<1>1. /\ spent["lostRequests"] \in Nat /\ spent["badAdds"] \in Nat
      /\ spent["replays"] \in Nat
      /\ spent \in [Bounds -> Nat]
  BY DEF RowInv, InboxTypeOK, Bounds
<1>2. sum' = 0
  BY DEF Orderly
<1>3. ASSUME NEW b \in {"lostRequests", "badAdds", "replays"}, Spends(b) PROVE FALSE
  BY <1>1, <1>2, <1>3 DEF Spends, Bounds
<1> QED
  BY <1>3 DEF AddFails, IngressCrash, Replay, Spend, Spends


\* Once the capture is sent, nothing older is on its way.
LEMMA SequentialStep ==
  ASSUME RowInv, Sequential, Orderly', [InboxNext]_inboxVars
  PROVE  Sequential'
<1> USE InboxProcsAssumption, PayloadAssumption DEF RowInv, InboxTypeOK, Roles, RowFirst,
    Procs, Payloads, Capture, queueVars, providerVars, Sequential
<1>1. ASSUME NEW i \in Ingress, NEW m \in Payloads, Notify(i, m) PROVE Sequential'
  <2>1. latest' = IF m > latest THEN m ELSE latest
    BY <1>1 DEF Notify
  <2>2. InOrder(m) /\ m <= latest + 1
    BY <1>1, OrderlyBefore DEF Notify, Orderly
  <2> QED
    BY <1>1, <2>1, <2>2 DEF Notify, Goto, InOrder
<1>2. ASSUME NEW i \in Ingress, Find(i) PROVE Sequential'
  BY <1>2 DEF Find, Goto, Collision, Received
<1>3. ASSUME NEW i \in Ingress, Create(i) PROVE Sequential'
  BY <1>3 DEF Create, Goto, Collision, Received, FreshRow
<1>4. ASSUME NEW i \in Ingress, Refresh(i) PROVE Sequential'
  BY <1>4 DEF Refresh, Goto
<1>5. ASSUME NEW i \in Ingress, Duplicate(i) PROVE Sequential'
  BY <1>5 DEF Duplicate, Goto, Return
<1>6. ASSUME NEW i \in Ingress, MarkEnqueued(i) PROVE Sequential'
  BY <1>6 DEF MarkEnqueued, Goto
<1>7. ASSUME NEW i \in Ingress, Add(i) PROVE Sequential'
  BY <1>7 DEF Add, Goto, Return
<1>8. ASSUME NEW i \in Ingress, AddFails(i) PROVE Sequential'
  BY <1>8, OrderlySteps
<1>9. ASSUME NEW i \in Ingress, MarkAddFailed(i) PROVE Sequential'
  BY <1>9 DEF MarkAddFailed, Goto, Return
<1>10. ASSUME NEW i \in Ingress, IngressCrash(i) PROVE Sequential'
  BY <1>10, OrderlySteps
<1>11. ASSUME NEW w \in Workers, TakeJob(w) PROVE Sequential'
  BY <1>11 DEF TakeJob, Goto
<1>12. ASSUME NEW w \in Workers, Count(w) PROVE Sequential'
  BY <1>12 DEF Count, Goto
<1>13. ASSUME NEW w \in Workers, Run(w) PROVE Sequential'
  BY <1>13 DEF Run, Goto
<1>14. ASSUME NEW w \in Workers, RunFails(w) PROVE Sequential'
  BY <1>14 DEF RunFails, Goto, Spend
<1>15. ASSUME NEW w \in Workers, MarkProcessed(w) PROVE Sequential'
  BY <1>15 DEF MarkProcessed, Goto, EndJob, Return
<1>16. ASSUME NEW w \in Workers, MarkFailed(w) PROVE Sequential'
  BY <1>16 DEF MarkFailed, Goto, EndJob, Return
<1>17. ASSUME NEW w \in Workers, WorkerCrash(w) PROVE Sequential'
  BY <1>17 DEF WorkerCrash, Goto, Return, Spend
<1>18. CASE AutoRetry
  BY <1>18 DEF AutoRetry, Received, Retryable, MaxAutoRetries
<1>19. CASE Replay
  BY <1>19, OrderlySteps
<1>20. CASE PurgeReplay
  BY <1>20 DEF PurgeReplay
<1>21. CASE UNCHANGED inboxVars
  BY <1>21 DEF inboxVars
<1> QED
  BY <1>1, <1>2, <1>3, <1>4, <1>5, <1>6, <1>7, <1>8, <1>9, <1>10, <1>11, <1>12, <1>13,
     <1>14, <1>15, <1>16, <1>17, <1>18, <1>19, <1>20, <1>21
     DEF InboxNext, IngressStep, WorkerStep

\* A worker leaves the payload, the requests and the other workers alone.
WorkerMoved(w) ==
    /\ row # NoRow /\ row' # NoRow /\ row'.payload = row.payload
    /\ answered' = answered /\ latest' = latest /\ replay' = "none"
    /\ \A i \in Ingress : pc'[i] = pc[i] /\ msg'[i] = msg[i]
    /\ \A v \in Workers \ {w} : pc'[v] = pc[v] /\ msg'[v] = msg[v] /\ task'[v] = task[v]
    /\ task'[w] # "replay"

\* What the worker's steps do.
LEMMA WorkerEffect ==
  ASSUME RowInv, Recorded, NEW w \in Workers,
         TakeJob(w) \/ WorkerStep(w) \/ WorkerCrash(w)
  PROVE  WorkerMoved(w)
<1>0. /\ w \in Procs /\ Ingress \subseteq Procs /\ Workers \subseteq Procs
      /\ w \notin Ingress
      /\ pc \in [Procs -> {"idle", "find", "create", "refresh", "duplicate", "mark", "add",
                           "addFailed", "count", "run", "ack", "fail"}]
      /\ msg \in [Procs -> 0 .. LastPayload]
      /\ task \in [Workers -> {NoTask, "plain", "retry", "replay"}]
      /\ replay = "none" /\ \A v \in Workers : task[v] # "replay"
  BY InboxProcsAssumption DEF RowInv, InboxTypeOK, Procs, Recorded
<1>1. row \in Rows
  <2>1. row # NoRow
    BY DEF RowInv, RowFirst, TakeJob, WorkerStep, WorkerCrash, Count, Run, RunFails,
           MarkProcessed, MarkFailed
  <2> QED
    BY <2>1 DEF RowInv, InboxTypeOK
<1>2. row' # NoRow /\ row'.payload = row.payload
  <2>1. row' # NoRow
    <3>1. row # NoRow
      BY <1>1, RowTyped
    <3> QED
      BY <3>1, RowStep DEF InboxNext
  <2>2. CASE row' = row
    BY <2>2, <2>1
  <2>3. CASE Count(w) \/ MarkProcessed(w) \/ MarkFailed(w)
    BY <1>1, <2>1, <2>3 DEF Count, MarkProcessed, MarkFailed, Rows
  <2> QED
    BY <2>2, <2>3 DEF WorkerStep, TakeJob, WorkerCrash, Run, RunFails
<1>3. row # NoRow
  BY <1>1, RowTyped
<1> USE <1>0, <1>2, <1>3 DEF WorkerMoved, NoTask
<1>4. CASE TakeJob(w)
  BY <1>4 DEF TakeJob, Goto, providerVars
<1>5. CASE Count(w) \/ Run(w) \/ RunFails(w)
  BY <1>5 DEF Count, Run, RunFails, Goto, queueVars, providerVars
<1>6. CASE MarkProcessed(w) \/ MarkFailed(w)
  BY <1>6 DEF MarkProcessed, MarkFailed, EndJob, Return, Goto, providerVars
<1>7. CASE WorkerCrash(w)
  BY <1>7 DEF WorkerCrash, Return, Goto, providerVars
<1> QED
  BY <1>4, <1>5, <1>6, <1>7 DEF WorkerStep


\* The row keeps the capture, and who answers for it has seen it there.
LEMMA RecordedStep ==
  ASSUME RowInv, Sequential, Recorded, Orderly', [InboxNext]_inboxVars
  PROVE  Recorded'
<1> USE InboxProcsAssumption, PayloadAssumption DEF RowInv, InboxTypeOK, Roles, RowFirst,
    Procs, Payloads, Capture, queueVars, providerVars, Sequential, Recorded
<1>1. ASSUME NEW i \in Ingress, NEW m \in Payloads, Notify(i, m) PROVE Recorded'
  BY <1>1 DEF Notify, Goto, Spend
<1>2. ASSUME NEW i \in Ingress, Find(i) PROVE Recorded'
  BY <1>2 DEF Find, Goto, Collision, Received
<1>3. ASSUME NEW i \in Ingress, Create(i) PROVE Recorded'
  <2>1. CASE row # NoRow
    BY <1>3, <2>1 DEF Create, Goto, Collision, Received
  <2>2. CASE row = NoRow
    <3>1. /\ row'.payload = msg[i] /\ pc' = [pc EXCEPT ![i] = "mark"]
          /\ msg' = msg /\ latest' = latest /\ answered' = answered
          /\ replay' = replay /\ task' = task
      BY <1>3, <2>2 DEF Create, Goto, Received, FreshRow
    <3>2. \A j \in Ingress \ {i} : pc[j] \notin {"duplicate", "mark", "add"}
      BY <2>2
    <3>3. row.payload = 0 /\ Capture # 0
      BY <2>2 DEF NoRow
    <3>4. msg[i] \in Payloads /\ msg[i] <= latest /\ latest <= Capture
      BY <1>3 DEF Create
    <3> QED
      BY <3>1, <3>2, <3>3, <3>4
  <2> QED
    BY <2>1, <2>2
<1>4. ASSUME NEW i \in Ingress, Refresh(i) PROVE Recorded'
  BY <1>4 DEF Refresh, Goto
<1>5. ASSUME NEW i \in Ingress, Duplicate(i) PROVE Recorded'
  BY <1>5 DEF Duplicate, Goto, Return
<1>6. ASSUME NEW i \in Ingress, MarkEnqueued(i) PROVE Recorded'
  BY <1>6 DEF MarkEnqueued, Goto
<1>7. ASSUME NEW i \in Ingress, Add(i) PROVE Recorded'
  BY <1>7 DEF Add, Goto, Return
<1>8. ASSUME NEW i \in Ingress, AddFails(i) PROVE Recorded'
  BY <1>8, OrderlySteps
<1>9. ASSUME NEW i \in Ingress, MarkAddFailed(i) PROVE Recorded'
  BY <1>9 DEF MarkAddFailed, Goto, Return
<1>10. ASSUME NEW i \in Ingress, IngressCrash(i) PROVE Recorded'
  BY <1>10, OrderlySteps
<1>11. ASSUME NEW w \in Workers, TakeJob(w) PROVE Recorded'
  BY <1>11, WorkerEffect DEF WorkerMoved, WorkerStep
<1>12. ASSUME NEW w \in Workers, Count(w) PROVE Recorded'
  BY <1>12, WorkerEffect DEF WorkerMoved, WorkerStep
<1>13. ASSUME NEW w \in Workers, Run(w) PROVE Recorded'
  BY <1>13, WorkerEffect DEF WorkerMoved, WorkerStep
<1>14. ASSUME NEW w \in Workers, RunFails(w) PROVE Recorded'
  BY <1>14, WorkerEffect DEF WorkerMoved, WorkerStep
<1>15. ASSUME NEW w \in Workers, MarkProcessed(w) PROVE Recorded'
  BY <1>15, WorkerEffect DEF WorkerMoved, WorkerStep
<1>16. ASSUME NEW w \in Workers, MarkFailed(w) PROVE Recorded'
  BY <1>16, WorkerEffect DEF WorkerMoved, WorkerStep
<1>17. ASSUME NEW w \in Workers, WorkerCrash(w) PROVE Recorded'
  BY <1>17, WorkerEffect DEF WorkerMoved, WorkerStep
<1>18. CASE AutoRetry
  BY <1>18 DEF AutoRetry, Received, Retryable, MaxAutoRetries
<1>19. CASE Replay
  BY <1>19, OrderlySteps
<1>20. CASE PurgeReplay
  BY <1>20 DEF PurgeReplay
<1>21. CASE UNCHANGED inboxVars
  BY <1>21 DEF inboxVars
<1> QED
  BY <1>1, <1>2, <1>3, <1>4, <1>5, <1>6, <1>7, <1>8, <1>9, <1>10, <1>11, <1>12, <1>13,
     <1>14, <1>15, <1>16, <1>17, <1>18, <1>19, <1>20, <1>21
     DEF InboxNext, IngressStep, WorkerStep

\* The capture stays in hand when nobody lets go of it.
LEMMA StillInHand ==
  ASSUME InHand, row' = row,
         jobs' >= jobs, jobs \in Nat, jobs' \in Nat, retries' = retries,
         \A i \in Ingress : pc[i] \in {"mark", "add"} => pc'[i] = pc[i],
         \A w \in Workers : pc'[w] = pc[w] /\ msg'[w] = msg[w]
  PROVE  InHand'
BY DEF InHand

\* A request that adds a job, or a job that waits, is enough.
LEMMA Enough ==
  /\ \A i \in Ingress : pc'[i] \in {"mark", "add"} => InHand'
  /\ jobs' > 0 => InHand'
BY DEF InHand

\* Whoever lets go of the capture leaves it applied, failed or to someone else.
LEMMA InHandStep ==
  ASSUME RowInv, Alone, Sequential, Recorded, CaptureInHand, [InboxNext]_inboxVars, Orderly'
  PROVE  CaptureInHand'
<1> SUFFICES ASSUME Calm', row' # NoRow, row'.payload = Capture, Capture \notin applied'
             PROVE  InHand'
  BY DEF CaptureInHand
<1>0. /\ Ingress \subseteq Procs /\ Workers \subseteq Procs
      /\ \A i \in Ingress, w \in Workers : i # w
      /\ pc \in [Procs -> {"idle", "find", "create", "refresh", "duplicate", "mark", "add",
                           "addFailed", "count", "run", "ack", "fail"}]
      /\ msg \in [Procs -> 0 .. LastPayload]
      /\ jobs \in Nat
  BY InboxProcsAssumption DEF RowInv, InboxTypeOK, Procs
<1>00. Calm
  BY OrderlyBefore
<1> HIDE DEF Capture
\* Requests.
<1>1. ASSUME NEW i \in Ingress, NEW m \in Payloads, Notify(i, m) PROVE InHand'
  <2>1. InHand
    BY <1>1, <1>00 DEF CaptureInHand, Notify
  <2> QED
    BY <1>0, <1>1, <2>1, StillInHand DEF Notify, Goto, queueVars
<1>2. ASSUME NEW i \in Ingress, Find(i) PROVE InHand'
  <2>1. InHand
    BY <1>2, <1>00 DEF CaptureInHand, Find
  <2> QED
    BY <1>0, <1>2, <2>1, StillInHand DEF Find, Goto, queueVars
<1>3. ASSUME NEW i \in Ingress, Create(i) PROVE InHand'
  <2>1. CASE row = NoRow
    <3>1. pc'[i] = "mark"
      BY <1>0, <1>3, <2>1 DEF Create, Received, Goto
    <3> QED
      BY <3>1, Enough
  <2>2. CASE row # NoRow
    <3>1. InHand
      BY <1>3, <1>00, <2>2 DEF CaptureInHand, Create, Received
    <3> QED
      BY <1>0, <1>3, <2>2, <3>1, StillInHand DEF Create, Received, Goto, queueVars
  <2> QED
    BY <2>1, <2>2
<1>4. ASSUME NEW i \in Ingress, Refresh(i) \/ MarkEnqueued(i) PROVE InHand'
  <2>1. pc'[i] \in {"mark", "add"}
    BY <1>0, <1>4 DEF Refresh, MarkEnqueued, Goto
  <2> QED
    BY <2>1, Enough
<1>5. ASSUME NEW i \in Ingress, Add(i) PROVE InHand'
  <2>1. jobs' > 0
    BY <1>0, <1>5 DEF Add
  <2> QED
    BY <2>1, Enough
<1>6. ASSUME NEW i \in Ingress, Duplicate(i) PROVE InHand'
  <2>1. InHand
    BY <1>6, <1>00 DEF CaptureInHand, Duplicate
  <2> QED
    BY <1>0, <1>6, <2>1, StillInHand DEF Duplicate, Return, Goto, queueVars
<1>7. ASSUME NEW i \in Ingress, AddFails(i) \/ MarkAddFailed(i) \/ IngressCrash(i)
      PROVE  FALSE
  BY <1>7, OrderlySteps DEF MarkAddFailed, Recorded
\* Workers.
<1>8. ASSUME NEW w \in Workers, TakeJob(w) PROVE InHand'
  <2>1. /\ row' = row /\ pc' = [pc EXCEPT ![w] = "count"]
        /\ msg' = [msg EXCEPT ![w] = row.payload]
    BY <1>8 DEF TakeJob, Goto
  <2>2. pc'[w] = "count" /\ msg'[w] = Capture
    BY <1>0, <2>1
  <2> QED
    BY <2>2 DEF InHand
<1>9. ASSUME NEW w \in Workers, WorkerCrash(w) PROVE InHand'
  <2>1. jobs' > 0
    BY <1>0, <1>9 DEF WorkerCrash, Recorded
  <2> QED
    BY <2>1, Enough
<1>10. ASSUME NEW w \in Workers, WorkerStep(w) PROVE row # NoRow /\ row.payload = Capture
  BY <1>10, WorkerEffect DEF WorkerMoved
<1>11. ASSUME NEW w \in Workers, Count(w) PROVE InHand'
  <2>1. InHand
    BY <1>10, <1>11, <1>00 DEF CaptureInHand, Count, WorkerStep
  <2>2. /\ pc[w] = "count" /\ pc' = [pc EXCEPT ![w] = "run"] /\ msg' = msg
        /\ jobs' = jobs /\ retries' = retries
    BY <1>11 DEF Count, Goto, queueVars
  <2>3. CASE msg[w] = Capture
    BY <1>0, <2>2, <2>3 DEF InHand
  <2>4. CASE msg[w] # Capture
    BY <1>0, <2>1, <2>2, <2>4 DEF InHand
  <2> QED
    BY <2>3, <2>4
<1>12. ASSUME NEW w \in Workers, Run(w) PROVE InHand'
  <2>1. InHand
    BY <1>10, <1>12, <1>00 DEF CaptureInHand, Run, WorkerStep
  <2>2. /\ pc[w] = "run" /\ pc' = [pc EXCEPT ![w] = "ack"] /\ msg' = msg
        /\ jobs' = jobs /\ retries' = retries /\ row' = row /\ msg[w] # Capture
    BY <1>12 DEF Run, Goto, queueVars
  <2> QED
    BY <1>0, <2>1, <2>2 DEF InHand
<1>13. ASSUME NEW w \in Workers, RunFails(w) PROVE InHand'
  <2>1. InHand
    BY <1>10, <1>13, <1>00 DEF CaptureInHand, RunFails, WorkerStep
  <2>2. /\ pc[w] = "run" /\ pc' = [pc EXCEPT ![w] = "fail"] /\ msg' = msg
        /\ jobs' = jobs /\ retries' = retries /\ row' = row
    BY <1>13 DEF RunFails, Goto, queueVars
  <2> QED
    BY <1>0, <2>1, <2>2 DEF InHand
<1>14. ASSUME NEW w \in Workers, MarkProcessed(w) PROVE InHand'
  <2>1. InHand
    BY <1>10, <1>14, <1>00 DEF CaptureInHand, MarkProcessed, WorkerStep
  <2>2. /\ pc[w] = "ack" /\ pc' = [pc EXCEPT ![w] = "idle"] /\ msg' = [msg EXCEPT ![w] = 0]
        /\ jobs' = jobs /\ retries' = retries /\ applied' = applied
    BY <1>14 DEF MarkProcessed, EndJob, Return, Goto
  <2>3. msg[w] # Capture
    BY <2>2 DEF RowInv, Roles
  <2> QED
    BY <1>0, <2>1, <2>2, <2>3 DEF InHand
\* Calm: the run of the capture failed, and no other worker has an older payload.
<1>15. ASSUME NEW w \in Workers, MarkFailed(w) PROVE InHand'
  <2>1. row \in Rows /\ pc[w] = "fail"
    BY <1>15 DEF MarkFailed, RowInv, RowFirst, InboxTypeOK
  <2>2. /\ row'.status = "FAILED" /\ pc' = [pc EXCEPT ![w] = "idle"]
    BY <1>15, <2>1 DEF MarkFailed, EndJob, Return, Goto, Rows
  <2>3. scenario.alone
    <3>1. spent["failedRuns"] > 0
      BY <2>1 DEF RowInv, Roles
    <3> QED
      BY <1>00, <3>1 DEF Calm
  <2>4. \A v \in Workers \ {w} : pc[v] = "idle"
    BY <2>1, <2>3 DEF Alone
  <2>5. \A v \in Workers : pc'[v] = "idle"
    BY <1>0, <2>2, <2>4
  <2> QED
    BY <2>2, <2>5 DEF InHand
\* The others.
<1>16. CASE AutoRetry \/ PurgeReplay
  <2>1. /\ pc' = pc /\ msg' = msg /\ row' = row /\ jobs' = jobs /\ applied' = applied
        /\ \/ retries' = retries
           \/ \E n \in DOMAIN retries' : retries'[n] = "waiting"
    BY <1>16 DEF AutoRetry, PurgeReplay
  <2>2. InHand
    BY <1>00, <2>1 DEF CaptureInHand
  <2> QED
    BY <2>1, <2>2 DEF InHand
<1>17. CASE UNCHANGED inboxVars
  <2>1. InHand
    BY <1>00, <1>17 DEF inboxVars, CaptureInHand
  <2> QED
    BY <1>0, <1>17, <2>1, StillInHand DEF inboxVars
<1> QED
  BY <1>1, <1>2, <1>3, <1>4, <1>5, <1>6, <1>7, <1>8, <1>9, <1>11, <1>12, <1>13, <1>14,
     <1>15,
     <1>16, <1>17, OrderlySteps DEF InboxNext, IngressStep, WorkerStep

-----------------------------------------------------------------------------
(* The results                                                             *)

\* The initial states.
LEMMA InboxInitInv == InboxInit => InboxInv
<1> SUFFICES ASSUME InboxInit PROVE InboxInv
  OBVIOUS
<1> USE PayloadAssumption, ScenarioAssumption, InboxProcsAssumption DEF InboxInit
<1>1. DOMAIN retries = {}
  OBVIOUS
<1>2. InboxTypeOK
  BY <1>1 DEF InboxTypeOK, Procs, Bounds, NoTask
<1>3. Roles /\ RowFirst /\ Numbered
  BY <1>1 DEF Roles, RowFirst, Numbered, Procs
<1>4. Alone /\ CaptureInv
  BY DEF Alone, CaptureInv, Sequential, Recorded, CaptureInHand, Capture, Procs, NoTask
<1> QED
  BY <1>2, <1>3, <1>4 DEF InboxInv, RowInv

\* Every step keeps the invariant.
LEMMA InboxInvStep == InboxInv /\ [InboxNext]_inboxVars => InboxInv'
<1> SUFFICES ASSUME InboxInv, [InboxNext]_inboxVars PROVE InboxInv'
  OBVIOUS
<1>1. RowInv' /\ Alone'
  BY RowInvStep, AloneStep DEF InboxInv
<1>2. CaptureInv'
  <2> SUFFICES ASSUME Orderly' PROVE Sequential' /\ Recorded' /\ CaptureInHand'
    BY DEF CaptureInv
  <2>1. Sequential /\ Recorded /\ CaptureInHand
    BY OrderlyBefore DEF InboxInv, CaptureInv
  <2> QED
    BY <2>1, SequentialStep, RecordedStep, InHandStep DEF InboxInv
<1> QED
  BY <1>1, <1>2 DEF InboxInv

\* The invariant of the inbox.
THEOREM InboxInductive == InboxSpec => []InboxInv
<1>1. QED
  BY InboxInitInv, InboxInvStep, PTL DEF InboxSpec

\* However requests, workers, retries, replays and crashes mix, the row and its queues
\* stay consistent, and one event gets no more than three automatic retries.
THEOREM InboxStaysConsistent == InboxSpec => []InboxConsistent
<1>1. InboxInv => InboxConsistent
  <2> SUFFICES ASSUME InboxInv PROVE AutoRetriesBounded
    BY DEF InboxInv, RowInv, InboxConsistent
  <2>1. MaxAutoRetries \in Nat /\ MaxAutoRetries > 0
    BY DEF MaxAutoRetries
  <2>2. /\ IsFiniteSet(1 .. MaxAutoRetries)
        /\ Cardinality(1 .. MaxAutoRetries) = MaxAutoRetries
    BY <2>1, FS_Interval
  <2>3. Cardinality(DOMAIN retries) <= Cardinality(1 .. MaxAutoRetries)
    BY <2>2, FS_Subset DEF InboxInv, RowInv, Numbered
  <2> QED
    BY <2>2, <2>3 DEF AutoRetriesBounded
<1> QED
  BY <1>1, InboxInductive, PTL

\* An answered capture is applied, in hand or visibly failed, for any number of
\* requests and workers, while the provider keeps its order and every recorded
\* notification gets its job, if runs do not overlap or none has failed.
THEOREM CaptureIsNotLost == InboxSpec => []PaidNotLost
<1>1. InboxInv => PaidNotLost
  <2> SUFFICES ASSUME InboxInv, Orderly, Calm, LastPayload \in answered \ applied
               PROVE  Busy \/ row.status = "FAILED"
    BY DEF PaidNotLost
  <2>1. row # NoRow /\ row.payload = Capture
    <3>1. row.payload = Capture
      BY DEF InboxInv, CaptureInv, Recorded, Capture
    <3> QED
      BY <3>1, PayloadAssumption DEF NoRow, Capture
  <2>2. InHand
    BY <2>1 DEF InboxInv, CaptureInv, CaptureInHand, Capture
  <2> QED
    BY <2>2 DEF InHand, Busy, Procs
<1> QED
  BY <1>1, InboxInductive, PTL

=============================================================================
