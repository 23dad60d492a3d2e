------------------------------ MODULE FulfilmentClaim ------------------------------
(***************************************************************************)
(* The fulfilment claim of one payment: the protocol by which the webhook  *)
(* reconciler, the pending-expiry poll, the add-on recovery sweep and the  *)
(* inline checkouts decide which of them provisions a captured payment.    *)
(*                                                                         *)
(* The claim is the nullable column Transaction.fulfilledAt.  A path takes *)
(* it by a conditional UPDATE (null -> now), provisions in a database      *)
(* transaction of its own that stamps fulfilledAt again, and on a          *)
(* provisioning error gives the claim back by an UPDATE fenced on the      *)
(* timestamp it wrote.  A NEW purchase whose claim has outlived its lease  *)
(* (two minutes) without a subscription is recovered by whoever observes   *)
(* it, again fenced on the observed timestamp.                             *)
(*                                                                         *)
(* Timestamps are the ticks of clock: the only thing the protocol does     *)
(* with them is to compare two for equality and to tell an old one.  The   *)
(* status conditions some of the paths add to the claim are in             *)
(* PaymentReconciliation, which implements this specification.             *)
(***************************************************************************)
EXTENDS Naturals

CONSTANTS
    Claimants,            \* the concurrent workers, sweeps and requests
    Kinds,                \* the purchase kinds considered
    LeaseMayBeOvertaken,  \* may a lease expire while its owner still provisions?
    MaxStamp              \* bound on the timestamps handed out

ASSUME KindsAssumption == Kinds \subseteq {"NEW", "RENEW", "ADDON"}
ASSUME LeaseAssumption == LeaseMayBeOvertaken \in BOOLEAN
ASSUME StampAssumption == MaxStamp \in Nat

VARIABLES
    fulfilledAt,   \* Transaction.fulfilledAt, Null when nobody has claimed
    linked,        \* is Transaction.subscriptionId set?
    clock,         \* the next timestamp
    phase,         \* what each claimant is doing
    lease,         \* the claimedAt each claimant remembers
    seen,          \* the fulfilledAt a recovering claimant has observed
    kind,          \* Transaction.purchaseType
    deliveredAt    \* history: the stamps of the provisionings that committed

vars == <<fulfilledAt, linked, clock, phase, lease, seen, kind, deliveredAt>>

\* The SQL null of fulfilledAt; every real timestamp is positive.
Null == 0
Phases == {"idle", "provisioning", "failed", "recovering"}

TypeOK ==
    /\ fulfilledAt \in Nat
    /\ linked \in BOOLEAN
    /\ clock \in Nat \ {0}
    /\ phase \in [Claimants -> Phases]
    /\ lease \in [Claimants -> Nat]
    /\ seen \in [Claimants -> Nat]
    /\ kind \in Kinds
    /\ deliveredAt \in SUBSET Nat

\* A renewal or upgrade carries the subscription it extends from the draft on;
\* a new purchase and an add-on get theirs when they are provisioned.
Init ==
    /\ fulfilledAt = Null
    /\ clock = 1
    /\ kind \in Kinds
    /\ linked = (kind = "RENEW")
    /\ phase = [c \in Claimants |-> "idle"]
    /\ lease = [c \in Claimants |-> Null]
    /\ seen = [c \in Claimants |-> Null]
    /\ deliveredAt = {}

------------------------------------------------------------------------------

\* The claimant forgets its claimedAt.
DropLease(c) == [lease EXCEPT ![c] = Null]

\* The timestamp after t: no two claims of one payment share theirs.
Later(t) == t + 1

\* UPDATE ... SET fulfilledAt = now WHERE fulfilledAt IS NULL, count = 1.
Claim(c) ==
    /\ phase[c] = "idle"
    /\ fulfilledAt = Null
    /\ clock <= MaxStamp
    /\ fulfilledAt' = clock
    /\ lease' = [lease EXCEPT ![c] = clock]
    /\ phase' = [phase EXCEPT ![c] = "provisioning"]
    /\ clock' = Later(clock)
    /\ UNCHANGED <<linked, seen, kind, deliveredAt>>

\* applyCompletedTransaction commits.  Its own database transaction stamps
\* fulfilledAt unconditionally and links the subscription.
Deliver(c) ==
    /\ phase[c] = "provisioning"
    /\ clock <= MaxStamp
    /\ fulfilledAt' = clock
    /\ linked' = TRUE
    /\ deliveredAt' = deliveredAt \cup {clock}
    /\ phase' = [phase EXCEPT ![c] = "idle"]
    /\ lease' = DropLease(c)
    /\ clock' = Later(clock)
    /\ UNCHANGED <<seen, kind>>

\* applyCompletedTransaction throws: its database transaction rolled back.
Fail(c) ==
    /\ phase[c] = "provisioning"
    /\ phase' = [phase EXCEPT ![c] = "failed"]
    /\ UNCHANGED <<fulfilledAt, linked, clock, lease, seen, kind, deliveredAt>>

\* Mutant: the update is keyed on the id alone.
MutantErased(stamp) == Null

\* UPDATE ... SET fulfilledAt = NULL WHERE fulfilledAt = <stamp>.
Erased(stamp) == IF fulfilledAt = stamp THEN Null ELSE fulfilledAt

\* Give the claim back, fenced on the timestamp this claimant wrote.
Release(c) ==
    /\ phase[c] = "failed"
    /\ fulfilledAt' = Erased(lease[c])
    /\ phase' = [phase EXCEPT ![c] = "idle"]
    /\ lease' = DropLease(c)
    /\ UNCHANGED <<linked, clock, seen, kind, deliveredAt>>

\* Does a claimant still provision under timestamp s?
Live(s) == \E c \in Claimants : phase[c] = "provisioning" /\ lease[c] = s

\* Mutant: the link to a subscription is not looked at.
MutantUnfinished == kind = "NEW" /\ fulfilledAt # Null

\* A NEW row that is claimed and not linked to a subscription.
Unfinished == kind = "NEW" /\ ~linked /\ fulfilledAt # Null

\* A reconciliation loads an unfinished row whose claim is older than the lease.
ObserveStale(c) ==
    /\ phase[c] = "idle"
    /\ Unfinished
    /\ LeaseMayBeOvertaken \/ ~Live(fulfilledAt)
    /\ seen' = [seen EXCEPT ![c] = fulfilledAt]
    /\ phase' = [phase EXCEPT ![c] = "recovering"]
    /\ UNCHANGED <<fulfilledAt, linked, clock, lease, kind, deliveredAt>>

\* Take a stale claim away, fenced on the timestamp that was observed.
ClearStale(c) ==
    /\ phase[c] = "recovering"
    /\ fulfilledAt' = Erased(seen[c])
    /\ phase' = [phase EXCEPT ![c] = "idle"]
    /\ seen' = [seen EXCEPT ![c] = Null]
    /\ UNCHANGED <<linked, clock, lease, kind, deliveredAt>>

\* The process dies, or the release itself errors and is swallowed.
Crash(c) ==
    /\ phase[c] # "idle"
    /\ phase' = [phase EXCEPT ![c] = "idle"]
    /\ lease' = DropLease(c)
    /\ seen' = [seen EXCEPT ![c] = Null]
    /\ UNCHANGED <<fulfilledAt, linked, clock, kind, deliveredAt>>

Next ==
    \E c \in Claimants :
        \/ Claim(c) \/ Deliver(c) \/ Fail(c) \/ Release(c)
        \/ ObserveStale(c) \/ ClearStale(c) \/ Crash(c)

Spec == Init /\ [][Next]_vars

------------------------------------------------------------------------------

\* A payment is provisioned at most once, whoever claims, fails, crashes or
\* recovers -- as long as no lease expires under a live owner.
AtMostOnce ==
    ~LeaseMayBeOvertaken => \A s, t \in deliveredAt : s = t

\* The claim a committed provisioning has stamped stays for ever: no release of
\* a delayed former claimant and no stale recovery reopens a delivered payment.
DeliveredStaysClaimed == deliveredAt # {} => fulfilledAt \in deliveredAt

\* Only the claimant whose timestamp is in the row gives the claim back, and
\* only a recovery that observed exactly that timestamp takes it away.
ClaimErasedByHolder ==
    [][fulfilledAt # Null /\ fulfilledAt' = Null =>
        \E c \in Claimants :
            /\ phase'[c] = "idle"
            /\ \/ phase[c] = "failed" /\ lease[c] = fulfilledAt
               \/ phase[c] = "recovering" /\ seen[c] = fulfilledAt]_vars

\* Among the claimants of an undelivered payment at most one still provisions
\* under the timestamp in the row.
OneHolder ==
    \A c, d \in Claimants :
        /\ phase[c] = "provisioning" /\ lease[c] = fulfilledAt
        /\ phase[d] = "provisioning" /\ lease[d] = fulfilledAt
        => c = d

------------------------------------------------------------------------------
\* The inductive invariant behind these properties; InboxAndClaim_proof has
\* the proofs.

\* The claimants that hold a timestamp they may still use to release.
Holding(c) == phase[c] \in {"provisioning", "failed"}

\* Every timestamp in use was handed out; no claimant holds or has observed
\* one that a committed provisioning stamped; no two claimants hold the same.
Stamps ==
    /\ fulfilledAt < clock
    /\ \A s \in deliveredAt : 0 < s /\ s < clock
    /\ \A c \in Claimants : Holding(c) =>
            0 < lease[c] /\ lease[c] < clock /\ lease[c] \notin deliveredAt
    /\ \A c, d \in Claimants :
            Holding(c) /\ Holding(d) /\ lease[c] = lease[d] => c = d
    /\ \A c \in Claimants : phase[c] = "recovering" =>
            0 < seen[c] /\ seen[c] < clock /\ seen[c] \notin deliveredAt
    /\ deliveredAt # {} => linked
    /\ DeliveredStaysClaimed

\* A claimant that provisions owns the row, nothing is delivered yet and no
\* recovery is about to take the row from it.
Exclusive ==
    ~LeaseMayBeOvertaken =>
        /\ \A c \in Claimants : phase[c] = "provisioning" =>
                fulfilledAt = lease[c] /\ deliveredAt = {}
        /\ \A c, d \in Claimants :
                phase[c] = "recovering" /\ phase[d] = "provisioning" =>
                    seen[c] # lease[d]
        /\ AtMostOnce

IInv == TypeOK /\ Stamps /\ Exclusive
==============================================================================
