------------------------- MODULE TrialCheckout_proof -------------------------
(***************************************************************************)
(* What holds of the paid-trial quota for every number of requests, of     *)
(* drafts, of trials allowed, of crashes: a draft is created at the        *)
(* provider once, a delivered trial counts and stays delivered, and the    *)
(* user holds no more trials than the quota but for late captures.         *)
(*                                                                         *)
(* First what each action does to the requests and to the drafts; then     *)
(* types and the facts about each request and each draft, which lean on    *)
(* each other; last the room that the holder of the user's lock has        *)
(* counted and nobody else can use up.                                     *)
(***************************************************************************)
EXTENDS TrialCheckout, FiniteSetTheorems, TLAPS

\* The steps of a request.
Steps == {"idle", "ensure", "lock", "open", "reserve", "write", "claim",
          "create", "fail", "record", "settle", "grant"}

\* The steps between the placeholder and the answer to the buyer.
Making == {"create", "fail", "record", "settle"}

\* The steps inside the transaction that holds the lock on the user's row.
Holding == {"open", "reserve", "write", "grant"}

\* The invariant.  What each request knows: it works on a draft that exists and
\* is not free to be created, and what the provider answered is what it holds.
RequestOf(c) ==
    /\ pc[c] \in {"ensure", "reserve", "write", "claim"} \cup Making =>
         cur[c] \in Drafts /\ tx[cur[c]] # Absent
    /\ pc[c] \in Making => ~Unclaimed(cur[c])
    /\ pc[c] \in {"lock", "open"} => asked[c] \in Gateways
    /\ pc[c] = "create" => made[cur[c]] = 0
    /\ pc[c] = "record" => answer[c] \in {"open", "paid", "dead"}
    /\ pc[c] = "settle" => answer[c] \in {"paid", "dead"}
    /\ pc[c] \in {"record", "settle"} /\ answer[c] \in {"paid", "dead"} =>
         invoice[cur[c]] = answer[c]

\* At most one request at a time creates a draft's payment.
OneMaker ==
    \A b, c \in Requests :
        pc[b] \in Making /\ pc[c] \in Making /\ cur[b] = cur[c] => b = c

\* What holds of each draft: created at most once, and not while it is free to
\* be; delivered only when it is paid, and then counted.
DraftOf(d) ==
    /\ made[d] <= 1
    /\ made[d] = 0 => invoice[d] = "none"
    /\ tx[d] = Absent \/ Unclaimed(d) => made[d] = 0
    /\ tx[d].status = "COMPLETED" =>
         invoice[d] = "paid" /\ claim[d] \in {"RESERVED", "CONSUMED"}

Facts ==
    /\ \A c \in Requests : RequestOf(c)
    /\ OneMaker
    /\ \A d \in Drafts : DraftOf(d)

\* Whoever is inside the transaction holds the lock and has room for one trial.
RoomFor(c) == pc[c] \in Holding => lock = c /\ Units(Drafts) < scenario.maxClaims + late

Room == QuotaKept /\ \A c \in Requests : RoomFor(c)

Inv == TypeOK /\ Facts /\ Room

------------------------------------------------------------------------------
(***************************************************************************)
(* What the actions do.                                                    *)
(***************************************************************************)

\* The requests are typed.
RequestsOK ==
    /\ pc \in [Requests -> Steps]
    /\ cur \in [Requests -> Drafts \cup {NoDraft}]
    /\ asked \in [Requests -> Gateways \cup {"none"}]
    /\ answer \in [Requests -> {"none", "open", "paid", "dead", "error"}]
    /\ fresh \in SUBSET Requests

\* The drafts are typed.
DraftsOK ==
    /\ tx \in [Drafts -> Rows \cup {Absent}]
    /\ claim \in [Drafts -> {"NONE", "RESERVED", "CONSUMED", "RELEASED"}]
    /\ \A d \in Drafts : claim[d] = "NONE" <=> tx[d] = Absent
    /\ invoice \in [Drafts -> {"none", "open", "paid", "dead"}]
    /\ made \in [Drafts -> Nat]

\* The rest is typed.
RestOK ==
    /\ scenario \in Scenarios
    /\ {grants, late} \subseteq Nat
    /\ lock \in Requests \cup {NoRequest}
    /\ old \in SUBSET Drafts
    /\ doomed \in [Cancelers -> Drafts \cup {NoDraft}]
    /\ spent \in [Bounds -> Nat]

\* The type invariant in its parts.
LEMMA TypeParts == TypeOK <=> RequestsOK /\ DraftsOK /\ RestOK
  BY DEF TypeOK, RequestsOK, DraftsOK, RestOK, Steps

\* Request b is not disturbed.
Same(b) == pc'[b] = pc[b] /\ cur'[b] = cur[b] /\ asked'[b] = asked[b] /\ answer'[b] = answer[b]

\* Only request c moves.
Others(c) == \A b \in Requests : b # c => Same(b)

\* Request c goes on to the step with the draft it had.
Goes(c, step) ==
    /\ RequestsOK' /\ Others(c) /\ pc'[c] = step
    /\ cur'[c] = cur[c] /\ asked'[c] = asked[c] /\ answer'[c] = answer[c]

\* Request c is over.
Ends(c) == RequestsOK' /\ Others(c) /\ pc'[c] = "idle"

\* No request moves.
Quiet == RequestsOK' /\ \A b \in Requests : Same(b)

\* A step by Goto.
LEMMA Going ==
  ASSUME RequestsOK, NEW c \in Requests, NEW step \in Steps, Goto(c, step),
         UNCHANGED <<cur, asked, answer, fresh>>
  PROVE  Goes(c, step)
  BY DEF RequestsOK, Goto, Goes, Others, Same

\* A request that returns.
LEMMA Ending ==
  ASSUME RequestsOK, NEW c \in Requests, Return(c)
  PROVE  Ends(c)
<1>1. "idle" \in Steps
  BY DEF Steps
<1>2. RequestsOK'
  BY <1>1 DEF RequestsOK, Return, Goto
<1>3. QED
  BY <1>2 DEF RequestsOK, Return, Goto, Ends, Others, Same

\* A step outside the requests.
LEMMA Unmoved ==
  ASSUME RequestsOK, UNCHANGED request
  PROVE  Quiet
  BY DEF RequestsOK, request, Quiet, Same

\* A request that goes on with another draft.
LEMMA Turning ==
  ASSUME RequestsOK, NEW c \in Requests, NEW d \in Drafts, NEW step \in Steps,
         cur' = [cur EXCEPT ![c] = d], Goto(c, step), UNCHANGED <<asked, answer>>,
         fresh' \in SUBSET Requests
  PROVE  /\ RequestsOK' /\ Others(c) /\ pc'[c] = step /\ cur'[c] = d
         /\ asked'[c] = asked[c] /\ answer'[c] = answer[c]
  BY DEF RequestsOK, Goto, Others, Same

\* A pending draft exists; a row and its absence are told apart.
LEMMA Present ==
  ASSUME DraftsOK, NEW d \in Drafts
  PROVE  /\ Pending(d) => tx[d] # Absent
         /\ tx[d] # Absent <=> tx[d] \in Rows
         /\ tx[d] = Absent => tx[d].status = "ABSENT"
  BY DEF DraftsOK, Pending, Absent, Rows

\* No draft but d changes.
OtherDrafts(d) ==
    \A e \in Drafts : e # d => /\ tx'[e] = tx[e] /\ claim'[e] = claim[e]
                               /\ invoice'[e] = invoice[e] /\ made'[e] = made[e]

\* No draft changes.
Kept == DraftsOK' /\ \A e \in Drafts : /\ tx'[e] = tx[e] /\ claim'[e] = claim[e]
                                       /\ invoice'[e] = invoice[e] /\ made'[e] = made[e]

\* A step that leaves the drafts alone.
LEMMA Keeping ==
  ASSUME DraftsOK, UNCHANGED <<tx, claim, invoice, made>>
  PROVE  Kept
  BY DEF DraftsOK, Kept

\* The status of a row is written, its provider handle and its link are not.
Marks(d, s) ==
    /\ tx'[d] # Absent /\ tx'[d].status = s
    /\ tx'[d].handle = tx[d].handle /\ tx'[d].url = tx[d].url
    /\ tx'[d].gateway = tx[d].gateway

\* A status is written, and the claim goes with it.
LEMMA Marking ==
  ASSUME DraftsOK, NEW d \in Drafts, tx[d] # Absent,
         NEW s \in {"PENDING", "COMPLETED", "CANCELED", "FAILED"},
         NEW v \in {"RESERVED", "CONSUMED", "RELEASED"},
         tx' = [tx EXCEPT ![d].status = s], claim' = [claim EXCEPT ![d] = v],
         UNCHANGED <<invoice, made>>
  PROVE  /\ DraftsOK' /\ OtherDrafts(d) /\ Marks(d, s) /\ claim'[d] = v
         /\ invoice'[d] = invoice[d] /\ made'[d] = made[d]
<1>1. tx[d] \in Rows
  BY Present
<1>2. tx' = [tx EXCEPT ![d] = [tx[d] EXCEPT !.status = s]]
  BY DEF DraftsOK
<1>3. [tx[d] EXCEPT !.status = s] \in Rows /\ [tx[d] EXCEPT !.status = s].status = s
      /\ [tx[d] EXCEPT !.status = s].handle = tx[d].handle
      /\ [tx[d] EXCEPT !.status = s].url = tx[d].url
      /\ [tx[d] EXCEPT !.status = s].gateway = tx[d].gateway
  BY <1>1 DEF Rows
<1>4. tx'[d] = [tx[d] EXCEPT !.status = s]
  BY <1>2 DEF DraftsOK
<1>5. tx'[d] \in Rows /\ tx'[d] # Absent
  BY <1>3, <1>4 DEF Rows, Absent
<1>6. DraftsOK'
  <2>1. tx' \in [Drafts -> Rows \cup {Absent}]
    BY <1>2, <1>3 DEF DraftsOK
  <2>2. claim' \in [Drafts -> {"NONE", "RESERVED", "CONSUMED", "RELEASED"}]
    BY DEF DraftsOK
  <2>3. ASSUME NEW e \in Drafts PROVE claim'[e] = "NONE" <=> tx'[e] = Absent
    <3>1. CASE e = d
      BY <1>5, <3>1 DEF DraftsOK
    <3>2. CASE e # d
      BY <1>2, <3>2 DEF DraftsOK
    <3>3. QED
      BY <3>1, <3>2
  <2>4. QED
    BY <2>1, <2>2, <2>3 DEF DraftsOK
<1>7. QED
  BY <1>2, <1>3, <1>4, <1>5, <1>6 DEF DraftsOK, OtherDrafts, Marks

\* A claim that exists stays one whatever is written over it; a release is a write.
LEMMA Releasing ==
  ASSUME DraftsOK, NEW d \in Drafts, tx[d] # Absent, Release(d)
  PROVE  \E v \in {"RESERVED", "CONSUMED", "RELEASED"} :
            /\ claim' = [claim EXCEPT ![d] = v]
            /\ v # "RESERVED" /\ (claim[d] = "CONSUMED" <=> v = "CONSUMED")
<1> DEFINE v == IF claim[d] = "RESERVED" THEN "RELEASED" ELSE claim[d]
<1>1. claim[d] \in {"RESERVED", "CONSUMED", "RELEASED"}
  BY DEF DraftsOK
<1>2. claim' = [claim EXCEPT ![d] = v]
  BY DEF Release, DraftsOK
<1>3. QED
  BY <1>1, <1>2

\* A draft that turns terminal gives its reservation back.
LEMMA Closing ==
  ASSUME DraftsOK, NEW d \in Drafts, tx[d] # Absent,
         NEW s \in {"CANCELED", "FAILED"},
         tx' = [tx EXCEPT ![d].status = s], Release(d), UNCHANGED <<invoice, made>>
  PROVE  /\ DraftsOK' /\ OtherDrafts(d) /\ Marks(d, s)
         /\ claim'[d] \in Committed => claim[d] \in Committed
         /\ invoice'[d] = invoice[d] /\ made'[d] = made[d]
<1>1. PICK v \in {"RESERVED", "CONSUMED", "RELEASED"} :
          /\ claim' = [claim EXCEPT ![d] = v]
          /\ v # "RESERVED" /\ (claim[d] = "CONSUMED" <=> v = "CONSUMED")
  BY Releasing
<1>2. QED
  BY <1>1, Marking DEF Committed

\* A delivery completes the draft and consumes its claim.
LEMMA Delivering ==
  ASSUME DraftsOK, NEW d \in Drafts, tx[d] # Absent, Deliver(d),
         late \in Nat, UNCHANGED <<invoice, made>>
  PROVE  /\ DraftsOK' /\ OtherDrafts(d) /\ Marks(d, "COMPLETED")
         /\ claim'[d] = "CONSUMED"
         /\ late' = late + (IF claim[d] = "RELEASED" THEN 1 ELSE 0)
         /\ late' \in Nat
         /\ claim[d] = "RELEASED" \/ claim[d] \in Committed
         /\ invoice'[d] = invoice[d] /\ made'[d] = made[d]
<1>1. tx' = [tx EXCEPT ![d].status = "COMPLETED"] /\ claim' = [claim EXCEPT ![d] = "CONSUMED"]
      /\ late' = IF claim[d] = "RELEASED" THEN late + 1 ELSE late
  BY DEF Deliver, Consumed
<1>2. DraftsOK' /\ OtherDrafts(d) /\ Marks(d, "COMPLETED") /\ claim'[d] = "CONSUMED"
      /\ invoice'[d] = invoice[d] /\ made'[d] = made[d]
  BY <1>1, Marking
<1>3. claim[d] \in {"RESERVED", "CONSUMED", "RELEASED"}
  BY DEF DraftsOK
<1>4. late' = late + (IF claim[d] = "RELEASED" THEN 1 ELSE 0) /\ late' \in Nat
  BY <1>1
<1>5. QED
  BY <1>2, <1>3, <1>4 DEF Committed

\* Beginning a checkout: the draft to replay, or none.
LEMMA BeginEffect ==
  ASSUME TypeOK, NEW c \in Requests, NEW g \in Gateways, Begin(c, g)
  PROVE  /\ RequestsOK' /\ Others(c) /\ Kept /\ pc[c] = "idle" /\ asked'[c] = g
         /\ \/ pc'[c] = "ensure" /\ cur'[c] \in Drafts /\ tx[cur'[c]] # Absent
            \/ pc'[c] = "lock"
<1>1. RequestsOK /\ DraftsOK /\ {"ensure", "lock"} \subseteq Steps
  BY TypeParts DEF Steps
<1>2. Kept
  BY <1>1, Keeping DEF Begin, ledger, provider
<1>3. CASE \E d \in PendingAt(g) : cur' = [cur EXCEPT ![c] = d] /\ Goto(c, "ensure")
  <2>1. PICK d \in Drafts : Pending(d) /\ cur' = [cur EXCEPT ![c] = d] /\ Goto(c, "ensure")
    BY <1>3 DEF PendingAt
  <2>2. pc' = [pc EXCEPT ![c] = "ensure"] /\ asked' = [asked EXCEPT ![c] = g]
        /\ answer' = answer /\ fresh' = fresh /\ pc[c] = "idle"
    BY <2>1 DEF Begin, Goto
  <2>3. RequestsOK' /\ Others(c) /\ pc'[c] = "ensure" /\ cur'[c] = d /\ asked'[c] = g
    BY <1>1, <2>1, <2>2 DEF RequestsOK, Others, Same
  <2>4. tx[d] # Absent
    BY <1>1, <2>1, Present
  <2>5. QED
    BY <1>2, <2>2, <2>3, <2>4
<1>4. CASE Goto(c, "lock") /\ UNCHANGED cur
  <2>1. pc' = [pc EXCEPT ![c] = "lock"] /\ asked' = [asked EXCEPT ![c] = g]
        /\ answer' = answer /\ fresh' = fresh /\ pc[c] = "idle"
    BY <1>4 DEF Begin, Goto
  <2>2. RequestsOK' /\ Others(c) /\ pc'[c] = "lock" /\ asked'[c] = g
    BY <1>1, <1>4, <2>1 DEF RequestsOK, Others, Same
  <2>3. QED
    BY <1>2, <2>1, <2>2
<1>5. QED
  BY <1>3, <1>4 DEF Begin

\* A draft keeps its reservation, gets one, or there is no room for it.
LEMMA KeepEffect ==
  ASSUME RequestsOK, NEW c \in Requests, NEW d \in Drafts, KeepOrReserve(c, d)
  PROVE  /\ RequestsOK' /\ Others(c)
         /\ \/ pc'[c] = "idle" /\ lock' = lock
            \/ pc'[c] = "claim" /\ cur'[c] = d /\ lock' = lock
            \/ pc'[c] = "reserve" /\ cur'[c] = d /\ lock' = c /\ Capacity
<1>1. {"claim", "reserve"} \subseteq Steps /\ fresh \in SUBSET Requests
  BY DEF Steps, RequestsOK
<1>2. CASE claim[d] \in {"RESERVED", "CONSUMED"}
  BY <1>1, <1>2, Turning DEF KeepOrReserve
<1>3. CASE claim[d] \notin {"RESERVED", "CONSUMED"} /\ Capacity
  BY <1>1, <1>3, Turning DEF KeepOrReserve
<1>4. CASE claim[d] \notin {"RESERVED", "CONSUMED"} /\ ~Capacity
  BY <1>4, Ending DEF KeepOrReserve, Ends
<1>5. QED
  BY <1>2, <1>3, <1>4

\* Under the user's lock: a draft to go on with, or room for a new one.
LEMMA LockedEffect ==
  ASSUME TypeOK, NEW c \in Requests, RequestOf(c), Ensure(c) \/ Lock(c)
  PROVE  /\ RequestsOK' /\ Others(c) /\ Kept /\ lock = NoRequest
         /\ \/ pc'[c] = "idle" /\ lock' = lock
            \/ pc'[c] = "claim" /\ cur'[c] \in Drafts /\ tx[cur'[c]] # Absent /\ lock' = lock
            \/ /\ pc'[c] = "reserve" /\ cur'[c] \in Drafts /\ tx[cur'[c]] # Absent
               /\ lock' = c /\ Capacity
            \/ pc'[c] = "open" /\ asked'[c] \in Gateways /\ lock' = c /\ Capacity
<1>1. RequestsOK /\ DraftsOK /\ "open" \in Steps
  BY TypeParts DEF Steps
<1>2. Kept /\ lock = NoRequest
  BY <1>1, Keeping DEF Ensure, Lock, ledger, provider
<1>3. CASE \E d \in Drafts : tx[d] # Absent /\ KeepOrReserve(c, d)
  <2>1. PICK d \in Drafts : tx[d] # Absent /\ KeepOrReserve(c, d)
    BY <1>3
  <2>2. QED
    BY <1>1, <1>2, <2>1, KeepEffect
<1>4. CASE Lock(c) /\ PendingAt(asked[c]) = {} /\ Capacity /\ lock' = c /\ Goto(c, "open")
             /\ UNCHANGED <<cur, asked, answer, fresh>>
  <2>1. Goes(c, "open") /\ pc[c] = "lock"
    BY <1>1, <1>4, Going DEF Lock
  <2>2. QED
    BY <1>2, <1>4, <2>1 DEF Goes, RequestOf
<1>5. CASE Return(c) /\ lock' = lock
  BY <1>1, <1>2, <1>5, Ending DEF Ends
<1>6. CASE Ensure(c)
  <2>1. cur[c] \in Drafts /\ tx[cur[c]] # Absent /\ KeepOrReserve(c, cur[c])
    BY <1>6 DEF Ensure, RequestOf
  <2>2. QED
    BY <1>3, <2>1
<1>7. CASE Lock(c)
  <2>1. CASE \E d \in PendingAt(asked[c]) : KeepOrReserve(c, d)
    <3>1. PICK d \in Drafts : Pending(d) /\ KeepOrReserve(c, d)
      BY <2>1 DEF PendingAt
    <3>2. tx[d] # Absent
      BY <1>1, <3>1, Present
    <3>3. QED
      BY <1>3, <3>1, <3>2
  <2>2. CASE /\ PendingAt(asked[c]) = {}
             /\ IF Capacity
                THEN lock' = c /\ Goto(c, "open") /\ UNCHANGED <<cur, asked, answer, fresh>>
                ELSE Return(c) /\ UNCHANGED lock
    BY <1>4, <1>5, <1>7, <2>2
  <2>3. QED
    BY <1>7, <2>1, <2>2 DEF Lock
<1>8. QED
  BY <1>6, <1>7

\* A new draft is pending and holds a reservation; the lock is free again.
LEMMA OpenEffect ==
  ASSUME TypeOK, NEW c \in Requests, NEW d \in Drafts, RequestOf(c), Open(c, d)
  PROVE  /\ RequestsOK' /\ Others(c) /\ pc[c] = "open" /\ pc'[c] = "claim" /\ cur'[c] = d
         /\ DraftsOK' /\ OtherDrafts(d) /\ tx[d] = Absent
         /\ tx'[d] # Absent /\ tx'[d].status = "PENDING" /\ claim'[d] = "RESERVED"
         /\ invoice'[d] = invoice[d] /\ made'[d] = made[d] /\ lock' = NoRequest
<1>1. RequestsOK /\ DraftsOK /\ "claim" \in Steps /\ fresh \cup {c} \in SUBSET Requests
  BY TypeParts DEF Steps, RequestsOK
<1>2. RequestsOK' /\ Others(c) /\ pc'[c] = "claim" /\ cur'[c] = d
  BY <1>1, Turning DEF Open
<1>3. pc[c] = "open" /\ tx[d] = Absent /\ tx' = [tx EXCEPT ![d] = NewRow(asked[c])]
      /\ claim' = [claim EXCEPT ![d] = "RESERVED"] /\ lock' = NoRequest
      /\ invoice' = invoice /\ made' = made
  BY DEF Open, provider
<1>4. NewRow(asked[c]) \in Rows /\ NewRow(asked[c]) # Absent
      /\ NewRow(asked[c]).status = "PENDING"
  BY <1>3, GatewayAssumption DEF NewRow, Rows, Absent, RequestOf
<1>5. DraftsOK'
  BY <1>1, <1>3, <1>4 DEF DraftsOK
<1>6. QED
  BY <1>1, <1>2, <1>3, <1>4, <1>5 DEF DraftsOK, OtherDrafts

\* The claim is read again ...
LEMMA ReserveEffect ==
  ASSUME TypeOK, NEW c \in Requests, Reserve(c)
  PROVE  /\ Kept /\ pc[c] = "reserve"
         /\ \/ Goes(c, "claim") /\ lock' = NoRequest
            \/ Goes(c, "write") /\ lock' = lock
<1>1. RequestsOK /\ DraftsOK /\ {"claim", "write"} \subseteq Steps
  BY TypeParts DEF Steps
<1>2. Kept
  BY <1>1, Keeping DEF Reserve, ledger, provider
<1>3. CASE Goto(c, "claim") /\ lock' = NoRequest
  BY <1>1, <1>2, <1>3, Going DEF Reserve
<1>4. CASE Goto(c, "write") /\ lock' = lock
  BY <1>1, <1>2, <1>4, Going DEF Reserve
<1>5. QED
  BY <1>3, <1>4 DEF Reserve

\* ... and written.
LEMMA WriteEffect ==
  ASSUME TypeOK, NEW c \in Requests, RequestOf(c), Write(c)
  PROVE  /\ pc[c] = "write" /\ Goes(c, "claim") /\ lock' = NoRequest
         /\ cur[c] \in Drafts /\ DraftsOK' /\ OtherDrafts(cur[c])
         /\ tx'[cur[c]] = tx[cur[c]] /\ claim'[cur[c]] = "RESERVED"
         /\ invoice'[cur[c]] = invoice[cur[c]] /\ made'[cur[c]] = made[cur[c]]
<1>1. RequestsOK /\ DraftsOK /\ "claim" \in Steps
  BY TypeParts DEF Steps
<1>2. Goes(c, "claim") /\ pc[c] = "write" /\ lock' = NoRequest
  BY <1>1, Going DEF Write
<1>3. cur[c] \in Drafts /\ tx[cur[c]] # Absent
  BY <1>2 DEF RequestOf
<1>4. claim' = [claim EXCEPT ![cur[c]] = "RESERVED"] /\ tx' = tx /\ invoice' = invoice
      /\ made' = made
  BY DEF Write, provider
<1>5. DraftsOK'
  BY <1>1, <1>3, <1>4 DEF DraftsOK
<1>6. QED
  BY <1>1, <1>2, <1>3, <1>4, <1>5 DEF DraftsOK, OtherDrafts

\* The provider handle of a row is written, perhaps with its link.
LEMMA Handling ==
  ASSUME DraftsOK, NEW d \in Drafts, NEW r \in Rows, tx[d] # Absent,
         tx' = [tx EXCEPT ![d] = r], UNCHANGED <<claim, invoice, made>>
  PROVE  /\ DraftsOK' /\ OtherDrafts(d) /\ tx'[d] = r /\ tx'[d] # Absent
         /\ claim'[d] = claim[d] /\ invoice'[d] = invoice[d] /\ made'[d] = made[d]
<1>1. r # Absent
  BY DEF Rows, Absent
<1>2. DraftsOK'
  BY <1>1 DEF DraftsOK
<1>3. QED
  BY <1>1, <1>2 DEF DraftsOK, OtherDrafts

\* The creation is claimed with a placeholder, or there is nothing to create.
LEMMA ClaimEffect ==
  ASSUME TypeOK, NEW c \in Requests, RequestOf(c), ClaimCreation(c)
  PROVE  /\ pc[c] = "claim"
         /\ \/ Ends(c) /\ Kept
            \/ /\ Goes(c, "create") /\ cur[c] \in Drafts /\ Unclaimed(cur[c])
               /\ DraftsOK' /\ OtherDrafts(cur[c])
               /\ tx'[cur[c]] # Absent /\ tx'[cur[c]].handle = "claim"
               /\ tx'[cur[c]].status = "PENDING"
               /\ claim'[cur[c]] = claim[cur[c]]
               /\ invoice'[cur[c]] = invoice[cur[c]] /\ made'[cur[c]] = made[cur[c]]
<1> DEFINE d == cur[c]
<1>1. RequestsOK /\ DraftsOK /\ "create" \in Steps /\ pc[c] = "claim"
  BY TypeParts DEF Steps, ClaimCreation
<1>2. d \in Drafts /\ tx[d] # Absent /\ tx[d] \in Rows
  BY <1>1, Present DEF RequestOf
<1>3. CASE Unclaimed(d)
  <2>1. Goes(c, "create")
    BY <1>1, <1>3, Going DEF ClaimCreation
  <2>2. tx' = [tx EXCEPT ![d] = [tx[d] EXCEPT !.handle = "claim"]]
        /\ UNCHANGED <<claim, invoice, made>>
    BY <1>1, <1>2, <1>3 DEF ClaimCreation, DraftsOK, ledger, provider
  <2>3. [tx[d] EXCEPT !.handle = "claim"] \in Rows
        /\ [tx[d] EXCEPT !.handle = "claim"].handle = "claim"
        /\ [tx[d] EXCEPT !.handle = "claim"].status = "PENDING"
    BY <1>2, <1>3 DEF Rows, Unclaimed, Pending
  <2>4. /\ DraftsOK' /\ OtherDrafts(d) /\ tx'[d] = [tx[d] EXCEPT !.handle = "claim"]
        /\ tx'[d] # Absent
        /\ claim'[d] = claim[d] /\ invoice'[d] = invoice[d] /\ made'[d] = made[d]
    BY <1>1, <1>2, <2>2, <2>3, Handling
  <2>5. QED
    BY <1>1, <1>2, <1>3, <2>1, <2>3, <2>4
<1>4. CASE ~Unclaimed(d)
  <2>1. Return(c) /\ UNCHANGED <<tx, claim, invoice, made>>
    BY <1>4 DEF ClaimCreation, ledger, provider
  <2>2. QED
    BY <1>1, <2>1, Ending, Keeping
<1>5. QED
  BY <1>3, <1>4

\* The provider is called once more.
LEMMA CreateEffect ==
  ASSUME TypeOK, NEW c \in Requests, RequestOf(c),
         NEW result \in {"open", "paid", "dead", "error"}, Create(c, result)
  PROVE  /\ RequestsOK' /\ Others(c) /\ pc[c] = "create" /\ cur'[c] = cur[c]
         /\ pc'[c] = (IF result = "error" THEN "fail" ELSE "record") /\ answer'[c] = result
         /\ cur[c] \in Drafts /\ DraftsOK' /\ OtherDrafts(cur[c])
         /\ tx'[cur[c]] = tx[cur[c]] /\ claim'[cur[c]] = claim[cur[c]]
         /\ made'[cur[c]] = made[cur[c]] + 1
         /\ result # "error" => invoice'[cur[c]] = result
<1> DEFINE d == cur[c]
           step == IF result = "error" THEN "fail" ELSE "record"
<1>1. RequestsOK /\ DraftsOK /\ step \in Steps /\ pc[c] = "create"
  BY TypeParts DEF Steps, Create
<1>2. d \in Drafts /\ tx[d] # Absent
  BY <1>1 DEF RequestOf, Making
<1>3. pc' = [pc EXCEPT ![c] = step] /\ answer' = [answer EXCEPT ![c] = result]
      /\ UNCHANGED <<cur, asked, fresh>>
  BY DEF Create, Goto
<1>4. RequestsOK' /\ Others(c) /\ cur'[c] = d /\ pc'[c] = step /\ answer'[c] = result
  <2> HIDE DEF step
  <2>1. QED
    BY <1>1, <1>3 DEF RequestsOK, Others, Same
<1>5. PICK i \in {"none", "open", "paid", "dead"} :
        /\ invoice' = [invoice EXCEPT ![d] = i] /\ (result # "error" => i = result)
  BY DEF Create
<1>6. made' = [made EXCEPT ![d] = @ + 1] /\ tx' = tx /\ claim' = claim
  BY DEF Create, ledger
<1>7. DraftsOK' /\ OtherDrafts(d) /\ made'[d] = made[d] + 1 /\ invoice'[d] = i
  BY <1>1, <1>2, <1>5, <1>6 DEF DraftsOK, OtherDrafts
<1>8. QED
  BY <1>1, <1>2, <1>4, <1>5, <1>6, <1>7

\* A creation that failed fails the draft, unless it is no longer pending.
LEMMA FailEffect ==
  ASSUME TypeOK, NEW c \in Requests, RequestOf(c), Fail(c)
  PROVE  /\ pc[c] = "fail" /\ Ends(c)
         /\ \/ Kept
            \/ /\ cur[c] \in Drafts /\ DraftsOK' /\ OtherDrafts(cur[c])
               /\ Pending(cur[c])
               /\ tx'[cur[c]] # Absent /\ tx'[cur[c]].status = "FAILED"
               /\ claim'[cur[c]] \in Committed => claim[cur[c]] \in Committed
               /\ invoice'[cur[c]] = invoice[cur[c]] /\ made'[cur[c]] = made[cur[c]]
<1> DEFINE d == cur[c]
<1>1. RequestsOK /\ DraftsOK /\ pc[c] = "fail" /\ Return(c)
  BY TypeParts DEF Fail
<1>2. Ends(c)
  BY <1>1, Ending
<1>3. d \in Drafts /\ tx[d] # Absent /\ tx[d] \in Rows
  BY <1>1, Present DEF RequestOf, Making
<1>4. CASE Pending(d) /\ tx[d].handle = "claim"
  <2>1. tx' = [tx EXCEPT ![d] = [tx[d] EXCEPT !.status = "FAILED", !.handle = "none"]]
        /\ Release(d) /\ UNCHANGED <<invoice, made>>
    BY <1>1, <1>3, <1>4 DEF Fail, DraftsOK, provider
  <2>2. [tx[d] EXCEPT !.status = "FAILED", !.handle = "none"] \in Rows
        /\ [tx[d] EXCEPT !.status = "FAILED", !.handle = "none"].status = "FAILED"
        /\ [tx[d] EXCEPT !.status = "FAILED", !.handle = "none"] # Absent
    BY <1>3 DEF Rows, Absent
  <2>3. PICK v \in {"RESERVED", "CONSUMED", "RELEASED"} :
            /\ claim' = [claim EXCEPT ![d] = v]
            /\ v # "RESERVED" /\ (claim[d] = "CONSUMED" <=> v = "CONSUMED")
    BY <1>1, <1>3, <2>1, Releasing
  <2>4. DraftsOK'
    BY <1>1, <1>3, <2>1, <2>2, <2>3 DEF DraftsOK
  <2>5. OtherDrafts(d) /\ tx'[d] = [tx[d] EXCEPT !.status = "FAILED", !.handle = "none"]
        /\ claim'[d] = v
    BY <1>1, <1>3, <2>1, <2>3 DEF DraftsOK, OtherDrafts
  <2>6. QED
    BY <1>1, <1>2, <1>3, <1>4, <2>1, <2>2, <2>3, <2>4, <2>5 DEF Committed
<1>5. CASE ~(Pending(d) /\ tx[d].handle = "claim")
  <2>1. UNCHANGED <<tx, claim, invoice, made>>
    BY <1>5 DEF Fail, provider
  <2>2. QED
    BY <1>1, <1>2, <2>1, Keeping
<1>6. QED
  BY <1>4, <1>5

\* The provider's payment is recorded, whatever the status of the row.
LEMMA RecordEffect ==
  ASSUME TypeOK, NEW c \in Requests, RequestOf(c), Record(c)
  PROVE  /\ pc[c] = "record"
         /\ Ends(c) \/ (Goes(c, "settle") /\ answer[c] \in {"paid", "dead"})
         /\ cur[c] \in Drafts /\ DraftsOK' /\ OtherDrafts(cur[c])
         /\ tx'[cur[c]] # Absent /\ tx'[cur[c]].status = tx[cur[c]].status
         /\ tx'[cur[c]].handle = "id"
         /\ claim'[cur[c]] = claim[cur[c]]
         /\ invoice'[cur[c]] = invoice[cur[c]] /\ made'[cur[c]] = made[cur[c]]
<1> DEFINE d == cur[c]
           r == [tx[d] EXCEPT !.handle = "id", !.url = (answer[c] = "open")]
<1>1. RequestsOK /\ DraftsOK /\ pc[c] = "record" /\ "settle" \in Steps
  BY TypeParts DEF Record, Steps
<1>2. d \in Drafts /\ tx[d] # Absent /\ tx[d] \in Rows
  BY <1>1, Present DEF RequestOf, Making
<1>3. tx' = [tx EXCEPT ![d] = r] /\ UNCHANGED <<claim, invoice, made>>
  BY <1>1, <1>2 DEF Record, DraftsOK, ledger, provider
<1>4. r \in Rows /\ r.status = tx[d].status /\ r.handle = "id"
  BY <1>2 DEF Rows
<1>5. /\ DraftsOK' /\ OtherDrafts(d) /\ tx'[d] = r /\ tx'[d] # Absent
      /\ claim'[d] = claim[d] /\ invoice'[d] = invoice[d] /\ made'[d] = made[d]
  <2> HIDE DEF r
  <2>1. QED
    BY <1>1, <1>2, <1>3, <1>4, Handling
<1>6. Ends(c) \/ (Goes(c, "settle") /\ answer[c] \in {"paid", "dead"})
  <2>1. CASE answer[c] = "open"
    BY <1>1, <2>1, Ending DEF Record
  <2>2. CASE answer[c] # "open"
    BY <1>1, <2>2, Going DEF Record, RequestOf
  <2>3. QED
    BY <2>1, <2>2
<1>7. QED
  BY <1>1, <1>2, <1>4, <1>5, <1>6

\* A draft delivered by a step: it is completed and its claim consumed.
Delivers(d) ==
    /\ d \in Drafts /\ DraftsOK' /\ OtherDrafts(d) /\ Marks(d, "COMPLETED")
    /\ claim'[d] = "CONSUMED"
    /\ late' = late + (IF claim[d] = "RELEASED" THEN 1 ELSE 0) /\ late' \in Nat
    /\ claim[d] = "RELEASED" \/ claim[d] \in Committed
    /\ invoice'[d] = invoice[d] /\ made'[d] = made[d]

\* A draft closed by a step: it is canceled, and its claim counts no more than before.
Closes(d) ==
    /\ d \in Drafts /\ DraftsOK' /\ OtherDrafts(d) /\ Marks(d, "CANCELED")
    /\ claim'[d] \in Committed => claim[d] \in Committed
    /\ invoice'[d] = invoice[d] /\ made'[d] = made[d] /\ late' = late

\* Charged at once, or refused at once.
LEMMA SettleEffect ==
  ASSUME TypeOK, NEW c \in Requests, RequestOf(c), Settle(c)
  PROVE  /\ pc[c] = "settle" /\ Ends(c)
         /\ \/ Kept /\ late' = late
            \/ answer[c] = "paid" /\ Delivers(cur[c])
            \/ answer[c] = "dead" /\ Closes(cur[c])
<1> DEFINE d == cur[c]
<1>1. RequestsOK /\ DraftsOK /\ late \in Nat /\ pc[c] = "settle" /\ Return(c)
      /\ UNCHANGED <<invoice, made>>
  BY TypeParts DEF Settle, RestOK, provider
<1>2. Ends(c)
  BY <1>1, Ending
<1>3. d \in Drafts /\ tx[d] # Absent
  BY <1>1 DEF RequestOf, Making
<1>4. CASE answer[c] = "paid" /\ Deliver(d)
  BY <1>1, <1>2, <1>3, <1>4, Delivering DEF Delivers
<1>5. CASE answer[c] = "paid" /\ UNCHANGED <<tx, claim, late>>
  BY <1>1, <1>2, <1>5, Keeping
<1>6. CASE answer[c] = "dead" /\ tx' = [tx EXCEPT ![d].status = "CANCELED"] /\ Release(d)
             /\ late' = late
  BY <1>1, <1>2, <1>3, <1>6, Closing DEF Closes
<1>7. QED
  BY <1>4, <1>5, <1>6 DEF Settle

\* A free trial is granted under the lock.
LEMMA GrantEffects ==
  ASSUME TypeOK, NEW c \in Requests
  PROVE  /\ BeginGrant(c) => /\ pc[c] = "idle" /\ Goes(c, "grant") /\ Kept
                             /\ lock = NoRequest /\ lock' = c /\ Capacity
         /\ Grant(c) => pc[c] = "grant" /\ Ends(c) /\ Kept /\ lock' = NoRequest
         /\ Crash(c) => /\ pc[c] # "idle" /\ Ends(c) /\ Kept
                        /\ lock' = IF lock = c THEN NoRequest ELSE lock
<1>1. RequestsOK /\ DraftsOK /\ "grant" \in Steps
  BY TypeParts DEF Steps
<1>2. ASSUME BeginGrant(c)
      PROVE  /\ pc[c] = "idle" /\ Goes(c, "grant") /\ Kept
             /\ lock = NoRequest /\ lock' = c /\ Capacity
  BY <1>1, <1>2, Going, Keeping DEF BeginGrant, ledger, provider
<1>3. ASSUME Grant(c) PROVE pc[c] = "grant" /\ Ends(c) /\ Kept /\ lock' = NoRequest
  BY <1>1, <1>3, Ending, Keeping DEF Grant, provider
<1>4. ASSUME Crash(c)
      PROVE  pc[c] # "idle" /\ Ends(c) /\ Kept /\ lock' = IF lock = c THEN NoRequest ELSE lock
  BY <1>1, <1>4, Ending, Keeping DEF Crash, ledger, provider
<1>5. QED
  BY <1>2, <1>3, <1>4

\* Time, the sweep's decision, the buyer's, and the page at the provider.
LEMMA OutsideEffects ==
  ASSUME TypeOK, Facts, NEW d \in Drafts
  PROVE  /\ Age(d) => Quiet /\ Kept
         /\ Abandon(d) => Quiet /\ Kept
         /\ Sweep(d) => /\ Quiet
                        /\ \/ Kept /\ late' = late
                           \/ invoice[d] = "paid" /\ Delivers(d)
         /\ Decide(d) => /\ Quiet /\ DraftsOK' /\ OtherDrafts(d) /\ invoice[d] = "open"
                         /\ tx'[d] = tx[d] /\ claim'[d] = claim[d] /\ made'[d] = made[d]
<1>1. RequestsOK /\ DraftsOK /\ late \in Nat
  BY TypeParts DEF RestOK
<1>2. ASSUME Age(d) PROVE Quiet /\ Kept
  BY <1>1, <1>2, Unmoved, Keeping DEF Age, ledger, provider
<1>3. ASSUME Abandon(d) PROVE Quiet /\ Kept
  BY <1>1, <1>3, Unmoved, Keeping DEF Abandon, ledger, provider
<1>4. ASSUME Sweep(d)
      PROVE  Quiet /\ ((Kept /\ late' = late) \/ (invoice[d] = "paid" /\ Delivers(d)))
  <2>1. Quiet /\ UNCHANGED <<invoice, made>> /\ tx[d] # Absent
    BY <1>1, <1>4, Unmoved, Present DEF Sweep, provider
  <2>2. CASE UNCHANGED <<tx, claim, late>>
    BY <1>1, <2>1, <2>2, Keeping
  <2>3. CASE invoice[d] = "paid" /\ Deliver(d)
    BY <1>1, <2>1, <2>3, Delivering DEF Delivers
  <2>4. QED
    BY <1>4, <2>2, <2>3 DEF Sweep
<1>5. ASSUME Decide(d)
      PROVE  /\ Quiet /\ DraftsOK' /\ OtherDrafts(d) /\ invoice[d] = "open"
             /\ tx'[d] = tx[d] /\ claim'[d] = claim[d] /\ made'[d] = made[d]
  <2>1. PICK i \in {"paid", "dead"} : invoice' = [invoice EXCEPT ![d] = i]
    BY <1>5 DEF Decide
  <2>2. UNCHANGED <<tx, claim, made, request>> /\ invoice[d] = "open"
    BY <1>5 DEF Decide, ledger
  <2>3. DraftsOK' /\ OtherDrafts(d)
    BY <1>1, <2>1, <2>2 DEF DraftsOK, OtherDrafts
  <2>4. QED
    BY <1>1, <2>2, <2>3, Unmoved
<1>6. QED
  BY <1>2, <1>3, <1>4, <1>5

\* A draft that the provider knows exists.
LEMMA Known ==
  ASSUME Facts, NEW d \in Drafts, invoice[d] # "none"
  PROVE  tx[d] # Absent
  BY DEF Facts, DraftOf

\* A capture delivers whatever the row says, a refusal cancels a pending row.
LEMMA WebhookEffect ==
  ASSUME TypeOK, Facts, NEW d \in Drafts, Webhook(d)
  PROVE  /\ Quiet
         /\ \/ invoice[d] = "paid" /\ Delivers(d)
            \/ Closes(d) /\ Pending(d)
            \/ /\ invoice[d] = "dead"
               /\ DraftsOK' /\ OtherDrafts(d) /\ tx'[d] = tx[d]
               /\ claim'[d] \in Committed => claim[d] \in Committed
               /\ invoice'[d] = invoice[d] /\ made'[d] = made[d] /\ late' = late
<1>1. RequestsOK /\ DraftsOK /\ late \in Nat /\ UNCHANGED <<invoice, made>> /\ Quiet
  BY TypeParts, Unmoved DEF RestOK, Webhook, provider
<1>2. tx[d] # Absent
  BY Known DEF Webhook
<1>3. CASE invoice[d] = "paid" /\ Deliver(d)
  BY <1>1, <1>2, <1>3, Delivering DEF Delivers
<1>4. CASE invoice[d] = "dead" /\ Pending(d) /\ tx' = [tx EXCEPT ![d].status = "CANCELED"]
             /\ Release(d) /\ late' = late
  BY <1>1, <1>2, <1>4, Closing DEF Closes
<1>5. CASE invoice[d] = "dead" /\ tx' = tx /\ Release(d) /\ late' = late
  <2>1. PICK v \in {"RESERVED", "CONSUMED", "RELEASED"} :
            /\ claim' = [claim EXCEPT ![d] = v]
            /\ v # "RESERVED" /\ (claim[d] = "CONSUMED" <=> v = "CONSUMED")
    BY <1>1, <1>2, <1>5, Releasing
  <2>2. DraftsOK' /\ OtherDrafts(d) /\ claim'[d] = v
    BY <1>1, <1>2, <1>5, <2>1 DEF DraftsOK, OtherDrafts
  <2>3. QED
    BY <1>1, <1>5, <2>1, <2>2 DEF Committed
<1>6. QED
  BY <1>3, <1>4, <1>5 DEF Webhook

\* The decision to cancel is carried out on a draft that is still pending.
LEMMA CancelEffect ==
  ASSUME TypeOK, NEW k \in Cancelers, Cancel(k)
  PROVE  /\ Quiet
         /\ \/ Kept /\ late' = late
            \/ \E d \in Drafts : Closes(d) /\ Pending(d)
<1>1. RequestsOK /\ DraftsOK /\ doomed[k] \in Drafts /\ UNCHANGED <<invoice, made, late>> /\ Quiet
  BY TypeParts, Unmoved DEF RestOK, Cancel, provider
<1>2. CASE Pending(doomed[k])
  <2>1. tx' = [tx EXCEPT ![doomed[k]].status = "CANCELED"] /\ Release(doomed[k])
    BY <1>2 DEF Cancel, StillPending
  <2>2. tx[doomed[k]] # Absent
    BY <1>1, <1>2, Present
  <2>3. Closes(doomed[k])
    BY <1>1, <2>1, <2>2, Closing DEF Closes
  <2>4. QED
    BY <1>1, <1>2, <2>3
<1>3. CASE ~Pending(doomed[k])
  <2>1. UNCHANGED <<tx, claim>>
    BY <1>3 DEF Cancel, StillPending
  <2>2. QED
    BY <1>1, <2>1, Keeping
<1>4. QED
  BY <1>2, <1>3

------------------------------------------------------------------------------
(***************************************************************************)
(* Types, and what is known of each request and each draft.                *)
(***************************************************************************)

\* A bound that is used up by one stays a number.
LEMMA Spending ==
  ASSUME spent \in [Bounds -> Nat], NEW b \in Bounds, Spend(b)
  PROVE  spent' \in [Bounds -> Nat]
  BY DEF Spend

\* Nothing moves.
LEMMA Stuttering ==
  ASSUME TypeOK, UNCHANGED vars
  PROVE  Quiet /\ Kept /\ RestOK' /\ late' = late /\ lock' = lock /\ grants' = grants
<1>1. RequestsOK /\ DraftsOK /\ RestOK
  BY TypeParts
<1>2. UNCHANGED request /\ UNCHANGED <<tx, claim, invoice, made>>
      /\ UNCHANGED <<scenario, grants, late, lock, old, doomed, spent>>
  BY DEF vars, request
<1>3. QED
  BY <1>1, <1>2, Unmoved, Keeping DEF RestOK

\* The types at every step.
LEMMA TypeStep ==
  ASSUME TypeOK, Facts, [Next]_vars
  PROVE  TypeOK'
<1>1. RequestsOK /\ DraftsOK /\ RestOK
  BY TypeParts
<1>2. {"asks", "grants", "crashes"} = Bounds /\ {"sweep", "abandon"} = Cancelers
  BY DEF Bounds, Cancelers
<1>3. \A c \in Requests : RequestOf(c)
  BY DEF Facts
<1>4. ASSUME NEW c \in Requests, NEW g \in Gateways, Begin(c, g)
      PROVE  RequestsOK' /\ DraftsOK' /\ RestOK'
  <2>1. RequestsOK' /\ DraftsOK'
    BY <1>1, <1>3, <1>4, BeginEffect DEF Goes, Ends, Quiet, Kept, Delivers, Closes
  <2>2. spent' \in [Bounds -> Nat]
    BY <1>1, <1>2, <1>4, Spending DEF Begin, RestOK
  <2>3. QED
    BY <1>1, <1>4, <2>1, <2>2 DEF Begin, RestOK, ledger
<1>5. ASSUME NEW c \in Requests, NEW d \in Drafts, Open(c, d)
      PROVE  RequestsOK' /\ DraftsOK' /\ RestOK'
  <2>1. RequestsOK' /\ DraftsOK'
    BY <1>1, <1>3, <1>5, OpenEffect DEF Goes, Ends, Quiet, Kept, Delivers, Closes
  <2>2. QED
    BY <1>1, <1>2, <1>5, <2>1 DEF Open, RestOK, background
<1>6. ASSUME NEW c \in Requests, NEW result \in {"open", "paid", "dead", "error"},
             Create(c, result)
      PROVE  RequestsOK' /\ DraftsOK' /\ RestOK'
  <2>1. RequestsOK' /\ DraftsOK'
    BY <1>1, <1>3, <1>6, CreateEffect DEF Goes, Ends, Quiet, Kept, Delivers, Closes
  <2>2. QED
    BY <1>1, <1>2, <1>6, <2>1 DEF Create, RestOK, background, ledger
<1>7. ASSUME NEW c \in Requests, Ensure(c)
      PROVE  RequestsOK' /\ DraftsOK' /\ RestOK'
  <2>1. RequestsOK' /\ DraftsOK' /\ lock' \in {lock, c}
    BY <1>1, <1>3, <1>7, LockedEffect DEF Goes, Ends, Quiet, Kept, Delivers, Closes
  <2>2. UNCHANGED <<scenario, grants, late, old, doomed, spent>>
    BY <1>7 DEF Ensure, ledger, background
  <2>3. QED
    BY <1>1, <2>1, <2>2 DEF RestOK
<1>8. ASSUME NEW c \in Requests, Lock(c)
      PROVE  RequestsOK' /\ DraftsOK' /\ RestOK'
  <2>1. RequestsOK' /\ DraftsOK' /\ lock' \in {lock, c}
    BY <1>1, <1>3, <1>8, LockedEffect DEF Goes, Ends, Quiet, Kept, Delivers, Closes
  <2>2. UNCHANGED <<scenario, grants, late, old, doomed, spent>>
    BY <1>8 DEF Lock, ledger, background
  <2>3. QED
    BY <1>1, <2>1, <2>2 DEF RestOK
<1>9. ASSUME NEW c \in Requests, Reserve(c)
      PROVE  RequestsOK' /\ DraftsOK' /\ RestOK'
  <2>1. RequestsOK' /\ DraftsOK'
    BY <1>1, <1>3, <1>9, ReserveEffect DEF Goes, Ends, Quiet, Kept, Delivers, Closes
  <2>2. QED
    BY <1>1, <1>2, <1>9, <2>1 DEF Reserve, RestOK, background, ledger
<1>10. ASSUME NEW c \in Requests, Write(c)
       PROVE  RequestsOK' /\ DraftsOK' /\ RestOK'
  <2>1. RequestsOK' /\ DraftsOK'
    BY <1>1, <1>3, <1>10, WriteEffect DEF Goes, Ends, Quiet, Kept, Delivers, Closes
  <2>2. QED
    BY <1>1, <1>2, <1>10, <2>1 DEF Write, RestOK, background
<1>11. ASSUME NEW c \in Requests, ClaimCreation(c)
       PROVE  RequestsOK' /\ DraftsOK' /\ RestOK'
  <2>1. RequestsOK' /\ DraftsOK'
    BY <1>1, <1>3, <1>11, ClaimEffect DEF Goes, Ends, Quiet, Kept, Delivers, Closes
  <2>2. QED
    BY <1>1, <1>2, <1>11, <2>1 DEF ClaimCreation, RestOK, background, ledger
<1>12. ASSUME NEW c \in Requests, Fail(c)
       PROVE  RequestsOK' /\ DraftsOK' /\ RestOK'
  <2>1. RequestsOK' /\ DraftsOK'
    BY <1>1, <1>3, <1>12, FailEffect DEF Goes, Ends, Quiet, Kept, Delivers, Closes
  <2>2. QED
    BY <1>1, <1>2, <1>12, <2>1 DEF Fail, RestOK, background
<1>13. ASSUME NEW c \in Requests, Record(c)
       PROVE  RequestsOK' /\ DraftsOK' /\ RestOK'
  <2>1. RequestsOK' /\ DraftsOK'
    BY <1>1, <1>3, <1>13, RecordEffect DEF Goes, Ends, Quiet, Kept, Delivers, Closes
  <2>2. QED
    BY <1>1, <1>2, <1>13, <2>1 DEF Record, RestOK, background, ledger
<1>14. ASSUME NEW c \in Requests, Settle(c)
       PROVE  RequestsOK' /\ DraftsOK' /\ RestOK'
  <2>1. RequestsOK' /\ DraftsOK' /\ late' \in Nat
    BY <1>1, <1>3, <1>14, SettleEffect DEF Ends, Quiet, Kept, Delivers, Closes, RestOK
  <2>2. QED
    BY <1>1, <1>2, <1>14, <2>1 DEF Settle, RestOK, request, background
<1>15. ASSUME NEW c \in Requests, Grant(c)
       PROVE  RequestsOK' /\ DraftsOK' /\ RestOK'
  <2>1. RequestsOK' /\ DraftsOK'
    BY <1>1, <1>3, <1>15, GrantEffects DEF Goes, Ends, Quiet, Kept, Delivers, Closes
  <2>2. QED
    BY <1>1, <1>2, <1>15, <2>1 DEF Grant, RestOK, background
<1>16. ASSUME NEW c \in Requests, BeginGrant(c)
       PROVE  RequestsOK' /\ DraftsOK' /\ RestOK'
  <2>1. RequestsOK' /\ DraftsOK'
    BY <1>1, <1>3, <1>16, GrantEffects DEF Goes, Ends, Quiet, Kept, Delivers, Closes
  <2>2. spent' \in [Bounds -> Nat]
    BY <1>1, <1>2, <1>16, Spending DEF BeginGrant, RestOK
  <2>3. QED
    BY <1>1, <1>16, <2>1, <2>2 DEF BeginGrant, RestOK, ledger
<1>17. ASSUME NEW c \in Requests, Crash(c)
       PROVE  RequestsOK' /\ DraftsOK' /\ RestOK'
  <2>1. RequestsOK' /\ DraftsOK'
    BY <1>1, <1>3, <1>17, GrantEffects DEF Goes, Ends, Quiet, Kept, Delivers, Closes
  <2>2. spent' \in [Bounds -> Nat]
    BY <1>1, <1>2, <1>17, Spending DEF Crash, RestOK
  <2>3. QED
    BY <1>1, <1>17, <2>1, <2>2 DEF Crash, RestOK, ledger
<1>18. ASSUME NEW d \in Drafts, Sweep(d)
       PROVE  RequestsOK' /\ DraftsOK' /\ RestOK'
  <2>1. RequestsOK' /\ DraftsOK' /\ late' \in Nat
    BY <1>1, <1>3, <1>18, OutsideEffects DEF Ends, Quiet, Kept, Delivers, Closes, RestOK
  <2>2. QED
    BY <1>1, <1>2, <1>18, <2>1 DEF Sweep, RestOK, request, background
<1>19. ASSUME NEW d \in Drafts, Age(d) PROVE RequestsOK' /\ DraftsOK' /\ RestOK'
  <2>1. RequestsOK' /\ DraftsOK'
    BY <1>1, <1>3, <1>19, OutsideEffects DEF Goes, Ends, Quiet, Kept, Delivers, Closes
  <2>2. QED
    BY <1>1, <1>2, <1>19, <2>1 DEF Age, RestOK, ledger
<1>20. ASSUME NEW d \in Drafts, Abandon(d)
       PROVE  RequestsOK' /\ DraftsOK' /\ RestOK'
  <2>1. RequestsOK' /\ DraftsOK'
    BY <1>1, <1>3, <1>20, OutsideEffects DEF Goes, Ends, Quiet, Kept, Delivers, Closes
  <2>2. QED
    BY <1>1, <1>2, <1>20, <2>1 DEF Abandon, RestOK, ledger
<1>21. ASSUME NEW d \in Drafts, Decide(d)
       PROVE  RequestsOK' /\ DraftsOK' /\ RestOK'
  <2>1. RequestsOK' /\ DraftsOK'
    BY <1>1, <1>3, <1>21, OutsideEffects DEF Goes, Ends, Quiet, Kept, Delivers, Closes
  <2>2. QED
    BY <1>1, <1>2, <1>21, <2>1 DEF Decide, RestOK, ledger, background
<1>22. ASSUME NEW d \in Drafts, Webhook(d)
       PROVE  RequestsOK' /\ DraftsOK' /\ RestOK'
  <2>1. RequestsOK' /\ DraftsOK' /\ late' \in Nat
    BY <1>1, <1>3, <1>22, WebhookEffect DEF Ends, Quiet, Kept, Delivers, Closes, RestOK
  <2>2. QED
    BY <1>1, <1>2, <1>22, <2>1 DEF Webhook, RestOK, request, background
<1>23. ASSUME NEW k \in Cancelers, Cancel(k)
       PROVE  RequestsOK' /\ DraftsOK' /\ RestOK'
  <2>1. RequestsOK' /\ DraftsOK'
    BY <1>1, <1>3, <1>23, CancelEffect DEF Goes, Ends, Quiet, Kept, Delivers, Closes
  <2>2. QED
    BY <1>1, <1>2, <1>23, <2>1 DEF Cancel, RestOK
<1>24. ASSUME UNCHANGED vars PROVE RequestsOK' /\ DraftsOK' /\ RestOK'
  BY <1>1, <1>24, Stuttering DEF Quiet, Kept
<1>25. RequestsOK' /\ DraftsOK' /\ RestOK'
  BY <1>4, <1>5, <1>6, <1>7, <1>8, <1>9, <1>10, <1>11, <1>12, <1>13, <1>14,
     <1>15, <1>16, <1>17, <1>18, <1>19, <1>20, <1>21, <1>22, <1>23, <1>24 DEF
     Next, RequestStep, SweepStep
<1>26. QED
  BY <1>25 DEF TypeOK, RequestsOK, DraftsOK, RestOK, Steps

\* A draft that a step leaves alone keeps its facts.
LEMMA DraftStays ==
  ASSUME NEW e \in Drafts, DraftOf(e), tx'[e] = tx[e], claim'[e] = claim[e],
         invoice'[e] = invoice[e], made'[e] = made[e]
  PROVE  DraftOf(e)'
  BY DEF DraftOf, Unclaimed, Pending

\* A step does not free a draft for creation nor change a final answer.
Calm(e) ==
    /\ tx[e] # Absent => tx'[e] # Absent /\ (Unclaimed(e)' => Unclaimed(e))
    /\ invoice[e] \in {"paid", "dead"} => invoice'[e] = invoice[e]

\* A request that does not move keeps its facts, if its draft is calm.
LEMMA RequestStays ==
  ASSUME NEW b \in Requests, RequestOf(b), Same(b), pc[b] \in Steps,
         cur[b] \in Drafts => /\ Calm(cur[b])
                              /\ made'[cur[b]] = made[cur[b]] \/ pc[b] # "create"
  PROVE  RequestOf(b)'
<1>1. UNCHANGED <<Making, Drafts, Gateways>>
  BY DEF Making
<1>2. pc[b] \in Making => cur[b] \in Drafts /\ tx[cur[b]] # Absent
  BY DEF RequestOf
<1>3. QED
  BY <1>2 DEF RequestOf, Same, Calm, Making

\* One request moves, one draft changes.
LEMMA FactsAround ==
  ASSUME TypeOK, Facts, NEW c \in Requests, Others(c), RequestOf(c)',
         NEW d \in Drafts, OtherDrafts(d), Calm(d), DraftOf(d)',
         made'[d] = made[d] \/ (pc[c] = "create" /\ cur[c] = d),
         pc'[c] \in Making => \/ pc[c] \in Making /\ cur'[c] = cur[c]
                              \/ Unclaimed(cur'[c])
  PROVE  Facts'
<1>1. \A e \in Drafts : DraftOf(e)'
  BY DraftStays DEF Facts, OtherDrafts
<1>2. \A e \in Drafts : Calm(e)
  BY DEF OtherDrafts, Calm, Unclaimed, Pending
<1>3. ASSUME NEW b \in Requests PROVE RequestOf(b)'
  <2>1. CASE b = c
    BY <2>1
  <2>2. CASE b # c
    <3>1. Same(b) /\ RequestOf(b) /\ pc[b] \in Steps
      BY <2>2 DEF Others, Facts, TypeOK, Steps
    <3>2. cur[b] = d /\ pc[b] = "create" => made'[d] = made[d]
      BY <2>2 DEF Facts, OneMaker, Making
    <3>3. cur[b] \in Drafts => made'[cur[b]] = made[cur[b]] \/ pc[b] # "create"
      BY <3>2 DEF OtherDrafts
    <3>4. QED
      BY <1>2, <3>1, <3>3, RequestStays
  <2>3. QED
    BY <2>1, <2>2
<1>4. OneMaker'
  <2>1. \A b \in Requests : pc[b] \in Making => ~Unclaimed(cur[b])
    BY DEF Facts, RequestOf
  <2>2. QED
    BY <2>1 DEF Facts, OneMaker, Others, Same
<1>5. QED
  BY <1>1, <1>3, <1>4 DEF Facts

\* One request moves, the drafts stay.
LEMMA FactsKept ==
  ASSUME TypeOK, Facts, Kept, NEW c \in Requests, Others(c), RequestOf(c)',
         pc'[c] \in Making => pc[c] \in Making /\ cur'[c] = cur[c]
  PROVE  Facts'
<1>1. \A e \in Drafts : DraftOf(e)' /\ Calm(e)
  BY DraftStays DEF Facts, Kept, Calm, Unclaimed, Pending
<1>2. ASSUME NEW b \in Requests PROVE RequestOf(b)'
  BY <1>1, <1>2, RequestStays DEF Others, Facts, Kept, TypeOK, Steps
<1>3. OneMaker'
  BY DEF Facts, OneMaker, Others, Same
<1>4. QED
  BY <1>1, <1>2, <1>3 DEF Facts

\* No request moves, one draft changes.
LEMMA FactsOutside ==
  ASSUME TypeOK, Facts, Quiet, NEW d \in Drafts, OtherDrafts(d), Calm(d), DraftOf(d)',
         made'[d] = made[d]
  PROVE  Facts'
<1>1. \A e \in Drafts : DraftOf(e)'
  BY DraftStays DEF Facts, OtherDrafts
<1>2. \A e \in Drafts : Calm(e) /\ made'[e] = made[e]
  BY DEF OtherDrafts, Calm, Unclaimed, Pending
<1>3. ASSUME NEW b \in Requests PROVE RequestOf(b)'
  BY <1>2, <1>3, RequestStays DEF Quiet, Facts, TypeOK, Steps
<1>4. OneMaker'
  BY DEF Facts, OneMaker, Quiet, Same
<1>5. QED
  BY <1>1, <1>3, <1>4 DEF Facts

\* Nothing moves but bookkeeping.
LEMMA FactsQuiet ==
  ASSUME TypeOK, Facts, Quiet, Kept
  PROVE  Facts'
<1>1. \A e \in Drafts : DraftOf(e)' /\ Calm(e)
  BY DraftStays DEF Facts, Kept, Calm, Unclaimed, Pending
<1>2. ASSUME NEW b \in Requests PROVE RequestOf(b)'
  BY <1>1, <1>2, RequestStays DEF Quiet, Facts, Kept, TypeOK, Steps
<1>3. OneMaker'
  BY DEF Facts, OneMaker, Quiet, Same
<1>4. QED
  BY <1>1, <1>2, <1>3 DEF Facts

\* A draft whose status is written is not freed for creation.
LEMMA Settled ==
  ASSUME DraftsOK, NEW d \in Drafts, DraftOf(d), tx[d] # Absent,
         \/ Delivers(d) /\ invoice[d] = "paid"
         \/ Closes(d)
  PROVE  Calm(d) /\ DraftOf(d)' /\ made'[d] = made[d] /\ OtherDrafts(d)
<1>1. tx'[d] # Absent /\ tx'[d].status \in {"COMPLETED", "CANCELED"}
      /\ invoice'[d] = invoice[d] /\ made'[d] = made[d] /\ OtherDrafts(d)
  BY DEF Delivers, Closes, Marks
<1>2. ~Unclaimed(d)'
  BY <1>1 DEF Unclaimed, Pending
<1>3. Calm(d)
  BY <1>1, <1>2 DEF Calm
<1>4. tx'[d].status = "COMPLETED" => invoice[d] = "paid" /\ claim'[d] = "CONSUMED"
  BY DEF Delivers, Closes, Marks
<1>5. DraftOf(d)'
  BY <1>1, <1>2, <1>4 DEF DraftOf
<1>6. QED
  BY <1>1, <1>3, <1>5

\* A request that is over knows nothing.
LEMMA Over ==
  ASSUME NEW c \in Requests, pc'[c] \in {"idle", "grant"}
  PROVE  RequestOf(c)' /\ pc'[c] \notin Making
  BY DEF RequestOf, Making

\* What is known of requests and drafts, at every step.
LEMMA FactsStep ==
  ASSUME TypeOK, Facts, [Next]_vars
  PROVE  Facts'
<1>1. RequestsOK /\ DraftsOK
  BY TypeParts
<1>2. /\ \A c \in Requests : RequestOf(c)
      /\ \A d \in Drafts : DraftOf(d)
  BY DEF Facts
<1>3. ASSUME NEW c \in Requests, NEW g \in Gateways, Begin(c, g) PROVE Facts'
  <2>1. Others(c) /\ Kept
    BY <1>2, <1>3, BeginEffect
  <2>2. RequestOf(c)' /\ pc'[c] \notin Making
    BY <1>2, <1>3, <2>1, BeginEffect DEF RequestOf, Making, Kept, Goes
  <2>3. QED
    BY <2>1, <2>2, FactsKept
<1>4. ASSUME NEW c \in Requests, NEW d \in Drafts, Open(c, d) PROVE Facts'
  <2>1. Others(c) /\ OtherDrafts(d) /\ made'[d] = made[d]
    BY <1>2, <1>4, OpenEffect
  <2>2. Calm(d) /\ DraftOf(d)'
    BY <1>2, <1>4, OpenEffect DEF Calm, DraftOf
  <2>3. RequestOf(c)' /\ pc'[c] \notin Making
    BY <1>2, <1>4, OpenEffect DEF RequestOf, Making
  <2>4. QED
    BY <2>1, <2>2, <2>3, FactsAround
<1>5. ASSUME NEW c \in Requests, NEW result \in {"open", "paid", "dead", "error"},
             Create(c, result)
      PROVE  Facts'
  <2>1. PICK d \in Drafts : d = cur[c] /\ tx[d] # Absent
    BY <1>2, <1>5, CreateEffect DEF RequestOf, Making
  <2>2. /\ Others(c) /\ OtherDrafts(d) /\ pc[c] = "create" /\ cur'[c] = d
        /\ pc'[c] = (IF result = "error" THEN "fail" ELSE "record") /\ answer'[c] = result
        /\ tx'[d] = tx[d] /\ claim'[d] = claim[d] /\ made'[d] = made[d] + 1
        /\ result # "error" => invoice'[d] = result
    BY <1>5, <1>2, <2>1, CreateEffect
  <2>3. made[d] = 0 /\ invoice[d] = "none" /\ ~Unclaimed(d)
    BY <1>2, <2>1, <2>2 DEF RequestOf, DraftOf, Making
  <2>4. made'[d] = 1 /\ ~Unclaimed(d)'
    BY <2>2, <2>3 DEF Unclaimed, Pending
  <2>5. Calm(d) /\ DraftOf(d)'
    BY <1>2, <2>1, <2>2, <2>3, <2>4 DEF Calm, DraftOf
  <2>6. RequestOf(c)'
    BY <2>1, <2>2, <2>4 DEF RequestOf, Making
  <2>7. QED
    BY <2>1, <2>2, <2>5, <2>6, FactsAround DEF Making
<1>6. ASSUME NEW c \in Requests, Ensure(c) PROVE Facts'
  <2>1. Others(c) /\ Kept
    BY <1>2, <1>6, LockedEffect
  <2>2. RequestOf(c)' /\ pc'[c] \notin Making
    BY <1>2, <1>6, <2>1, LockedEffect DEF RequestOf, Making, Kept, Goes
  <2>3. QED
    BY <2>1, <2>2, FactsKept
<1>7. ASSUME NEW c \in Requests, Lock(c) PROVE Facts'
  <2>1. Others(c) /\ Kept
    BY <1>2, <1>7, LockedEffect
  <2>2. RequestOf(c)' /\ pc'[c] \notin Making
    BY <1>2, <1>7, <2>1, LockedEffect DEF RequestOf, Making, Kept, Goes
  <2>3. QED
    BY <2>1, <2>2, FactsKept
<1>8. ASSUME NEW c \in Requests, Reserve(c) PROVE Facts'
  <2>1. Others(c) /\ Kept
    BY <1>2, <1>8, ReserveEffect DEF Goes
  <2>2. RequestOf(c)' /\ pc'[c] \notin Making
    BY <1>2, <1>8, <2>1, ReserveEffect DEF RequestOf, Making, Kept, Goes
  <2>3. QED
    BY <2>1, <2>2, FactsKept
<1>9. ASSUME NEW c \in Requests, Write(c) PROVE Facts'
  <2>1. PICK d \in Drafts : d = cur[c] /\ tx[d] # Absent
    BY <1>2, <1>9, WriteEffect DEF RequestOf, Making
  <2>2. Others(c) /\ OtherDrafts(d) /\ made'[d] = made[d] /\ invoice'[d] = invoice[d]
        /\ tx'[d] = tx[d] /\ claim'[d] = "RESERVED" /\ Goes(c, "claim")
    BY <1>9, <1>2, <2>1, WriteEffect DEF Goes
  <2>3. Calm(d) /\ DraftOf(d)'
    BY <1>2, <2>1, <2>2 DEF Calm, DraftOf, Unclaimed, Pending
  <2>4. RequestOf(c)' /\ pc'[c] \notin Making
    BY <2>1, <2>2 DEF RequestOf, Making, Goes
  <2>5. QED
    BY <2>2, <2>3, <2>4, FactsAround
<1>10. ASSUME NEW c \in Requests, ClaimCreation(c) PROVE Facts'
  <2>1. PICK d \in Drafts : d = cur[c] /\ tx[d] # Absent
    BY <1>2, <1>10, ClaimEffect DEF RequestOf, Making
  <2>2. CASE Ends(c) /\ Kept
    BY <2>2, FactsKept, Over DEF Ends
  <2>3. CASE ~(Ends(c) /\ Kept)
    <3>1. /\ Goes(c, "create") /\ Unclaimed(d) /\ OtherDrafts(d)
          /\ tx'[d] # Absent /\ tx'[d].handle = "claim" /\ tx'[d].status = "PENDING"
          /\ claim'[d] = claim[d] /\ invoice'[d] = invoice[d] /\ made'[d] = made[d]
      BY <1>2, <1>10, <2>1, <2>3, ClaimEffect
    <3>2. ~Unclaimed(d)' /\ made[d] = 0
      BY <1>2, <3>1 DEF Unclaimed, DraftOf
    <3>3. Calm(d) /\ DraftOf(d)'
      BY <1>2, <3>1, <3>2 DEF Calm, DraftOf
    <3>4. pc'[c] = "create" /\ cur'[c] = d /\ Others(c)
      BY <2>1, <3>1 DEF Goes
    <3>5. RequestOf(c)'
      BY <3>1, <3>2, <3>4 DEF RequestOf, Making
    <3>6. QED
      BY <2>1, <3>1, <3>3, <3>4, <3>5, FactsAround
  <2>4. QED
    BY <2>2, <2>3
<1>11. ASSUME NEW c \in Requests, Fail(c) PROVE Facts'
  <2>1. PICK d \in Drafts : d = cur[c] /\ tx[d] # Absent
    BY <1>2, <1>11, FailEffect DEF RequestOf, Making
  <2>2. Others(c) /\ RequestOf(c)' /\ pc'[c] \notin Making
    BY <1>2, <1>11, FailEffect, Over DEF Ends
  <2>3. CASE Kept
    BY <2>2, <2>3, FactsKept
  <2>4. CASE ~Kept
    <3>1. /\ OtherDrafts(d) /\ tx'[d] # Absent /\ tx'[d].status = "FAILED"
          /\ invoice'[d] = invoice[d] /\ made'[d] = made[d]
      BY <1>2, <1>11, <2>1, <2>4, FailEffect
    <3>2. Calm(d) /\ DraftOf(d)'
      BY <1>2, <2>1, <3>1 DEF Calm, DraftOf, Unclaimed, Pending
    <3>3. QED
      BY <2>2, <3>1, <3>2, FactsAround
  <2>5. QED
    BY <2>3, <2>4
<1>12. ASSUME NEW c \in Requests, Record(c) PROVE Facts'
  <2>1. PICK d \in Drafts : d = cur[c] /\ tx[d] # Absent
    BY <1>2, <1>12, RecordEffect DEF RequestOf, Making
  <2>2. /\ Others(c) /\ OtherDrafts(d) /\ pc[c] = "record"
        /\ Ends(c) \/ (Goes(c, "settle") /\ answer[c] \in {"paid", "dead"})
        /\ made'[d] = made[d] /\ invoice'[d] = invoice[d] /\ claim'[d] = claim[d]
        /\ tx'[d] # Absent /\ tx'[d].status = tx[d].status /\ tx'[d].handle = "id"
    BY <1>12, <1>2, <2>1, RecordEffect DEF Goes, Ends
  <2>3. ~Unclaimed(d)'
    BY <2>2 DEF Unclaimed
  <2>4. Calm(d) /\ DraftOf(d)'
    BY <1>2, <2>1, <2>2, <2>3 DEF Calm, DraftOf
  <2>5. CASE Ends(c)
    BY <2>2, <2>4, <2>5, FactsAround, Over DEF Ends
  <2>6. CASE Goes(c, "settle") /\ answer[c] \in {"paid", "dead"}
    <3>1. pc'[c] = "settle" /\ cur'[c] = d /\ answer'[c] = answer[c] /\ pc[c] \in Making
      BY <2>1, <2>2, <2>6 DEF Goes, Making
    <3>2. invoice[d] = answer[c]
      BY <1>2, <2>1, <2>2, <2>6 DEF RequestOf
    <3>3. RequestOf(c)'
      BY <2>1, <2>2, <2>3, <2>6, <3>1, <3>2 DEF RequestOf, Making
    <3>4. QED
      BY <2>1, <2>2, <2>4, <3>1, <3>3, FactsAround
  <2>7. QED
    BY <2>2, <2>5, <2>6
<1>13. ASSUME NEW c \in Requests, Settle(c) PROVE Facts'
  <2>1. PICK d \in Drafts : d = cur[c] /\ tx[d] # Absent
    BY <1>2, <1>13, SettleEffect DEF RequestOf, Making
  <2>2. Others(c) /\ RequestOf(c)' /\ pc'[c] \notin Making /\ pc[c] = "settle"
    BY <1>2, <1>13, SettleEffect, Over DEF Ends
  <2>3. CASE Kept
    BY <2>2, <2>3, FactsKept
  <2>4. CASE (answer[c] = "paid" /\ Delivers(d)) \/ (answer[c] = "dead" /\ Closes(d))
    <3>1. invoice[d] = answer[c]
      BY <1>2, <2>1, <2>2, <2>4 DEF RequestOf
    <3>2. QED
      BY <1>1, <1>2, <2>1, <2>2, <2>4, <3>1, FactsAround, Settled
  <2>5. QED
    BY <1>2, <1>13, <2>1, <2>3, <2>4, SettleEffect
<1>14. ASSUME NEW c \in Requests, Grant(c) PROVE Facts'
  <2>1. Others(c) /\ Kept
    BY <1>14, GrantEffects DEF Goes, Ends
  <2>2. RequestOf(c)' /\ pc'[c] \notin Making
    BY <1>14, GrantEffects, Over DEF Goes, Ends
  <2>3. QED
    BY <2>1, <2>2, FactsKept
<1>15. ASSUME NEW c \in Requests, BeginGrant(c) PROVE Facts'
  <2>1. Others(c) /\ Kept
    BY <1>15, GrantEffects DEF Goes, Ends
  <2>2. RequestOf(c)' /\ pc'[c] \notin Making
    BY <1>15, GrantEffects, Over DEF Goes, Ends
  <2>3. QED
    BY <2>1, <2>2, FactsKept
<1>16. ASSUME NEW c \in Requests, Crash(c) PROVE Facts'
  <2>1. Others(c) /\ Kept
    BY <1>16, GrantEffects DEF Goes, Ends
  <2>2. RequestOf(c)' /\ pc'[c] \notin Making
    BY <1>16, GrantEffects, Over DEF Goes, Ends
  <2>3. QED
    BY <2>1, <2>2, FactsKept
<1>17. ASSUME NEW d \in Drafts, Sweep(d) PROVE Facts'
  <2>1. tx[d] # Absent
    BY <1>1, <1>17, Present DEF Sweep
  <2>2. QED
    BY <1>1, <1>2, <1>17, <2>1, OutsideEffects, FactsQuiet, FactsOutside, Settled
<1>18. ASSUME NEW d \in Drafts, Age(d) PROVE Facts'
  BY <1>18, OutsideEffects, FactsQuiet
<1>19. ASSUME NEW d \in Drafts, Abandon(d) PROVE Facts'
  BY <1>19, OutsideEffects, FactsQuiet
<1>20. ASSUME NEW d \in Drafts, Decide(d) PROVE Facts'
  <2>1. Calm(d) /\ DraftOf(d)'
    BY <1>2, <1>20, OutsideEffects DEF Calm, DraftOf, Unclaimed, Pending
  <2>2. QED
    BY <1>20, <2>1, OutsideEffects, FactsOutside
<1>21. ASSUME NEW d \in Drafts, Webhook(d) PROVE Facts'
  <2>1. tx[d] # Absent /\ Quiet
    BY <1>21, WebhookEffect, Known DEF Webhook
  <2>2. CASE (invoice[d] = "paid" /\ Delivers(d)) \/ Closes(d)
    BY <1>1, <1>2, <2>1, <2>2, FactsOutside, Settled
  <2>3. CASE /\ invoice[d] = "dead"
             /\ DraftsOK' /\ OtherDrafts(d) /\ tx'[d] = tx[d]
             /\ invoice'[d] = invoice[d] /\ made'[d] = made[d]
    <3>1. Calm(d) /\ DraftOf(d)'
      BY <1>2, <2>3 DEF Calm, DraftOf, Unclaimed, Pending
    <3>2. QED
      BY <2>1, <2>3, <3>1, FactsOutside
  <2>4. QED
    BY <1>21, <2>2, <2>3, WebhookEffect
<1>22. ASSUME NEW k \in Cancelers, Cancel(k) PROVE Facts'
  <2>1. Quiet
    BY <1>22, CancelEffect
  <2>2. CASE Kept
    BY <2>1, <2>2, FactsQuiet
  <2>3. ASSUME NEW d \in Drafts, Closes(d), Pending(d) PROVE Facts'
    <3>1. tx[d] # Absent
      BY <1>1, <2>3, Present
    <3>2. QED
      BY <1>1, <1>2, <2>1, <2>3, <3>1, FactsOutside, Settled
  <2>4. QED
    BY <1>22, <2>2, <2>3, CancelEffect
<1>23. CASE UNCHANGED vars
  BY <1>23, Stuttering, FactsQuiet
<1>24. QED
  BY <1>3, <1>4, <1>5, <1>6, <1>7, <1>8, <1>9, <1>10, <1>11, <1>12, <1>13,
     <1>14, <1>15, <1>16, <1>17, <1>18, <1>19, <1>20, <1>21, <1>22, <1>23 DEF
     Next, RequestStep, SweepStep

------------------------------------------------------------------------------
(***************************************************************************)
(* The quota.                                                              *)
(***************************************************************************)

\* The drafts whose claims count.
Claimed == {d \in Drafts : claim[d] \in Committed}

\* What counts is a number.
LEMMA UnitsNumber ==
  grants \in Nat =>
    /\ IsFiniteSet(Claimed) /\ Cardinality(Claimed) \in Nat /\ Units(Drafts) \in Nat
    /\ Units(Drafts) = grants + Cardinality(Claimed)
<1>1. IsFiniteSet(Claimed)
  BY DraftsAssumption, FS_Subset DEF Claimed
<1>2. Cardinality(Claimed) \in Nat
  BY <1>1, FS_CardinalityType
<1>3. Units(Drafts) = grants + Cardinality(Claimed)
  BY DEF Units, Claimed
<1>4. QED
  BY <1>1, <1>2, <1>3

\* The same after a step.
LEMMA UnitsNext ==
  grants' \in Nat =>
    /\ IsFiniteSet(Claimed') /\ Cardinality(Claimed') \in Nat /\ Units(Drafts)' \in Nat
    /\ Units(Drafts)' = grants' + Cardinality(Claimed')
<1>1. IsFiniteSet(Claimed')
  BY DraftsAssumption, FS_Subset DEF Claimed
<1>2. Cardinality(Claimed') \in Nat
  BY <1>1, FS_CardinalityType
<1>3. Units(Drafts)' = grants' + Cardinality(Claimed')
  BY DEF Units, Claimed
<1>4. QED
  BY <1>1, <1>2, <1>3

\* No more counts than before, if no claim begins to.
LEMMA UnitsFall ==
  ASSUME grants \in Nat, grants' = grants,
         \A e \in Drafts : claim'[e] \in Committed => claim[e] \in Committed
  PROVE  Units(Drafts)' <= Units(Drafts)
<1>1. Claimed' \subseteq Claimed /\ IsFiniteSet(Claimed)
  BY UnitsNumber DEF Claimed, Committed
<1>2. Cardinality(Claimed') <= Cardinality(Claimed)
  BY <1>1, FS_Subset
<1>3. Units(Drafts)' = grants' + Cardinality(Claimed')
  BY DEF Units, Claimed
<1>4. IsFiniteSet(Claimed')
  BY <1>1, FS_Subset
<1>5. Cardinality(Claimed') \in Nat
  BY <1>4, FS_CardinalityType
<1>6. QED
  BY <1>2, <1>3, <1>5, UnitsNumber

\* One more counts than before, if one claim begins to.
LEMMA UnitsRise ==
  ASSUME grants \in Nat, grants' = grants, NEW d \in Drafts,
         \A e \in Drafts : e # d /\ claim'[e] \in Committed => claim[e] \in Committed
  PROVE  Units(Drafts)' <= Units(Drafts) + 1
<1>1. Claimed' \subseteq Claimed \cup {d} /\ IsFiniteSet(Claimed)
  BY UnitsNumber DEF Claimed, Committed
<1>2. /\ IsFiniteSet(Claimed \cup {d})
      /\ Cardinality(Claimed \cup {d}) \in {Cardinality(Claimed), Cardinality(Claimed) + 1}
  BY <1>1, FS_AddElement
<1>3. Cardinality(Claimed') <= Cardinality(Claimed \cup {d}) /\ IsFiniteSet(Claimed')
  BY <1>1, <1>2, FS_Subset
<1>4. Units(Drafts)' = grants' + Cardinality(Claimed')
  BY DEF Units, Claimed
<1>5. Cardinality(Claimed') \in Nat
  BY <1>3, FS_CardinalityType
<1>6. QED
  BY <1>2, <1>3, <1>4, <1>5, UnitsNumber

\* The numbers of a typed state.
LEMMA Numbers ==
  TypeOK => /\ grants \in Nat /\ late \in Nat /\ scenario.maxClaims \in Nat
            /\ Units(Drafts) \in Nat
<1>1. TypeOK => grants \in Nat /\ late \in Nat /\ scenario \in Scenarios
  BY DEF TypeOK
<1>2. QED
  BY <1>1, ScenarioAssumption, UnitsNumber

\* The numbers of the state after a step.
LEMMA NumbersNext ==
  TypeOK' => /\ grants' \in Nat /\ late' \in Nat /\ scenario'.maxClaims \in Nat
             /\ Units(Drafts)' \in Nat
<1>1. TypeOK' => grants' \in Nat /\ late' \in Nat /\ scenario' \in Scenarios
  BY DEF TypeOK
<1>2. QED
  BY <1>1, ScenarioAssumption, UnitsNext

\* A delivery uses up no room: a claim that did not count is counted as late.
LEMMA UnitsDelivered ==
  ASSUME TypeOK, grants' = grants, NEW d \in Drafts, Delivers(d)
  PROVE  Units(Drafts)' + late <= Units(Drafts) + late'
<1>1. grants \in Nat /\ late \in Nat /\ late' \in Nat
      /\ Units(Drafts) \in Nat /\ Units(Drafts)' \in Nat
  BY Numbers, UnitsNext DEF Delivers
<1>2. CASE claim[d] = "RELEASED"
  <2>1. Units(Drafts)' <= Units(Drafts) + 1
    BY <1>1, UnitsRise DEF Delivers, OtherDrafts
  <2>2. QED
    BY <1>1, <1>2, <2>1 DEF Delivers
<1>3. CASE claim[d] # "RELEASED"
  <2>1. Units(Drafts)' <= Units(Drafts)
    BY <1>1, <1>3, UnitsFall DEF Delivers, OtherDrafts
  <2>2. QED
    BY <1>1, <1>3, <2>1 DEF Delivers
<1>4. QED
  BY <1>2, <1>3

\* Nothing that did not count counts now.
LEMMA UnitsKept ==
  ASSUME TypeOK, grants' = grants, late' = late,
         \A e \in Drafts : claim'[e] \in Committed => claim[e] \in Committed
  PROVE  Units(Drafts)' + late <= Units(Drafts) + late'
<1>1. grants \in Nat /\ late \in Nat /\ Units(Drafts) \in Nat /\ Units(Drafts)' \in Nat
  BY Numbers, UnitsNext
<1>2. Units(Drafts)' <= Units(Drafts)
  BY <1>1, UnitsFall
<1>3. QED
  BY <1>1, <1>2

\* Nobody enters the transaction, and no room is used up.
LEMMA RoomKept ==
  ASSUME TypeOK, TypeOK', Room, scenario' = scenario,
         Units(Drafts)' + late <= Units(Drafts) + late',
         \A b \in Requests : pc'[b] \in Holding =>
            pc[b] \in Holding /\ (lock = b => lock' = b)
  PROVE  Room'
<1>1. late \in Nat /\ late' \in Nat /\ scenario.maxClaims \in Nat
      /\ Units(Drafts) \in Nat /\ Units(Drafts)' \in Nat
  BY Numbers, NumbersNext
<1>2. Units(Drafts)' <= scenario'.maxClaims + late'
  BY <1>1 DEF Room, QuotaKept
<1>3. ASSUME NEW b \in Requests, pc'[b] \in Holding
      PROVE  lock' = b /\ Units(Drafts)' < scenario'.maxClaims + late'
  <2>1. lock = b /\ Units(Drafts) < scenario.maxClaims + late /\ lock' = b
    BY <1>3 DEF Room, RoomFor
  <2>2. QED
    BY <1>1, <2>1
<1>4. QED
  BY <1>2, <1>3 DEF Room, QuotaKept, RoomFor

\* The holder of the lock uses its room and is done.
LEMMA RoomUsed ==
  ASSUME TypeOK, TypeOK', Room, scenario' = scenario, late' = late,
         NEW c \in Requests, Others(c), pc[c] \in Holding, pc'[c] \notin Holding,
         Units(Drafts)' <= Units(Drafts) + 1
  PROVE  Room'
<1>1. late \in Nat /\ scenario.maxClaims \in Nat
      /\ Units(Drafts) \in Nat /\ Units(Drafts)' \in Nat
  BY Numbers, NumbersNext
<1>2. lock = c /\ Units(Drafts) < scenario.maxClaims + late
  BY DEF Room, RoomFor
<1>3. Units(Drafts)' <= scenario'.maxClaims + late'
  BY <1>1, <1>2
<1>4. \A b \in Requests : pc'[b] \notin Holding
  BY <1>2 DEF Room, RoomFor, Others, Same
<1>5. QED
  BY <1>3, <1>4 DEF Room, QuotaKept, RoomFor

\* The lock is free, there is room, and the request takes the lock.
LEMMA RoomTaken ==
  ASSUME TypeOK, TypeOK', Room, scenario' = scenario, late' = late, grants' = grants, Kept,
         NEW c \in Requests, Others(c), lock = NoRequest, lock' = c, Capacity
  PROVE  Room'
<1>1. late \in Nat /\ scenario.maxClaims \in Nat /\ grants \in Nat
      /\ Units(Drafts) \in Nat /\ Units(Drafts)' \in Nat
  BY Numbers, NumbersNext
<1>2. Units(Drafts)' <= Units(Drafts)
  BY <1>1, UnitsFall DEF Kept
<1>3. Units(Drafts)' < scenario'.maxClaims + late'
  BY <1>1, <1>2 DEF Capacity
<1>4. \A b \in Requests : pc'[b] \in Holding => b = c
  BY NobodyAssumption DEF Room, RoomFor, Others, Same
<1>5. QED
  BY <1>1, <1>3, <1>4 DEF Room, QuotaKept, RoomFor

\* The quota and the room, at every step.
LEMMA RoomStep ==
  ASSUME TypeOK, TypeOK', Facts, Room, [Next]_vars
  PROVE  Room'
<1>1. RequestsOK /\ DraftsOK
  BY TypeParts
<1>2. /\ \A c \in Requests : RequestOf(c)
      /\ \A d \in Drafts : DraftOf(d)
  BY DEF Facts
<1>3. ASSUME NEW c \in Requests, NEW g \in Gateways, Begin(c, g) PROVE Room'
  <2>1. UNCHANGED <<scenario, grants, late, lock>>
    BY <1>3 DEF Begin, ledger
  <2>2. Units(Drafts)' + late <= Units(Drafts) + late'
    BY <1>3, <1>2, <2>1, BeginEffect, UnitsKept DEF Kept
  <2>3. \A b \in Requests : pc'[b] \in Holding => pc[b] \in Holding /\ (lock = b => lock' = b)
    BY <1>3, <1>2, <2>1, BeginEffect DEF Holding, Others, Same
  <2>4. QED
    BY <2>1, <2>2, <2>3, RoomKept
<1>4. ASSUME NEW c \in Requests, NEW d \in Drafts, Open(c, d) PROVE Room'
  <2>1. UNCHANGED <<scenario, grants, late>>
    BY <1>4 DEF Open
  <2>2. Units(Drafts)' <= Units(Drafts) + 1
    BY <1>2, <1>4, <2>1, OpenEffect, Numbers, UnitsRise DEF OtherDrafts
  <2>3. Others(c) /\ pc[c] \in Holding /\ pc'[c] \notin Holding
    BY <1>2, <1>4, OpenEffect DEF Holding
  <2>4. QED
    BY <2>1, <2>2, <2>3, RoomUsed
<1>5. ASSUME NEW c \in Requests, NEW result \in {"open", "paid", "dead", "error"},
             Create(c, result)
      PROVE  Room'
  <2>1. UNCHANGED <<scenario, grants, late, lock>>
    BY <1>5 DEF Create, ledger
  <2>2. Units(Drafts)' + late <= Units(Drafts) + late'
    BY <1>5, <1>2, <2>1, CreateEffect, UnitsKept DEF OtherDrafts
  <2>3. \A b \in Requests : pc'[b] \in Holding => pc[b] \in Holding /\ (lock = b => lock' = b)
    BY <1>5, <1>2, <2>1, CreateEffect DEF Holding, Others, Same
  <2>4. QED
    BY <2>1, <2>2, <2>3, RoomKept
<1>6. ASSUME NEW c \in Requests, Ensure(c) PROVE Room'
  <2>1. UNCHANGED <<scenario, grants, late>>
    BY <1>6 DEF Ensure, ledger
  <2>2. Kept /\ Others(c) /\ lock = NoRequest
    BY <1>2, <1>6, LockedEffect
  <2>3. CASE lock' = c /\ Capacity
    BY <2>1, <2>2, <2>3, RoomTaken
  <2>4. CASE lock' = lock /\ pc'[c] \in {"idle", "claim"}
    <3>1. Units(Drafts)' + late <= Units(Drafts) + late'
      BY <2>1, <2>2, UnitsKept DEF Kept
    <3>2. \A b \in Requests : pc'[b] \in Holding => pc[b] \in Holding /\ (lock = b => lock' = b)
      BY <2>2, <2>4 DEF Others, Same, Holding
    <3>3. QED
      BY <2>1, <3>1, <3>2, RoomKept
  <2>5. QED
    BY <1>2, <1>6, <2>3, <2>4, LockedEffect
<1>7. ASSUME NEW c \in Requests, Lock(c) PROVE Room'
  <2>1. UNCHANGED <<scenario, grants, late>>
    BY <1>7 DEF Lock, ledger
  <2>2. Kept /\ Others(c) /\ lock = NoRequest
    BY <1>2, <1>7, LockedEffect
  <2>3. CASE lock' = c /\ Capacity
    BY <2>1, <2>2, <2>3, RoomTaken
  <2>4. CASE lock' = lock /\ pc'[c] \in {"idle", "claim"}
    <3>1. Units(Drafts)' + late <= Units(Drafts) + late'
      BY <2>1, <2>2, UnitsKept DEF Kept
    <3>2. \A b \in Requests : pc'[b] \in Holding => pc[b] \in Holding /\ (lock = b => lock' = b)
      BY <2>2, <2>4 DEF Others, Same, Holding
    <3>3. QED
      BY <2>1, <3>1, <3>2, RoomKept
  <2>5. QED
    BY <1>2, <1>7, <2>3, <2>4, LockedEffect
<1>8. ASSUME NEW c \in Requests, Reserve(c) PROVE Room'
  <2>1. UNCHANGED <<scenario, grants, late>>
    BY <1>8 DEF Reserve, ledger
  <2>2. Units(Drafts)' + late <= Units(Drafts) + late'
    BY <1>8, <2>1, ReserveEffect, UnitsKept DEF Kept
  <2>3. \A b \in Requests : pc'[b] \in Holding => pc[b] \in Holding /\ (lock = b => lock' = b)
    <3>1. lock = c /\ pc[c] \in Holding
      BY <1>8, ReserveEffect DEF Room, RoomFor, Holding
    <3>2. QED
      BY <1>8, <3>1, ReserveEffect DEF Room, RoomFor, Holding, Goes, Others, Same
  <2>4. QED
    BY <2>1, <2>2, <2>3, RoomKept
<1>9. ASSUME NEW c \in Requests, Write(c) PROVE Room'
  <2>1. UNCHANGED <<scenario, grants, late>>
    BY <1>9 DEF Write
  <2>2. PICK d \in Drafts : OtherDrafts(d)
    BY <1>2, <1>9, WriteEffect
  <2>3. Units(Drafts)' <= Units(Drafts) + 1
    BY <2>1, <2>2, Numbers, UnitsRise DEF OtherDrafts
  <2>4. Others(c) /\ pc[c] \in Holding /\ pc'[c] \notin Holding
    BY <1>2, <1>9, WriteEffect DEF Holding, Goes
  <2>5. QED
    BY <2>1, <2>3, <2>4, RoomUsed
<1>10. ASSUME NEW c \in Requests, ClaimCreation(c) PROVE Room'
  <2>1. UNCHANGED <<scenario, grants, late, lock>>
    BY <1>10 DEF ClaimCreation, ledger
  <2>2. Units(Drafts)' + late <= Units(Drafts) + late'
    BY <1>10, <1>2, <2>1, ClaimEffect, UnitsKept DEF Kept, OtherDrafts
  <2>3. \A b \in Requests : pc'[b] \in Holding => pc[b] \in Holding /\ (lock = b => lock' = b)
    BY <1>10, <1>2, <2>1, ClaimEffect DEF Holding, Others, Same, Ends, Goes
  <2>4. QED
    BY <2>1, <2>2, <2>3, RoomKept
<1>11. ASSUME NEW c \in Requests, Fail(c) PROVE Room'
  <2>1. UNCHANGED <<scenario, grants, late, lock>>
    BY <1>11 DEF Fail
  <2>2. Units(Drafts)' + late <= Units(Drafts) + late'
    BY <1>11, <1>2, <2>1, FailEffect, UnitsKept DEF Kept, OtherDrafts
  <2>3. \A b \in Requests : pc'[b] \in Holding => pc[b] \in Holding /\ (lock = b => lock' = b)
    BY <1>11, <1>2, <2>1, FailEffect DEF Holding, Others, Same, Ends
  <2>4. QED
    BY <2>1, <2>2, <2>3, RoomKept
<1>12. ASSUME NEW c \in Requests, Record(c) PROVE Room'
  <2>1. UNCHANGED <<scenario, grants, late, lock>>
    BY <1>12 DEF Record, ledger
  <2>2. Units(Drafts)' + late <= Units(Drafts) + late'
    BY <1>12, <1>2, <2>1, RecordEffect, UnitsKept DEF OtherDrafts
  <2>3. \A b \in Requests : pc'[b] \in Holding => pc[b] \in Holding /\ (lock = b => lock' = b)
    BY <1>12, <1>2, <2>1, RecordEffect DEF Holding, Others, Same, Ends, Goes
  <2>4. QED
    BY <2>1, <2>2, <2>3, RoomKept
<1>13. ASSUME NEW c \in Requests, Settle(c) PROVE Room'
  <2>1. UNCHANGED <<scenario, grants, lock>>
    BY <1>13 DEF Settle
  <2>2. \/ Delivers(cur[c])
        \/ late' = late /\ \A e \in Drafts : claim'[e] \in Committed => claim[e] \in Committed
    BY <1>2, <1>13, SettleEffect DEF Kept, Closes, OtherDrafts
  <2>3. Units(Drafts)' + late <= Units(Drafts) + late'
    <3>1. CASE Delivers(cur[c])
      BY <2>1, <3>1, UnitsDelivered DEF Delivers
    <3>2. CASE late' = late /\ \A e \in Drafts : claim'[e] \in Committed => claim[e] \in Committed
      BY <2>1, <3>2, UnitsKept
    <3>3. QED
      BY <2>2, <3>1, <3>2
  <2>4. \A b \in Requests : pc'[b] \in Holding => pc[b] \in Holding /\ (lock = b => lock' = b)
    BY <1>2, <1>13, <2>1, SettleEffect DEF Holding, Others, Same, Ends
  <2>5. QED
    BY <2>1, <2>3, <2>4, RoomKept
<1>14. ASSUME NEW c \in Requests, Grant(c) PROVE Room'
  <2>1. UNCHANGED <<scenario, late>>
    BY <1>14 DEF Grant
  <2>2. Claimed' = Claimed /\ grants' = grants + 1 /\ grants \in Nat
    BY <1>14, GrantEffects, Numbers DEF Grant, Claimed
  <2>3. Units(Drafts)' <= Units(Drafts) + 1
    BY <2>2, UnitsNumber, UnitsNext
  <2>4. Others(c) /\ pc[c] \in Holding /\ pc'[c] \notin Holding
    BY <1>14, GrantEffects DEF Holding, Ends
  <2>5. QED
    BY <2>1, <2>3, <2>4, RoomUsed
<1>15. ASSUME NEW c \in Requests, BeginGrant(c) PROVE Room'
  <2>1. UNCHANGED <<scenario, grants, late>>
    BY <1>15 DEF BeginGrant, ledger
  <2>2. QED
    BY <1>15, <2>1, GrantEffects, RoomTaken DEF Goes
<1>16. ASSUME NEW c \in Requests, Crash(c) PROVE Room'
  <2>1. UNCHANGED <<scenario, grants, late>>
    BY <1>16 DEF Crash, ledger
  <2>2. Units(Drafts)' + late <= Units(Drafts) + late'
    BY <1>16, <1>2, <2>1, GrantEffects, UnitsKept DEF Kept
  <2>3. \A b \in Requests : pc'[b] \in Holding => pc[b] \in Holding /\ (lock = b => lock' = b)
    BY <1>16, <1>2, <2>1, GrantEffects DEF Holding, Others, Same, Ends
  <2>4. QED
    BY <2>1, <2>2, <2>3, RoomKept
<1>17. ASSUME NEW d \in Drafts, Sweep(d) PROVE Room'
  <2>1. UNCHANGED <<scenario, grants, lock>>
    BY <1>17 DEF Sweep
  <2>2. \/ Delivers(d)
        \/ late' = late /\ \A e \in Drafts : claim'[e] \in Committed => claim[e] \in Committed
    BY <1>2, <1>17, OutsideEffects DEF Kept, Closes, OtherDrafts
  <2>3. Units(Drafts)' + late <= Units(Drafts) + late'
    <3>1. CASE Delivers(d)
      BY <2>1, <3>1, UnitsDelivered DEF Delivers
    <3>2. CASE late' = late /\ \A e \in Drafts : claim'[e] \in Committed => claim[e] \in Committed
      BY <2>1, <3>2, UnitsKept
    <3>3. QED
      BY <2>2, <3>1, <3>2
  <2>4. \A b \in Requests : pc'[b] \in Holding => pc[b] \in Holding /\ (lock = b => lock' = b)
    BY <1>2, <1>17, <2>1, OutsideEffects DEF Holding, Others, Same, Quiet
  <2>5. QED
    BY <2>1, <2>3, <2>4, RoomKept
<1>18. ASSUME NEW d \in Drafts, Age(d) PROVE Room'
  <2>1. UNCHANGED <<scenario, grants, late, lock>>
    BY <1>18 DEF Age, ledger
  <2>2. Units(Drafts)' + late <= Units(Drafts) + late'
    BY <1>18, <1>2, <2>1, OutsideEffects, UnitsKept DEF Kept
  <2>3. \A b \in Requests : pc'[b] \in Holding => pc[b] \in Holding /\ (lock = b => lock' = b)
    BY <1>18, <1>2, <2>1, OutsideEffects DEF Holding, Others, Same, Quiet
  <2>4. QED
    BY <2>1, <2>2, <2>3, RoomKept
<1>19. ASSUME NEW d \in Drafts, Abandon(d) PROVE Room'
  <2>1. UNCHANGED <<scenario, grants, late, lock>>
    BY <1>19 DEF Abandon, ledger
  <2>2. Units(Drafts)' + late <= Units(Drafts) + late'
    BY <1>19, <1>2, <2>1, OutsideEffects, UnitsKept DEF Kept
  <2>3. \A b \in Requests : pc'[b] \in Holding => pc[b] \in Holding /\ (lock = b => lock' = b)
    BY <1>19, <1>2, <2>1, OutsideEffects DEF Holding, Others, Same, Quiet
  <2>4. QED
    BY <2>1, <2>2, <2>3, RoomKept
<1>20. ASSUME NEW d \in Drafts, Decide(d) PROVE Room'
  <2>1. UNCHANGED <<scenario, grants, late, lock>>
    BY <1>20 DEF Decide, ledger
  <2>2. Units(Drafts)' + late <= Units(Drafts) + late'
    BY <1>20, <1>2, <2>1, OutsideEffects, UnitsKept DEF OtherDrafts
  <2>3. \A b \in Requests : pc'[b] \in Holding => pc[b] \in Holding /\ (lock = b => lock' = b)
    BY <1>20, <1>2, <2>1, OutsideEffects DEF Holding, Others, Same, Quiet
  <2>4. QED
    BY <2>1, <2>2, <2>3, RoomKept
<1>21. ASSUME NEW d \in Drafts, Webhook(d) PROVE Room'
  <2>1. UNCHANGED <<scenario, grants, lock>>
    BY <1>21 DEF Webhook
  <2>2. \/ Delivers(d)
        \/ late' = late /\ \A e \in Drafts : claim'[e] \in Committed => claim[e] \in Committed
    BY <1>2, <1>21, WebhookEffect DEF Kept, Closes, OtherDrafts
  <2>3. Units(Drafts)' + late <= Units(Drafts) + late'
    <3>1. CASE Delivers(d)
      BY <2>1, <3>1, UnitsDelivered DEF Delivers
    <3>2. CASE late' = late /\ \A e \in Drafts : claim'[e] \in Committed => claim[e] \in Committed
      BY <2>1, <3>2, UnitsKept
    <3>3. QED
      BY <2>2, <3>1, <3>2
  <2>4. \A b \in Requests : pc'[b] \in Holding => pc[b] \in Holding /\ (lock = b => lock' = b)
    BY <1>2, <1>21, <2>1, WebhookEffect DEF Holding, Others, Same, Quiet
  <2>5. QED
    BY <2>1, <2>3, <2>4, RoomKept
<1>22. ASSUME NEW k \in Cancelers, Cancel(k) PROVE Room'
  <2>1. UNCHANGED <<scenario, grants, late, lock>>
    BY <1>22 DEF Cancel
  <2>2. Units(Drafts)' + late <= Units(Drafts) + late'
    BY <1>22, <1>2, <2>1, CancelEffect, UnitsKept DEF Kept, Closes,
       OtherDrafts
  <2>3. \A b \in Requests : pc'[b] \in Holding => pc[b] \in Holding /\ (lock = b => lock' = b)
    BY <1>22, <1>2, <2>1, CancelEffect DEF Holding, Others, Same, Quiet
  <2>4. QED
    BY <2>1, <2>2, <2>3, RoomKept
<1>23. CASE UNCHANGED vars
  <2>1. Quiet /\ Kept /\ late' = late /\ lock' = lock /\ grants' = grants /\ scenario' = scenario
    BY <1>23, Stuttering DEF vars
  <2>2. Units(Drafts)' + late <= Units(Drafts) + late'
    BY <2>1, UnitsKept DEF Kept
  <2>3. QED
    BY <2>1, <2>2, RoomKept DEF Quiet, Same
<1>24. QED
  BY <1>3, <1>4, <1>5, <1>6, <1>7, <1>8, <1>9, <1>10, <1>11, <1>12, <1>13,
     <1>14, <1>15, <1>16, <1>17, <1>18, <1>19, <1>20, <1>21, <1>22, <1>23 DEF
     Next, RequestStep, SweepStep

\* Nothing has begun.
LEMMA InitInv ==
  ASSUME Init
  PROVE  Inv
<1>1. TypeOK
  BY DEF Init, TypeOK, Rows, Cancelers, Bounds
<1>2. Facts
  BY DEF Init, Facts, RequestOf, OneMaker, DraftOf, Making, Absent, Unclaimed, Pending
<1>3. Claimed = {} /\ grants = 0 /\ late = 0
  BY DEF Init, Claimed, Committed
<1>4. Units(Drafts) = 0
  BY <1>3, FS_EmptySet, UnitsNumber
<1>5. scenario.maxClaims \in Nat
  BY <1>1, Numbers
<1>6. Room
  BY <1>3, <1>4, <1>5 DEF Init, Room, QuotaKept, RoomFor, Holding
<1>7. QED
  BY <1>1, <1>2, <1>6 DEF Inv

\* The invariant at every step.
LEMMA NextInv ==
  ASSUME Inv, [Next]_vars
  PROVE  Inv'
  BY TypeStep, FactsStep, RoomStep DEF Inv

\* The invariant holds: the requests, the drafts and the lock keep to the facts above,
\* however checkouts, grants, the sweep and the provider interleave.
THEOREM Inductive == Spec => []Inv
  BY InitInv, NextInv, PTL DEF Spec

\* The types, one creation at the provider for each draft however often its checkout is
\* replayed, and a delivered trial counts.
THEOREM OneCreationEach == Spec => []DraftsConsistent
<1>1. Inv => DraftsConsistent
  BY DEF Inv, Facts, DraftOf, DraftsConsistent, CreatedOnce, DeliveredCounts
<1>2. QED
  BY <1>1, Inductive, PTL

\* No more trials, reserved or delivered, than the quota allows, but for those captured
\* after their reservation had been released.
THEOREM QuotaHolds == Spec => []QuotaKept
<1>1. Inv => QuotaKept
  BY DEF Inv, Room
<1>2. QED
  BY <1>1, Inductive, PTL

\* No step takes a delivered trial back.
LEMMA DeliveredStep ==
  ASSUME Inv, [Next]_vars, NEW e \in Drafts, tx[e].status = "COMPLETED"
  PROVE  tx'[e].status = "COMPLETED"
<1>1. TypeOK /\ RequestsOK /\ DraftsOK /\ Facts
  BY TypeParts DEF Inv
<1>2. /\ \A c \in Requests : RequestOf(c)
      /\ DraftOf(e)
  BY <1>1 DEF Facts
<1>3. ~Pending(e) /\ tx[e] # Absent /\ invoice[e] = "paid"
  BY <1>1, <1>2, Present DEF Pending, DraftOf
<1>4. ASSUME NEW c \in Requests, NEW g \in Gateways, Begin(c, g)
      PROVE  tx'[e].status = "COMPLETED"
  BY <1>1, <1>2, <1>3, <1>4, BeginEffect DEF Kept
<1>5. ASSUME NEW c \in Requests, NEW d \in Drafts, Open(c, d)
      PROVE  tx'[e].status = "COMPLETED"
  BY <1>1, <1>2, <1>3, <1>5, OpenEffect DEF OtherDrafts
<1>6. ASSUME NEW c \in Requests, NEW result \in {"open", "paid", "dead", "error"},
             Create(c, result)
      PROVE  tx'[e].status = "COMPLETED"
  BY <1>1, <1>2, <1>3, <1>6, CreateEffect DEF OtherDrafts
<1>7. ASSUME NEW c \in Requests, Ensure(c) PROVE tx'[e].status = "COMPLETED"
  BY <1>1, <1>2, <1>3, <1>7, LockedEffect DEF Kept
<1>8. ASSUME NEW c \in Requests, Lock(c) PROVE tx'[e].status = "COMPLETED"
  BY <1>1, <1>2, <1>3, <1>8, LockedEffect DEF Kept
<1>9. ASSUME NEW c \in Requests, Reserve(c) PROVE tx'[e].status = "COMPLETED"
  BY <1>1, <1>2, <1>3, <1>9, ReserveEffect DEF Kept
<1>10. ASSUME NEW c \in Requests, Write(c) PROVE tx'[e].status = "COMPLETED"
  BY <1>1, <1>2, <1>3, <1>10, WriteEffect DEF OtherDrafts
<1>11. ASSUME NEW c \in Requests, ClaimCreation(c)
       PROVE  tx'[e].status = "COMPLETED"
  BY <1>1, <1>2, <1>3, <1>11, ClaimEffect DEF Kept, OtherDrafts, Unclaimed
<1>12. ASSUME NEW c \in Requests, Fail(c) PROVE tx'[e].status = "COMPLETED"
  BY <1>1, <1>2, <1>3, <1>12, FailEffect DEF Kept, OtherDrafts
<1>13. ASSUME NEW c \in Requests, Record(c) PROVE tx'[e].status = "COMPLETED"
  BY <1>1, <1>2, <1>3, <1>13, RecordEffect DEF OtherDrafts
<1>14. ASSUME NEW c \in Requests, Settle(c) PROVE tx'[e].status = "COMPLETED"
  <2>1. invoice[cur[c]] = "dead" \/ ~Closes(cur[c]) \/ answer[c] # "dead"
    BY <1>1, <1>2, <1>14, SettleEffect DEF RequestOf
  <2>2. QED
    BY <1>1, <1>2, <1>3, <1>14, <2>1, SettleEffect DEF Kept, Delivers, Closes,
       Marks, OtherDrafts
<1>15. ASSUME NEW c \in Requests, Grant(c) PROVE tx'[e].status = "COMPLETED"
  BY <1>1, <1>2, <1>3, <1>15, GrantEffects DEF Kept
<1>16. ASSUME NEW c \in Requests, BeginGrant(c)
       PROVE  tx'[e].status = "COMPLETED"
  BY <1>1, <1>2, <1>3, <1>16, GrantEffects DEF Kept
<1>17. ASSUME NEW c \in Requests, Crash(c) PROVE tx'[e].status = "COMPLETED"
  BY <1>1, <1>2, <1>3, <1>17, GrantEffects DEF Kept
<1>18. ASSUME NEW d \in Drafts, Sweep(d) PROVE tx'[e].status = "COMPLETED"
  BY <1>1, <1>2, <1>3, <1>18, OutsideEffects DEF Kept, Delivers, Marks,
     OtherDrafts
<1>19. ASSUME NEW d \in Drafts, Age(d) PROVE tx'[e].status = "COMPLETED"
  BY <1>1, <1>2, <1>3, <1>19, OutsideEffects DEF Kept
<1>20. ASSUME NEW d \in Drafts, Abandon(d) PROVE tx'[e].status = "COMPLETED"
  BY <1>1, <1>2, <1>3, <1>20, OutsideEffects DEF Kept
<1>21. ASSUME NEW d \in Drafts, Decide(d) PROVE tx'[e].status = "COMPLETED"
  BY <1>1, <1>2, <1>3, <1>21, OutsideEffects DEF OtherDrafts
<1>22. ASSUME NEW d \in Drafts, Webhook(d) PROVE tx'[e].status = "COMPLETED"
  BY <1>1, <1>2, <1>3, <1>22, WebhookEffect DEF Delivers, Closes, Marks,
     OtherDrafts
<1>23. ASSUME NEW k \in Cancelers, Cancel(k) PROVE tx'[e].status = "COMPLETED"
  BY <1>1, <1>2, <1>3, <1>23, CancelEffect DEF Kept, Closes, OtherDrafts
<1>24. CASE UNCHANGED vars
  BY <1>24 DEF vars
<1>25. QED
  BY <1>4, <1>5, <1>6, <1>7, <1>8, <1>9, <1>10, <1>11, <1>12, <1>13, <1>14,
     <1>15, <1>16, <1>17, <1>18, <1>19, <1>20, <1>21, <1>22, <1>23, <1>24 DEF
     Next, RequestStep, SweepStep

\* A delivered trial is never taken back, by the sweep, by abandoning or by a refusal.
THEOREM DeliveredForGood == Spec => DeliveredStays
<1>1. ASSUME Inv, [Next]_vars
      PROVE  \A d \in Drafts : tx[d].status = "COMPLETED" => tx'[d].status = "COMPLETED"
  BY <1>1, DeliveredStep
<1>2. QED
  BY <1>1, Inductive, PTL DEF Spec, DeliveredStays
=============================================================================
