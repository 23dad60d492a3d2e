------------------------------ MODULE ReferralRewards ------------------------------
(***************************************************************************)
(* The referral programme: an edge of the referral graph is qualified by a *)
(* payment of the referred user or by an operator, which creates pending   *)
(* rewards; operators issue and revoke them; a refund reverses what the    *)
(* payment qualified; and points are exchanged, once per idempotency key.  *)
(*                                                                         *)
(* An action is one database transaction, or a read that a later one       *)
(* relies on.  Qualifying locks the edge, issuing and revoking lock the    *)
(* reward, extending locks the subscription: those are one action.  The    *)
(* reversal and the operator's correction lock nothing: each is a read and *)
(* then a write, and others commit in between.                             *)
(***************************************************************************)
EXTENDS Integers, FiniteSets, FiniteSetsExt, Sequences

CONSTANTS
    Members,
    Referrer,      \* who referred a user: its domain is the referred users
    Payments,      \* captured payments
    Payer,         \* who paid
    First, Second, \* what level 1 and level 2 receive (0: nothing)
    ActivePartners, \* users paid by the partner programme instead
    Keys,          \* idempotency keys a client may send
    Cost,          \* points an exchange takes
    Days,          \* days an exchange gives
    Opening,       \* what a subscription has left at first, in days
    Callers,       \* requests at work at a time
    Situations      \* the situations to explore

Edges == DOMAIN Referrer
NoKey == "NO_KEY"

\* Nobody refers himself: attaching a referrer refuses it.
ASSUME ReferralAssumption ==
    /\ Referrer \in [Edges -> Members] /\ Edges \subseteq Members
    /\ \A e \in Edges : Referrer[e] # e
    /\ Payer \in [Payments -> Members]
    /\ {First, Second, Opening} \subseteq Nat /\ {Cost, Days} \subseteq Nat \ {0}
    /\ ActivePartners \subseteq Members
    /\ NoKey \notin Keys
    /\ {"NONE", "MANUAL", "OPERATOR"} \cap Payments = {}

Handlers == {"qualify", "manual", "grant", "issue", "revoke", "reverse", "exchange", "adjust"}
RewardTypes == {"POINTS", "EXTRA_DAYS"}
ExchangeTypes == {"SUBSCRIPTION_DAYS", "GIFT_SUBSCRIPTION"}

\* starts: how often each handler may begin; type: the configured reward;
\* points: the balances at first; faults: reversals that fail.
ASSUME ReferralScenarioAssumption ==
    \A s \in Situations : /\ s.starts \in [Handlers -> Nat]
                         /\ s.type \in RewardTypes
                         /\ {s.points, s.faults, s.workers} \subseteq Nat

VARIABLES
    situation,    \* the situation, chosen once
    qualified,   \* Referral.qualifiedAt and qualifiedTransactionId of each edge
    rewards,     \* ReferralReward rows, oldest first
    points,      \* User.points
    expires,     \* days left of User.currentSubscription
    exchanges,   \* ReferralPointsExchange rows, oldest first
    answers,     \* history: what the holder of a key was told, by row
    adjusted,    \* history: what an operator's corrections gave and took, by user
    undone,      \* history: payments whose reversal took effect
    torn,        \* history: edges whose reversal wrote over a later change
    lost,        \* history: users whose expiry was written over, or began anew
    pc,          \* the next step of each worker
    work,        \* what a worker is at, and what it has read
    spent        \* how much of each bound is used up

referralVars == <<situation, qualified, rewards, points, expires, exchanges, answers, adjusted,
          undone, torn, lost, pc, work, spent>>

programme == <<qualified, rewards>>
history == <<answers, adjusted, undone, torn, lost>>

\* of, by and moved are history: the edge whose qualification made the row, by
\* what, and how much the row has added to its user's points or days so far.
Reward(e, u, n, type, of, by) ==
    [edge |-> e, user |-> u, amount |-> n, type |-> type, of |-> of, by |-> by,
     issued |-> FALSE, revoked |-> FALSE, moved |-> 0]

RewardRow == [edge : Edges, user : Members, amount : Nat \ {0}, type : RewardTypes, of : Edges,
        by : Payments \cup {"MANUAL", "OPERATOR"}, issued : BOOLEAN, revoked : BOOLEAN,
        moved : Int]

Steps == {"idle", "undo", "write", "exchange", "adjust"}

Work == [on : Payments \cup Members \cup {"nothing"}, of : Edges \cup Keys \cup {NoKey, "nothing"},
         type : ExchangeTypes \cup {"nothing"}, rows : SUBSET Nat, issued : SUBSET Nat,
         read : [Members -> Int]]

Nothing == [on |-> "nothing", of |-> "nothing", type |-> "nothing", rows |-> {}, issued |-> {},
            read |-> [u \in Members |-> 0]]

ReferralTypeOK ==
    /\ situation \in Situations
    /\ qualified \in [Edges -> Payments \cup {"NONE", "MANUAL"}]
    /\ rewards \in Seq(RewardRow)
    /\ points \in [Members -> Int] /\ expires \in [Members -> Int]
    /\ exchanges \in Seq([user : Members, key : Keys \cup {NoKey}, type : ExchangeTypes])
    /\ answers \subseteq Members \X Keys \X (DOMAIN exchanges)
    /\ adjusted \in [Members -> [given : Nat, taken : Nat]]
    /\ undone \subseteq Payments /\ torn \subseteq Edges /\ lost \subseteq Members
    /\ pc \in [Callers -> Steps] /\ work \in [Callers -> Work]
    /\ spent \in [Handlers \cup {"faults"} -> Nat]
-----------------------------------------------------------------------------
May(h) == /\ spent[h] < situation.starts[h]
          /\ spent' = [spent EXCEPT ![h] = @ + 1]

GoOn(w, step) == pc' = [pc EXCEPT ![w] = step]
Done(w) == GoOn(w, "idle") /\ work' = [work EXCEPT ![w] = Nothing]

Take(w, h, step, what) ==
    /\ pc[w] = "idle"
    /\ Cardinality({v \in Callers : pc[v] # "idle"}) < situation.workers
    /\ May(h)
    /\ GoOn(w, step)
    /\ work' = [work EXCEPT ![w] = what]

\* A request that is one transaction needs no worker.
AtOnce == UNCHANGED <<situation, pc, work>>

-----------------------------------------------------------------------------
(* Qualification                                                           *)

MutantIsQualified(e) == FALSE

\* Read under the lock of the edge's row.
IsQualified(e) == qualified[e] # "NONE"

\* Level 1 hangs on the edge itself, level 2 on the edge of the referrer.
ConfiguredRewards(e, by) ==
    LET up == Referrer[e]
        one(ed, u, n) == IF n > 0 THEN <<Reward(ed, u, n, situation.type, e, by)>> ELSE <<>>
    IN  IF up \in ActivePartners THEN <<>>
        ELSE one(e, up, First) \o
             (IF up \in Edges /\ Referrer[up] \notin ActivePartners
              THEN one(up, Referrer[up], Second) ELSE <<>>)

\* The hook of a captured payment.  It runs again when its event is retried,
\* and it does not look at the status of the payment.
Qualify(t) ==
    LET e == Payer[t] IN
    /\ May("qualify")
    /\ e \in Edges
    /\ IF IsQualified(e)
       THEN UNCHANGED <<programme, undone>>
       ELSE /\ qualified' = [qualified EXCEPT ![e] = t]
            /\ rewards' = rewards \o ConfiguredRewards(e, t)
            /\ undone' = undone \ {t}
    /\ AtOnce
    /\ UNCHANGED <<points, expires, exchanges, answers, adjusted, torn, lost>>

\* By an operator: the edge is qualified, but by no payment.
QualifyManually(e) ==
    /\ May("manual")
    /\ ~IsQualified(e)
    /\ qualified' = [qualified EXCEPT ![e] = "MANUAL"]
    /\ rewards' = rewards \o ConfiguredRewards(e, "MANUAL")
    /\ AtOnce
    /\ UNCHANGED <<points, expires, exchanges, history>>

-----------------------------------------------------------------------------
(* Rewards, handled by operators                                           *)

GrantReward(e, u, type) ==
    /\ May("grant")
    /\ u \in {e, Referrer[e]}
    /\ rewards' = Append(rewards, Reward(e, u, 1, type, e, "OPERATOR"))
    /\ AtOnce
    /\ UNCHANGED <<qualified, points, expires, exchanges, history>>

MutantIssuable(r) == ~r.issued

\* Read under the lock of the reward's row.
Issuable(r) == ~r.issued /\ ~r.revoked

LaterOf(a, b) == IF a >= b THEN a ELSE b

\* An extension starts from today when the subscription is past its end.
Extended(u, days) == LaterOf(expires[u], 0) + days

\* History: then it is no longer what the records add up to.
BeginsAnew(u) == lost' = IF expires[u] < 0 THEN lost \cup {u} ELSE lost

IssueReward(i) ==
    LET r == rewards[i] IN
    /\ May("issue")
    /\ i \in DOMAIN rewards
    /\ Issuable(r)
    /\ rewards' = [rewards EXCEPT ![i] = [r EXCEPT !.issued = TRUE, !.moved = @ + r.amount]]
    /\ IF r.type = "POINTS"
       THEN /\ points' = [points EXCEPT ![r.user] = @ + r.amount]
            /\ UNCHANGED <<expires, lost>>
       ELSE /\ expires' = [expires EXCEPT ![r.user] = Extended(r.user, r.amount)]
            /\ BeginsAnew(r.user)
            /\ UNCHANGED points
    /\ AtOnce
    /\ UNCHANGED <<qualified, exchanges, answers, adjusted, undone, torn>>

\* What was issued is not revoked here.
Revoke(i) ==
    /\ May("revoke")
    /\ i \in DOMAIN rewards
    /\ ~rewards[i].revoked /\ ~rewards[i].issued
    /\ rewards' = [rewards EXCEPT ![i].revoked = TRUE]
    /\ AtOnce
    /\ UNCHANGED <<qualified, points, expires, exchanges, history>>

-----------------------------------------------------------------------------
(* The reversal of a refunded payment                                      *)

MutantReversible(r) == ~r.revoked /\ ~r.issued

Reversible(r) == ~r.revoked

\* The edge may be qualified again by a later payment.
Cleared == "NONE"

\* The rewards an edge owes to its own qualification.
OwnRewards(e) ==
    {i \in DOMAIN rewards : rewards[i].edge = e /\ rewards[i].of = e /\ rewards[i].by # "OPERATOR"}

DaysRows(rows) == {i \in rows : rewards[i].type = "EXTRA_DAYS"}

\* The edge this payment qualified and its rewards are read without a lock.
ReverseBegin(w, t) ==
    \E e \in Edges :
        LET rows == {i \in DOMAIN rewards : rewards[i].edge = e /\ Reversible(rewards[i])}
            issued == {i \in rows : rewards[i].issued}
        IN  /\ qualified[e] = t
            /\ Take(w, "reverse", IF DaysRows(issued) = {} THEN "write" ELSE "undo",
                    [Nothing EXCEPT !.on = t, !.of = e, !.rows = rows, !.issued = issued])
            /\ UNCHANGED <<situation, programme, points, expires, exchanges, history>>

\* So are the subscriptions whose extra days are taken back.
ReverseRead(w) ==
    /\ pc[w] = "undo"
    /\ work' = [work EXCEPT ![w].read = expires]
    /\ GoOn(w, "write")
    /\ UNCHANGED <<situation, programme, points, expires, exchanges, history, spent>>

\* History: what was read of the edge no longer holds.
Overtaken(w) ==
    LET x == work[w] IN
    \/ qualified[x.of] # x.on
    \/ \E i \in OwnRewards(x.of) : Reversible(rewards[i]) /\ i \notin x.rows
    \/ \E i \in x.rows : rewards[i].revoked \/ rewards[i].issued # (i \in x.issued)

\* What the rows of one type that were read as issued gave a user.
Back(w, type, u) ==
    SumFunctionOnSet([i \in DOMAIN rewards |-> rewards[i].amount],
        {i \in work[w].issued : rewards[i].user = u /\ rewards[i].type = type})

\* A row is revoked; what it gave when it was read is taken back.
TakenBack(i, given) ==
    [rewards[i] EXCEPT !.revoked = TRUE,
                       !.moved = IF i \in given THEN @ - rewards[i].amount ELSE @]

\* Points are decremented; an expiry is written as the number computed from the
\* one read; rewards and edge are written by id.
ReverseWrite(w) ==
    LET x == work[w] IN
        /\ pc[w] = "write"
        /\ rewards' = [i \in DOMAIN rewards |->
               IF i \in x.rows THEN TakenBack(i, x.issued) ELSE rewards[i]]
        /\ points' = [u \in Members |-> points[u] - Back(w, "POINTS", u)]
        /\ expires' = [u \in Members |-> IF Back(w, "EXTRA_DAYS", u) > 0
                                       THEN x.read[u] - Back(w, "EXTRA_DAYS", u)
                                       ELSE expires[u]]
        /\ qualified' = [qualified EXCEPT ![x.of] = Cleared]
        /\ undone' = undone \cup {x.on}
        /\ torn' = IF Overtaken(w) THEN torn \cup {x.of} ELSE torn
        /\ lost' = lost \cup {u \in Members : Back(w, "EXTRA_DAYS", u) > 0 /\ expires[u] # x.read[u]}
        /\ Done(w)
        /\ UNCHANGED <<situation, exchanges, answers, adjusted, spent>>

\* A reversal that throws is logged and forgotten.
ReverseFail(w) ==
    /\ pc[w] \in {"undo", "write"}
    /\ spent["faults"] < situation.faults
    /\ spent' = [spent EXCEPT !["faults"] = @ + 1]
    /\ Done(w)
    /\ UNCHANGED <<situation, programme, points, expires, exchanges, history>>

-----------------------------------------------------------------------------
(* Points: exchanges and corrections                                       *)

MadeWith(u, k) == {i \in DOMAIN exchanges : exchanges[i].user = u /\ exchanges[i].key = k}

MutantCollides(u, k) == FALSE

\* @@unique([userId, idempotencyKey]); rows without a key never collide.
Collides(u, k) == k # NoKey /\ MadeWith(u, k) # {}

Answer(u, k, rows) == answers' = answers \cup {<<u, k, i>> : i \in rows}

\* A key whose exchange is on record is answered from the record.
ExchangeBegin(w, u, k, type) ==
    /\ IF k # NoKey /\ MadeWith(u, k) # {}
       THEN /\ May("exchange")
            /\ Answer(u, k, MadeWith(u, k))
            /\ UNCHANGED <<pc, work>>
       ELSE /\ Take(w, "exchange", "exchange",
                    [Nothing EXCEPT !.on = u, !.of = k, !.type = type])
            /\ UNCHANGED answers
    /\ UNCHANGED <<situation, programme, points, expires, exchanges, adjusted, undone,
                   torn, lost>>

\* updateMany ... WHERE points >= cost
Affords(u) == points[u] >= Cost

\* Spend, extend and record in one transaction.  A collision undoes all three
\* and is answered from the record; too few points is an error even then.
ExchangeCommit(w) ==
    LET u == work[w].on
        k == work[w].of
        type == work[w].type
    IN  /\ pc[w] = "exchange"
        /\ \/ /\ ~Affords(u)
              /\ UNCHANGED <<points, expires, exchanges, answers, lost>>
           \/ /\ Affords(u) /\ Collides(u, k)
              /\ Answer(u, k, MadeWith(u, k))
              /\ UNCHANGED <<points, expires, exchanges, lost>>
           \/ /\ Affords(u) /\ ~Collides(u, k)
              /\ points' = [points EXCEPT ![u] = @ - Cost]
              /\ IF type = "SUBSCRIPTION_DAYS"
                 THEN expires' = [expires EXCEPT ![u] = Extended(u, Days)] /\ BeginsAnew(u)
                 ELSE UNCHANGED <<expires, lost>>
              /\ exchanges' = Append(exchanges, [user |-> u, key |-> k, type |-> type])
              /\ IF k = NoKey THEN UNCHANGED answers
                 ELSE Answer(u, k, {Len(exchanges')})
        /\ Done(w)
        /\ UNCHANGED <<situation, programme, adjusted, undone, torn, spent>>

\* The operator's page checks the balance it has loaded and then increments.
AdjustBegin(w, u, by) ==
    /\ points[u] + by >= 0
    /\ Take(w, "adjust", "adjust", [Nothing EXCEPT !.on = u, !.read[u] = by])
    /\ UNCHANGED <<situation, programme, points, expires, exchanges, history>>

AdjustWrite(w) ==
    LET u == work[w].on
        by == work[w].read[u]
    IN
    /\ pc[w] = "adjust"
    /\ points' = [points EXCEPT ![u] = @ + by]
    /\ adjusted' = IF by >= 0 THEN [adjusted EXCEPT ![u].given = @ + by]
                   ELSE [adjusted EXCEPT ![u].taken = @ - by]
    /\ Done(w)
    /\ UNCHANGED <<situation, programme, expires, exchanges, answers, undone, torn, lost, spent>>

-----------------------------------------------------------------------------
ReferralInit ==
    /\ situation \in Situations
    /\ qualified = [e \in Edges |-> "NONE"]
    /\ rewards = <<>>
    /\ points = [u \in Members |-> situation.points]
    /\ expires = [u \in Members |-> Opening]
    /\ exchanges = <<>>
    /\ answers = {}
    /\ adjusted = [u \in Members |-> [given |-> 0, taken |-> 0]]
    /\ undone = {} /\ torn = {} /\ lost = {}
    /\ pc = [w \in Callers |-> "idle"]
    /\ work = [w \in Callers |-> Nothing]
    /\ spent = [h \in Handlers \cup {"faults"} |-> 0]

ReferralNext ==
    \/ \E t \in Payments : Qualify(t)
    \/ \E e \in Edges : QualifyManually(e)
    \/ \E e \in Edges, u \in Members, type \in RewardTypes : GrantReward(e, u, type)
    \/ \E i \in DOMAIN rewards : IssueReward(i) \/ Revoke(i)
    \/ \E w \in Callers :
          \/ \E t \in Payments : ReverseBegin(w, t)
          \/ ReverseRead(w) \/ ReverseWrite(w) \/ ReverseFail(w)
          \/ \E u \in Members, k \in Keys \cup {NoKey}, type \in ExchangeTypes :
                ExchangeBegin(w, u, k, type)
          \/ ExchangeCommit(w)
          \/ \E u \in Members, by \in {-Cost, Cost} : AdjustBegin(w, u, by)
          \/ AdjustWrite(w)

ReferralSpec == ReferralInit /\ [][ReferralNext]_referralVars
-----------------------------------------------------------------------------
(* Properties                                                              *)

\* Qualifying is exactly once however often the hooks run and whoever else
\* qualifies: an edge has one standing reward of its own, unless a reversal
\* cleared a qualification it had not read.
OneStandingReward ==
    \A e \in Edges \ torn :
        Cardinality({i \in OwnRewards(e) : ~rewards[i].revoked}) <= 1

\* What a row should have added to its user: on a torn edge only history knows.
DueFor(i) ==
    LET r == rewards[i] IN
    IF r.edge \in torn THEN r.moved
    ELSE IF r.issued /\ ~r.revoked THEN r.amount ELSE 0

DueTo(u, type) ==
    SumFunctionOnSet([i \in DOMAIN rewards |-> DueFor(i)],
        {i \in DOMAIN rewards : rewards[i].user = u /\ rewards[i].type = type})

Exchanged(u, types) ==
    Cardinality({i \in DOMAIN exchanges : exchanges[i].user = u /\ exchanges[i].type \in types})

\* The points of a user are what is issued and not taken back, less what was
\* exchanged, whatever raced.
PointsAddUp ==
    \A u \in Members :
        points[u] = situation.points + DueTo(u, "POINTS")
                        + adjusted[u].given - adjusted[u].taken
                        - Cost * Exchanged(u, ExchangeTypes)

\* So are the days of a subscription that no reversal has written over and no
\* extension has begun anew after its end.
DaysAddUp ==
    \A u \in Members \ lost :
        expires[u] = Opening + DueTo(u, "EXTRA_DAYS")
                         + Days * Exchanged(u, {"SUBSCRIPTION_DAYS"})

\* A key buys one exchange, however the repeated request interleaves with the
\* first, and every answer to it names that exchange.
ExchangedOnce ==
    \A u \in Members, k \in Keys :
        /\ Cardinality(MadeWith(u, k)) <= 1
        /\ \A i \in DOMAIN exchanges : <<u, k, i>> \in answers => i \in MadeWith(u, k)

\* A balance is below zero only by what a reversal or an operator took.
OnlyTakenBackOverdraws ==
    \A u \in Members : points[u] < 0 =>
        \/ adjusted[u].taken > 0
        \/ \E i \in DOMAIN rewards : rewards[i].user = u /\ rewards[i].issued /\ rewards[i].revoked

\* A reversal that took effect leaves nothing of what the payment qualified on
\* its edge, until the payment's own hook qualifies the edge again.
ReversalHolds ==
    \A t \in undone : Payer[t] \notin torn =>
        /\ qualified[Payer[t]] # t
        /\ \A i \in DOMAIN rewards :
              rewards[i].by = t /\ rewards[i].edge = Payer[t] => rewards[i].revoked

\* What holds of edges and rows in every state: their types, one standing reward of
\* an edge, and no balance overdrawn by an exchange.
EdgesConsistent == ReferralTypeOK /\ OneStandingReward /\ OnlyTakenBackOverdraws

\* Points and days are what the records say.
BalancesAddUp == PointsAddUp /\ DaysAddUp
=============================================================================
