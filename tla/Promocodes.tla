------------------------------- MODULE Promocodes -------------------------------
(***************************************************************************)
(* Promocodes: how a code that an operator edits, archives or lets expire  *)
(* is activated by users whose requests overlap, the same user's included. *)
(*                                                                         *)
(* Validation reads without a lock.  The activation then locks the code's  *)
(* row and looks again; the row's updatedAt, here a version, tells whether *)
(* the terms are still those that were validated.                          *)
(***************************************************************************)
EXTENDS Integers, FiniteSets

CONSTANTS
    Users,
    Codes,         \* codes that may exist
    Requests,      \* activation requests at work at a time
    MaxEdits       \* bound on the operator's edits of a code

Unlimited == -1

ASSUME PromocodeAssumption == MaxEdits \in Nat

VARIABLES
    promo,         \* the row of each code, NoCode if there is none
    activations,   \* PromocodeActivation rows
    granted,       \* history: the rewards applied, and for which request
    activating     \* what each request has validated, NoRequest if it is idle

promoVars == <<promo, activations, granted, activating>>

Row == [active : BOOLEAN, archived : BOOLEAN, expired : BOOLEAN,
        max : Nat \cup {Unlimited}, version : 0..MaxEdits, minted : BOOLEAN]
NoCode == [version |-> -1]
Idle == [code |-> "none"]

PromoTypeOK ==
    /\ promo \in [Codes -> Row \cup {NoCode}]
    /\ activations \subseteq [code : Codes, user : Users]
    /\ granted \subseteq [code : Codes, user : Users, by : Requests, live : BOOLEAN]
    /\ activating \in [Requests -> [code : Codes, user : Users, version : 0..MaxEdits] \cup {Idle}]

Exists(c) == promo[c] # NoCode

\* A code as it is created; minted: by a reward rather than by an operator.
NewCode(max, minted) ==
    [active |-> TRUE, archived |-> FALSE, expired |-> FALSE, max |-> max,
     version |-> 0, minted |-> minted]

Usable(row) == row.active /\ ~row.archived /\ ~row.expired

Used(c) == Cardinality({a \in activations : a.code = c})

\* isPromocodeDepleted
Depleted(c) == promo[c].max # Unlimited /\ Used(c) >= promo[c].max

Has(c, u) == [code |-> c, user |-> u] \in activations

\* The checks without a lock; what they saw of the row is carried along.
Validate(r, c, u) ==
    /\ activating[r] = Idle
    /\ Exists(c) /\ Usable(promo[c]) /\ ~Depleted(c) /\ ~Has(c, u)
    /\ activating' = [activating EXCEPT ![r] = [code |-> c, user |-> u,
                                                version |-> promo[c].version]]
    /\ UNCHANGED <<promo, activations, granted>>

MutantStillActivatable(a) == Usable(promo[a.code]) /\ promo[a.code].version = a.version

SameTerms(a) == promo[a.code].version = a.version

\* The checks under the lock of the code's row.
StillActivatable(a) ==
    Usable(promo[a.code]) /\ SameTerms(a) /\ ~Depleted(a.code)

\* @@unique([promocodeId, userId])
Taken(a) == Has(a.code, a.user)

\* The row, the reward and the sync job in one transaction; a reward that does
\* not apply to the target undoes the row.
Activate(r) ==
    LET a == activating[r] IN
    /\ a # Idle
    /\ \/ /\ StillActivatable(a) /\ ~Taken(a)
          /\ activations' = activations \cup {[code |-> a.code, user |-> a.user]}
          /\ granted' = granted \cup {[code |-> a.code, user |-> a.user, by |-> r,
                                       live |-> promo[a.code].version = a.version]}
       \/ UNCHANGED <<activations, granted>>
    /\ activating' = [activating EXCEPT ![r] = Idle]
    /\ UNCHANGED promo

\* An operator switches a code off or on, or changes its limit.
Edit(c, row) ==
    /\ Exists(c) /\ ~promo[c].archived
    /\ promo[c].version < MaxEdits
    /\ row.active # promo[c].active \/ row.max # promo[c].max
    /\ promo' = [promo EXCEPT ![c].active = row.active, ![c].max = row.max,
                              ![c].version = @ + 1]
    /\ UNCHANGED <<activations, granted, activating>>

Archive(c) ==
    /\ Exists(c) /\ ~promo[c].archived
    /\ promo[c].version < MaxEdits
    /\ promo' = [promo EXCEPT ![c].active = FALSE, ![c].archived = TRUE, ![c].version = @ + 1]
    /\ UNCHANGED <<activations, granted, activating>>

\* Time passes; the row is not written.
Expire(c) ==
    /\ Exists(c) /\ ~promo[c].expired
    /\ promo' = [promo EXCEPT ![c].expired = TRUE]
    /\ UNCHANGED <<activations, granted, activating>>

\* For the modules that create codes.
Mint(c) ==
    /\ ~Exists(c)
    /\ promo' = [promo EXCEPT ![c] = NewCode(1, TRUE)]
    /\ UNCHANGED <<activations, granted, activating>>

PromoInit ==
    /\ promo \in [Codes -> {NoCode, NewCode(1, FALSE), NewCode(Unlimited, FALSE)}]
    /\ activations = {} /\ granted = {}
    /\ activating = [r \in Requests |-> Idle]

PromoNext ==
    \/ \E r \in Requests : (\E c \in Codes, u \in Users : Validate(r, c, u)) \/ Activate(r)
    \/ \E c \in Codes :
          \/ \E b \in BOOLEAN, n \in {1, Unlimited} : Edit(c, [active |-> b, max |-> n])
          \/ Archive(c) \/ Expire(c)

PromoSpec == PromoInit /\ [][PromoNext]_promoVars
-----------------------------------------------------------------------------
(* Properties                                                              *)

\* However activations overlap, a code that was never edited is used no more
\* often than it allows; a gift or a quest's code, once.
MaxKept ==
    \A c \in Codes :
        Exists(c) /\ promo[c].version = 0 /\ promo[c].max # Unlimited => Used(c) <= promo[c].max

\* A user gets the reward of a code once, and for it an activation on record.
GrantedOnce ==
    /\ \A g, h \in granted : g.code = h.code /\ g.user = h.user => g = h
    /\ {[code |-> g.code, user |-> g.user] : g \in granted} = activations

\* A reward is given on the terms the code had when it was given: an edit
\* between the checks and the activation voids the checks.
TermsHold == \A g \in granted : g.live
=============================================================================
