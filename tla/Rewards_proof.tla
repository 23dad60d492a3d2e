----------------------------- MODULE Rewards_proof -----------------------------
(***************************************************************************)
(* Theorems about what users are given for what they do: promocodes, the   *)
(* quests that mint them, and the referral programme, for any users,       *)
(* codes, payments, amounts, overlapping requests, workers and batch.      *)
(*                                                                         *)
(* Promocodes: rows are typed, a code that was activated or is about to be *)
(* exists, every reward has its activation and was given on live terms,    *)
(* and an unedited code is used no more often than it allows. The lock of  *)
(* the code's row makes the last one inductive: the activation counts and  *)
(* inserts in one step.                                                    *)
(*                                                                         *)
(* Quests: the inductive invariant adds to the types and to what holds of  *)
(* codes                                                                   *)
(*   - Reserved: whoever is paid or on the way to it is among those who    *)
(*     claimed, and each of them took one of the budget;                   *)
(*   - StampHeld: without the stamp nothing was paid (but an unacknowledged *)
(*     trial), and the one worker that grants behind a stamp has not paid; *)
(*   - MintedOnce: the codes minted for stamped completions;               *)
(*   - LeftIsOpen: who has left cannot be claimed for.                     *)
(*                                                                         *)
(* Referrals: the inductive invariant adds to the properties what the      *)
(* reversal, which locks nothing, may still rely on: the edge it read is   *)
(* the one its payment qualified, the rows it read hang on that edge, and  *)
(* those it read as issued stay issued.  An edge no reversal wrote over    *)
(* has moved just what its rows are due, and has no reward standing once   *)
(* its qualification is cleared; so qualifying it again is safe.  The      *)
(* balances are sums over the rows.                                        *)
(***************************************************************************)
EXTENDS QuestRewards, ReferralRewards, FiniteSums, FiniteSetTheorems, TLAPS
-----------------------------------------------------------------------------
(* Promocodes                                                              *)

Finite == IsFiniteSet(activations)

\* Only codes that exist were activated, or are about to be.
Known ==
    /\ \A a \in activations : Exists(a.code)
    /\ \A r \in Requests : activating[r] # Idle => Exists(activating[r].code)

PromoInv ==
    PromoTypeOK /\ Finite /\ Known /\ GrantedOnce /\ TermsHold /\ MaxKept

\* The activations of one code are finitely many.
LEMMA UsedNat ==
  ASSUME Finite, NEW c
  PROVE  IsFiniteSet({a \in activations : a.code = c}) /\ Used(c) \in Nat
  BY FS_Subset, FS_CardinalityType DEF Finite, Used

\* A new activation counts for its own code and for no other.
LEMMA UsedGrows ==
  ASSUME Finite, NEW x, x \notin activations, activations' = activations \cup {x}, NEW c
  PROVE  Used(c)' = IF x.code = c THEN Used(c) + 1 ELSE Used(c)
<1> DEFINE S == {a \in activations : a.code = c}
<1>1. IsFiniteSet(S) /\ x \notin S
  BY UsedNat
<1>2. CASE x.code = c
  <2>1. {a \in activations' : a.code = c} = S \cup {x}
    BY <1>2
  <2>2. Cardinality(S \cup {x}) = Cardinality(S) + 1
    BY <1>1, FS_AddElement
  <2> QED
    BY <1>2, <2>1, <2>2 DEF Used
<1>3. CASE x.code # c
  <2>1. {a \in activations' : a.code = c} = S
    BY <1>3
  <2> QED
    BY <1>3, <2>1 DEF Used
<1> QED
  BY <1>2, <1>3

\* The initial states.
LEMMA InitInv == PromoInit => PromoInv
<1> SUFFICES ASSUME PromoInit PROVE PromoInv
  OBVIOUS
<1> USE PromocodeAssumption DEF PromoInit
<1>1. PromoTypeOK
  <2>1. NewCode(1, FALSE) \in Row /\ NewCode(Unlimited, FALSE) \in Row
    BY DEF Row, NewCode
  <2>2. promo \in [Codes -> Row \cup {NoCode}]
    BY <2>1
  <2>3. activating \in [Requests -> [code : Codes, user : Users, version : 0..MaxEdits] \cup {Idle}]
    OBVIOUS
  <2> QED
    BY <2>2, <2>3 DEF PromoTypeOK
<1>2. Finite
  BY FS_EmptySet DEF Finite
<1>3. GrantedOnce /\ TermsHold /\ Known
  BY DEF GrantedOnce, TermsHold, Known
<1>4. MaxKept
  <2> SUFFICES ASSUME NEW c \in Codes, Exists(c), promo[c].max # Unlimited
               PROVE  Used(c) <= promo[c].max
    BY DEF MaxKept
  <2>1. {a \in activations : a.code = c} = {}
    OBVIOUS
  <2>2. Used(c) = 0
    BY <2>1, FS_EmptySet DEF Used
  <2>3. promo[c].max = 1
    BY DEF Exists, NewCode, Unlimited
  <2> QED
    BY <2>2, <2>3
<1> QED
  BY <1>1, <1>2, <1>3, <1>4 DEF PromoInv

\* An activation of a code, or its refusal.
LEMMA ActivateInv ==
  ASSUME PromoInv, NEW r \in Requests, Activate(r)
  PROVE  PromoInv'
<1> DEFINE a == activating[r]
           x == [code |-> a.code, user |-> a.user]
           g == [code |-> a.code, user |-> a.user, by |-> r, live |-> promo[a.code].version = a.version]
<1>1. /\ a \in [code : Codes, user : Users, version : 0..MaxEdits]
      /\ promo' = promo
      /\ activating' = [activating EXCEPT ![r] = Idle]
  BY DEF Activate, PromoInv, PromoTypeOK
<1>2. CASE UNCHANGED <<activations, granted>>
  <2>1. PromoTypeOK'
    BY <1>1, <1>2 DEF PromoInv, PromoTypeOK
  <2>2. Finite' /\ GrantedOnce' /\ TermsHold' /\ MaxKept'
    BY <1>1, <1>2 DEF PromoInv, Finite, GrantedOnce, TermsHold, MaxKept, Exists, Used
  <2>3. Known'
    BY <1>1, <1>2 DEF PromoInv, PromoTypeOK, Known, Exists
  <2> QED
    BY <2>1, <2>2, <2>3 DEF PromoInv
<1>3. CASE /\ StillActivatable(a) /\ ~Taken(a)
           /\ activations' = activations \cup {x}
           /\ granted' = granted \cup {g}
  <2>1. x \notin activations /\ x \in [code : Codes, user : Users]
    BY <1>1, <1>3 DEF Taken, Has
  <2>2. PromoTypeOK'
    <3>1. g \in [code : Codes, user : Users, by : Requests, live : BOOLEAN]
      BY <1>1
    <3> QED
      BY <1>1, <1>3, <2>1, <3>1 DEF PromoInv, PromoTypeOK
  <2>3. Finite'
    BY <1>3, FS_AddElement DEF PromoInv, Finite
  <2>4. TermsHold'
    <3>1. promo[a.code].version = a.version
      BY <1>3 DEF StillActivatable, SameTerms
    <3>2. g.live
      BY <3>1
    <3>3. \A h \in granted : h.live
      BY DEF PromoInv, TermsHold
    <3> HIDE DEF g
    <3> QED
      BY <1>3, <3>2, <3>3 DEF TermsHold
  <2>5. GrantedOnce'
    <3>1. {[code |-> h.code, user |-> h.user] : h \in granted'} = activations'
      <4>1. {[code |-> h.code, user |-> h.user] : h \in granted} = activations
        BY DEF PromoInv, GrantedOnce
      <4>2. [code |-> g.code, user |-> g.user] = x
        OBVIOUS
      <4> HIDE DEF g, x
      <4> QED
        BY <1>3, <4>1, <4>2
    <3>2. \A h \in granted : ~(h.code = a.code /\ h.user = a.user)
      BY <2>1 DEF PromoInv, GrantedOnce
    <3>3. ASSUME NEW h \in granted', NEW k \in granted', h.code = k.code, h.user = k.user
          PROVE  h = k
      <4>1. CASE h \in granted /\ k \in granted
        BY <3>3, <4>1 DEF PromoInv, GrantedOnce
      <4>2. CASE h = g \/ k = g
        BY <1>3, <3>2, <3>3, <4>2
      <4> QED
        BY <1>3, <4>1, <4>2
    <3> QED
      BY <3>1, <3>3 DEF GrantedOnce
  <2>6. MaxKept'
    <3> SUFFICES ASSUME NEW c \in Codes, Exists(c), promo[c].version = 0, promo[c].max # Unlimited
                 PROVE  Used(c)' <= promo[c].max
      BY <1>1 DEF MaxKept, Exists
    <3>1. promo[c] \in Row /\ Used(c) \in Nat /\ promo[c].max \in Nat
      BY UsedNat DEF PromoInv, PromoTypeOK, Exists, Row
    <3>2. Used(c)' = IF a.code = c THEN Used(c) + 1 ELSE Used(c)
      BY <1>3, <2>1, UsedGrows DEF PromoInv
    <3>3. CASE a.code = c
      <4>1. Used(c) < promo[c].max
        BY <1>3, <3>1, <3>3 DEF StillActivatable, Depleted
      <4> QED
        BY <3>1, <3>2, <3>3, <4>1
    <3>4. CASE a.code # c
      BY <3>2, <3>4 DEF PromoInv, MaxKept
    <3> QED
      BY <3>3, <3>4
  <2>7. Known'
    <3>1. a # Idle
      BY DEF Activate
    <3>2. Exists(a.code)
      BY <3>1 DEF PromoInv, Known
    <3> HIDE DEF a
    <3>3. \A b \in activations' : b \in activations \/ b.code = a.code
      BY <1>3
    <3>4. \A q \in Requests : activating'[q] = Idle \/ activating'[q] = activating[q]
      BY <1>1 DEF PromoInv, PromoTypeOK
    <3> QED
      BY <1>1, <3>2, <3>3, <3>4 DEF PromoInv, Known, Exists
  <2> QED
    BY <2>2, <2>3, <2>4, <2>5, <2>6, <2>7 DEF PromoInv
<1> QED
  BY <1>2, <1>3 DEF Activate

\* Activations, edits and time neither create a code nor delete one, keep who
\* minted it, and leave the limit of an unedited one alone.
LEMMA RowKept ==
  ASSUME PromoTypeOK, [PromoNext]_promoVars, NEW c \in Codes
  PROVE  /\ Exists(c)' <=> Exists(c)
         /\ Exists(c) => /\ promo'[c].minted = promo[c].minted
                         /\ promo'[c].version = 0 =>
                               promo[c].version = 0 /\ promo'[c].max = promo[c].max
<1> DEFINE Kept(e) ==
      /\ Exists(e)' <=> Exists(e)
      /\ Exists(e) => /\ promo'[e].minted = promo[e].minted
                      /\ promo'[e].version = 0 =>
                            promo[e].version = 0 /\ promo'[e].max = promo[e].max
<1>1. promo \in [Codes -> Row \cup {NoCode}] /\ MaxEdits \in Nat
  BY PromocodeAssumption DEF PromoTypeOK
<1>2. ASSUME promo' = promo PROVE Kept(c)
  BY <1>2 DEF Exists
<1>3. ASSUME NEW e \in Codes, Exists(e), promo' = [promo EXCEPT ![e] = promo'[e]],
             promo'[e].minted = promo[e].minted, promo'[e] # NoCode,
             \/ promo'[e].version = promo[e].version + 1
             \/ promo'[e].version = promo[e].version /\ promo'[e].max = promo[e].max
      PROVE  Kept(c)
  <2>1. promo[e] \in Row /\ promo[e].version \in 0..MaxEdits
    BY <1>1, <1>3 DEF Exists, Row
  <2>2. CASE c = e
    BY <1>1, <1>3, <2>1, <2>2 DEF Exists
  <2>3. CASE c # e
    BY <1>1, <1>3, <2>3 DEF Exists
  <2> QED
    BY <2>2, <2>3
<1>4. ASSUME NEW e \in Codes, NEW b \in BOOLEAN, NEW n \in {1, Unlimited},
             Edit(e, [active |-> b, max |-> n])
      PROVE  Kept(c)
  <2>1. promo[e] \in Row
    BY <1>1, <1>4 DEF Edit, Exists
  <2>2. promo'[e] = [promo[e] EXCEPT !.active = b, !.max = n, !.version = @ + 1]
    BY <1>1, <1>4 DEF Edit
  <2>3. promo' = [promo EXCEPT ![e] = promo'[e]] /\ Exists(e)
    BY <1>1, <1>4, <2>2 DEF Edit
  <2>4. /\ promo'[e].minted = promo[e].minted
        /\ promo'[e].version = promo[e].version + 1 /\ promo'[e].version # -1
    BY <1>1, <2>1, <2>2 DEF Row
  <2> QED
    BY <1>3, <2>3, <2>4 DEF NoCode
<1>5. ASSUME NEW e \in Codes, Archive(e) PROVE Kept(c)
  <2>1. promo[e] \in Row
    BY <1>1, <1>5 DEF Archive, Exists
  <2>2. promo'[e] = [promo[e] EXCEPT !.active = FALSE, !.archived = TRUE, !.version = @ + 1]
    BY <1>1, <1>5 DEF Archive
  <2>3. promo' = [promo EXCEPT ![e] = promo'[e]] /\ Exists(e)
    BY <1>1, <1>5, <2>2 DEF Archive
  <2>4. /\ promo'[e].minted = promo[e].minted
        /\ promo'[e].version = promo[e].version + 1 /\ promo'[e].version # -1
    BY <1>1, <2>1, <2>2 DEF Row
  <2> QED
    BY <1>3, <2>3, <2>4 DEF NoCode
<1>6. ASSUME NEW e \in Codes, Expire(e) PROVE Kept(c)
  <2>1. promo[e] \in Row
    BY <1>1, <1>6 DEF Expire, Exists
  <2>2. promo'[e] = [promo[e] EXCEPT !.expired = TRUE]
    BY <1>1, <1>6 DEF Expire
  <2>3. promo' = [promo EXCEPT ![e] = promo'[e]] /\ Exists(e)
    BY <1>1, <1>6, <2>2 DEF Expire
  <2>4. /\ promo'[e].minted = promo[e].minted
        /\ promo'[e].version = promo[e].version /\ promo'[e].max = promo[e].max
        /\ promo'[e].version # -1
    BY <1>1, <2>1, <2>2 DEF Row
  <2> QED
    BY <1>3, <2>3, <2>4 DEF NoCode
<1> HIDE DEF Kept
<1>7. ASSUME NEW r \in Requests, (\E e \in Codes, u \in Users : Validate(r, e, u)) \/ Activate(r)
      PROVE  promo' = promo
  BY <1>7 DEF Validate, Activate
<1>8. Kept(c)
  <2>1. CASE UNCHANGED promoVars
    BY <1>2, <2>1 DEF promoVars
  <2>2. CASE PromoNext
    BY <1>2, <1>4, <1>5, <1>6, <1>7, <2>2 DEF PromoNext
  <2> QED
    BY <2>1, <2>2
<1> QED
  BY <1>8 DEF Kept

\* Validation remembers, edits and time change the row: nothing is given out.
LEMMA OthersInv ==
  ASSUME PromoInv,
         \/ \E r \in Requests, c \in Codes, u \in Users : Validate(r, c, u)
         \/ \E c \in Codes : \/ \E b \in BOOLEAN, n \in {1, Unlimited} :
                                   Edit(c, [active |-> b, max |-> n])
                             \/ Archive(c) \/ Expire(c)
         \/ UNCHANGED promoVars
  PROVE  PromoInv'
<1>1. UNCHANGED <<activations, granted>>
  BY DEF Validate, Edit, Archive, Expire, promoVars
<1>2. Finite' /\ GrantedOnce' /\ TermsHold'
  BY <1>1 DEF PromoInv, Finite, GrantedOnce, TermsHold
<1>3. PromoTypeOK'
  <2>1. ASSUME NEW r \in Requests, NEW c \in Codes, NEW u \in Users, Validate(r, c, u)
        PROVE  PromoTypeOK'
    <3>1. promo[c].version \in 0..MaxEdits
      BY <2>1 DEF Validate, Exists, PromoInv, PromoTypeOK, Row
    <3> QED
      BY <2>1, <3>1 DEF Validate, PromoInv, PromoTypeOK
  <2>2. ASSUME NEW c \in Codes, NEW b \in BOOLEAN, NEW n \in {1, Unlimited},
               Edit(c, [active |-> b, max |-> n])
        PROVE  PromoTypeOK'
    <3>1. promo[c] \in Row
      BY <2>2 DEF Edit, Exists, PromoInv, PromoTypeOK
    <3>a. promo[c].version \in 0..MaxEdits /\ promo[c].version < MaxEdits
      BY <2>2, <3>1 DEF Edit, Row
    <3>b. promo[c].version + 1 \in 0..MaxEdits
      BY <3>a, PromocodeAssumption
    <3>2. [promo[c] EXCEPT !.active = b, !.max = n, !.version = @ + 1] \in Row
      <4>1. n \in Nat \cup {Unlimited}
        OBVIOUS
      <4> QED
        BY <3>1, <3>b, <4>1 DEF Row
    <3> QED
      BY <2>2, <3>2 DEF Edit, PromoInv, PromoTypeOK
  <2>3. ASSUME NEW c \in Codes, Archive(c) PROVE PromoTypeOK'
    <3>1. promo[c] \in Row
      BY <2>3 DEF Archive, Exists, PromoInv, PromoTypeOK
    <3>a. promo[c].version \in 0..MaxEdits /\ promo[c].version < MaxEdits
      BY <2>3, <3>1 DEF Archive, Row
    <3>b. promo[c].version + 1 \in 0..MaxEdits
      BY <3>a, PromocodeAssumption
    <3>2. [promo[c] EXCEPT !.active = FALSE, !.archived = TRUE, !.version = @ + 1] \in Row
      BY <3>1, <3>b DEF Row
    <3> QED
      BY <2>3, <3>2 DEF Archive, PromoInv, PromoTypeOK
  <2>4. ASSUME NEW c \in Codes, Expire(c) PROVE PromoTypeOK'
    BY <2>4 DEF Expire, Exists, PromoInv, PromoTypeOK, Row
  <2>5. CASE UNCHANGED promoVars
    BY <2>5 DEF promoVars, PromoInv, PromoTypeOK
  <2> QED
    BY <2>1, <2>2, <2>3, <2>4, <2>5
<1>4. MaxKept'
  <2> SUFFICES ASSUME NEW c \in Codes, Exists(c)', promo'[c].version = 0, promo'[c].max # Unlimited
               PROVE  Used(c) <= promo'[c].max
    BY <1>1 DEF MaxKept, Used
  <2>1. Exists(c) /\ promo[c].version = 0 /\ promo'[c].max = promo[c].max
    BY RowKept DEF PromoInv, PromoNext
  <2> QED
    BY <2>1 DEF PromoInv, MaxKept
<1>5. Known'
  <2>1. [PromoNext]_promoVars
    BY DEF PromoNext
  <2>2. \A c \in Codes : Exists(c)' <=> Exists(c)
    BY <2>1, RowKept DEF PromoInv
  <2>3. \A r \in Requests :
          \/ activating'[r] = Idle
          \/ activating'[r] = activating[r]
          \/ activating'[r].code \in Codes /\ Exists(activating'[r].code)
    <3>1. ASSUME NEW r \in Requests, NEW c \in Codes, NEW u \in Users, Validate(r, c, u)
          PROVE  \A q \in Requests : \/ activating'[q] = activating[q]
                                     \/ activating'[q].code \in Codes /\ Exists(activating'[q].code)
      <4>1. promo' = promo /\ Exists(c)
        BY <3>1 DEF Validate
      <4>2. \A q \in Requests : activating'[q] = activating[q]
                                \/ activating'[q] = [code |-> c, user |-> u, version |-> promo[c].version]
        BY <3>1 DEF Validate, PromoInv, PromoTypeOK
      <4> QED
        BY <4>1, <4>2
    <3>2. CASE UNCHANGED activating
      BY <3>2
    <3>3. \A e \in Codes : Archive(e) \/ Expire(e) => UNCHANGED activating
      BY DEF Archive, Expire
    <3>4. \A e \in Codes : \A row : Edit(e, row) => UNCHANGED activating
      BY DEF Edit
    <3> QED
      BY <3>1, <3>2, <3>3, <3>4 DEF promoVars
  <2>4. /\ \A a \in activations : a.code \in Codes
        /\ \A r \in Requests : activating[r] # Idle => activating[r].code \in Codes
    BY DEF PromoInv, PromoTypeOK
  <2> QED
    BY <1>1, <2>2, <2>3, <2>4 DEF PromoInv, Known
<1> QED
  BY <1>2, <1>3, <1>4, <1>5 DEF PromoInv

\* A code that a reward mints is of one use, and nobody has used it.
LEMMA MintInv ==
  ASSUME PromoInv, NEW c \in Codes, Mint(c)
  PROVE  PromoInv'
<1>1. /\ ~Exists(c) /\ UNCHANGED <<activations, granted, activating>>
      /\ promo' = [promo EXCEPT ![c] = NewCode(1, TRUE)]
  BY DEF Mint
<1>2. NewCode(1, TRUE) \in Row
  BY PromocodeAssumption DEF NewCode, Row
<1>3. PromoTypeOK'
  BY <1>1, <1>2 DEF PromoInv, PromoTypeOK
<1>4. Finite' /\ GrantedOnce' /\ TermsHold'
  BY <1>1 DEF PromoInv, Finite, GrantedOnce, TermsHold
<1>5. promo'[c] = NewCode(1, TRUE) /\ \A e \in Codes : e # c => promo'[e] = promo[e]
  BY <1>1 DEF PromoInv, PromoTypeOK
<1>6. \A e \in Codes : Exists(e) => Exists(e)'
  BY <1>1, <1>5 DEF Exists
<1>7. Known'
  <2>1. /\ \A a \in activations : a.code \in Codes
        /\ \A r \in Requests : activating[r] # Idle => activating[r].code \in Codes
    BY DEF PromoInv, PromoTypeOK
  <2> QED
    BY <1>1, <1>6, <2>1 DEF PromoInv, Known
<1>8. MaxKept'
  <2> SUFFICES ASSUME NEW e \in Codes, Exists(e)', promo'[e].version = 0, promo'[e].max # Unlimited
               PROVE  Used(e) <= promo'[e].max
    BY <1>1 DEF MaxKept, Used
  <2>1. CASE e = c
    <3>1. {a \in activations : a.code = c} = {}
      BY <1>1 DEF PromoInv, Known
    <3>2. Used(c) = 0
      BY <3>1, FS_EmptySet DEF Used
    <3> QED
      BY <1>5, <2>1, <3>2 DEF NewCode
  <2>2. CASE e # c
    BY <1>5, <2>2 DEF PromoInv, MaxKept, Exists
  <2> QED
    BY <2>1, <2>2
<1> QED
  BY <1>3, <1>4, <1>7, <1>8 DEF PromoInv

\* Every step keeps the invariant.
LEMMA NextInv == PromoInv /\ [PromoNext]_promoVars => PromoInv'
  BY ActivateInv, OthersInv DEF PromoNext

\* The inductive invariant holds throughout.
THEOREM InvHolds == PromoSpec => []PromoInv
  BY InitInv, NextInv, PTL DEF PromoSpec

\* Rows, activations and rewards keep their types.
THEOREM TypeCorrect == PromoSpec => []PromoTypeOK
<1>1. PromoInv => PromoTypeOK
  BY DEF PromoInv
<1> QED
  BY <1>1, InvHolds, PTL

\* However activations overlap, a user gets the reward of a code once, and every
\* reward has its activation.
THEOREM RewardedOnce == PromoSpec => []GrantedOnce
<1>1. PromoInv => GrantedOnce
  BY DEF PromoInv
<1> QED
  BY <1>1, InvHolds, PTL

\* No reward is given on terms that were edited after the checks.
THEOREM TermsAreLive == PromoSpec => []TermsHold
<1>1. PromoInv => TermsHold
  BY DEF PromoInv
<1> QED
  BY <1>1, InvHolds, PTL

\* A code that was never edited is used no more often than it allows.
THEOREM LimitKept == PromoSpec => []MaxKept
<1>1. PromoInv => MaxKept
  BY DEF PromoInv
<1> QED
  BY <1>1, InvHolds, PTL
-----------------------------------------------------------------------------
(* Quests                                                                  *)

Claimers == reopened \cup {u \in Users : completion[u].status = "CLAIMED"}
Due(w) == at[w].pc \in {"issue", "pay", "stamp", "grant", "release"}
Granting(w) == at[w].pc \in {"grant", "release"}
Again(u) == IF u \in unacked THEN 1 ELSE 0

Reserved ==
    /\ IsFiniteSet(Claimers) /\ Cardinality(Claimers) <= issuedCount
    /\ issuedCount <= scenario.budget
    /\ reopened = {} => issuedCount = Cardinality(Claimers)
    /\ \A u \in Claimers : completion[u] # Absent
    /\ \A w \in Workers : Due(w) => at[w].user \in Claimers
    /\ todo \subseteq Claimers
    /\ \A u \in Users : paid[u] > 0 => u \in Claimers

StampHeld ==
    /\ \A u \in Users : ~completion[u].issued => paid[u] <= Again(u)
    /\ \A u \in Users : paid[u] <= Again(u) + 1
    /\ \A w \in Workers : Granting(w) =>
          completion[at[w].user].issued /\ paid[at[w].user] <= Again(at[w].user)
    /\ \A v, w \in Workers :
          Granting(v) /\ Granting(w) /\ at[v].user = at[w].user => v = w
    /\ unacked \subseteq bounded

MintedOnce ==
    /\ \A m \in minted :
          /\ completion[m.user].issued
          /\ \A w \in Workers : Granting(w) => at[w].user # m.user
          /\ Exists(m.code) /\ promo[m.code].minted
    /\ \A m, n \in minted : m.user = n.user \/ m.code = n.code => m = n
    /\ \A c \in Codes :
          Exists(c) /\ promo[c].minted /\ promo[c].version = 0 => promo[c].max = 1

LeftIsOpen ==
    /\ left # {} => scenario.type = "CHANNEL"
    /\ \A w \in Workers : at[w].pc = "detect" =>
          /\ at[w].kind \in Kinds
          /\ at[w].kind \in {"recheck", "left"} => at[w].saw # Absent
          /\ at[w].saw # Absent => completion[at[w].user] # Absent
    /\ \A u \in left : completion[u].status # "COMPLETED" /\ ~completion[u].fresh

QuestInv ==
    QuestTypeOK /\ PromoInv /\ Reserved /\ StampHeld /\ MintedOnce /\ LeftIsOpen
-----------------------------------------------------------------------------
(* Types                                                                   *)

\* A completion keeps its type when one of its fields changes, if it exists.
LEMMA RowTyped ==
  ASSUME NEW row \in Completion \cup {Absent}
  PROVE  /\ row.fresh \in BOOLEAN /\ row.issued \in BOOLEAN
         /\ row # Absent => row \in Completion
         /\ row.status = "CLAIMED" \/ row.status = "COMPLETED" => row # Absent
         /\ row.fresh => row # Absent
         /\ row # Absent =>
               /\ [row EXCEPT !.issued = TRUE] \in Completion
               /\ [row EXCEPT !.issued = FALSE] \in Completion
               /\ [row EXCEPT !.fresh = FALSE] \in Completion
               /\ [row EXCEPT !.status = "CLAIMED"] \in Completion
               /\ [row EXCEPT !.status = "COMPLETED"] \in Completion
               /\ [row EXCEPT !.status = "COMPLETED", !.fresh = TRUE] \in Completion
               /\ [row EXCEPT !.status = "IN_PROGRESS", !.fresh = FALSE] \in Completion
<1>1. CASE row = Absent
  BY <1>1 DEF Absent
<1>2. CASE row \in Completion
  <2>1. row.fresh \in BOOLEAN /\ row.issued \in BOOLEAN /\ row.status # "ABSENT"
    BY <1>2 DEF Completion
  <2>2. row # Absent
    BY <2>1 DEF Absent
  <2>3. /\ [row EXCEPT !.issued = TRUE] \in Completion
        /\ [row EXCEPT !.issued = FALSE] \in Completion
        /\ [row EXCEPT !.fresh = FALSE] \in Completion
    BY <1>2 DEF Completion
  <2>4. /\ [row EXCEPT !.status = "CLAIMED"] \in Completion
        /\ [row EXCEPT !.status = "COMPLETED"] \in Completion
    BY <1>2 DEF Completion
  <2>5. /\ [row EXCEPT !.status = "COMPLETED", !.fresh = TRUE] \in Completion
        /\ [row EXCEPT !.status = "IN_PROGRESS", !.fresh = FALSE] \in Completion
    BY <1>2 DEF Completion
  <2> QED
    BY <1>2, <2>1, <2>2, <2>3, <2>4, <2>5
<1> QED
  BY <1>1, <1>2

\* Where a worker may be.
LEMMA AtTyped ==
  ASSUME QuestTypeOK, NEW w \in Workers
  PROVE  /\ at[w].pc \in {"idle", "detect", "reserve", "issue", "pay", "stamp", "grant", "release"}
         /\ at[w].pc # "idle" => at[w].user \in Users
         /\ at[w].pc = "idle" <=> at[w] = Resting
         /\ at[w].pc = "detect" => at[w].kind \in AllKinds /\ at[w].saw \in Completion \cup {Absent}
         /\ at[w].pc \notin {"idle", "detect"} =>
               \A x \in {"reserve", "issue", "pay", "stamp", "grant", "release"} :
                  [at[w] EXCEPT !.pc = x] = [pc |-> x, user |-> at[w].user]
<1>1. CASE at[w] = Resting
  BY <1>1 DEF Resting
<1>2. CASE at[w] \in [pc : {"detect"}, user : Users, kind : AllKinds, saw : Completion \cup {Absent}]
  BY <1>2 DEF Resting
<1>3. CASE at[w] \in [pc : {"reserve", "issue", "pay", "stamp", "grant", "release"}, user : Users]
  BY <1>3 DEF Resting
<1> QED
  BY <1>1, <1>2, <1>3 DEF QuestTypeOK

\* A worker that moves leaves the others where they are.
LEMMA OthersStay ==
  ASSUME QuestTypeOK, NEW w \in Workers, NEW x, Goto(w, x)
  PROVE  \A v \in Workers : at'[v] = IF v = w THEN x ELSE at[v]
  BY DEF QuestTypeOK, Goto

\* What a record creates is unclaimed and without the stamp.
LEMMA CreatedTyped ==
  ASSUME NEW k
  PROVE  Created(k) \in Completion /\ ~Created(k).issued /\ Created(k).status # "CLAIMED"
<1>1. CASE k = "verify"
  BY <1>1 DEF Created, Completion
<1>2. CASE k = "short"
  BY <1>2 DEF Created, Completion
<1>3. CASE k # "verify" /\ k # "short"
  BY <1>3 DEF Created, Completion
<1> QED
  BY <1>1, <1>2, <1>3

\* What a record writes: it keeps the stamp, claims nothing, and leaves no
\* completion that was taken back claimable.
LEMMA RecordedRow ==
  ASSUME QuestInv, NEW w \in Workers, at[w].pc = "detect", NEW row,
         row = IF at[w].saw # Absent THEN Written(completion[at[w].user], at[w].kind, at[w].saw)
               ELSE IF completion[at[w].user] = Absent THEN Created(at[w].kind)
               ELSE completion[at[w].user]
  PROVE  /\ row \in Completion
         /\ row.issued <=> completion[at[w].user].issued
         /\ row.status = "CLAIMED" => completion[at[w].user].status = "CLAIMED"
         /\ Revokes(at[w].kind, at[w].saw) =>
               row.status = "IN_PROGRESS" /\ ~row.fresh /\ scenario.type = "CHANNEL"
         /\ scenario.type = "CHANNEL" => row.fresh \/ row.status # "COMPLETED"
                                          \/ row = completion[at[w].user]
<1> DEFINE u == at[w].user
           k == at[w].kind
           saw == at[w].saw
<1>1. /\ u \in Users /\ completion[u] \in Completion \cup {Absent}
      /\ k \in AllKinds /\ saw \in Completion \cup {Absent}
      /\ saw # Absent => completion[u] # Absent
      /\ k \in {"recheck", "left"} => saw # Absent
      /\ k \in Kinds
  BY AtTyped DEF QuestInv, QuestTypeOK, LeftIsOpen
<1>2. ~Absent.issued /\ Absent.status # "CLAIMED" /\ ~Absent.fresh
  BY DEF Absent
<1>3. k = "left" => scenario.type = "CHANNEL"
  BY <1>1, QuestAssumption DEF Kinds, QuestTypes, QuestInv, QuestTypeOK
<1>4. scenario.type = "CHANNEL" => k \in {"verify", "recheck", "left"}
  BY <1>1 DEF Kinds
<1>5. CASE saw # Absent
  <2>1. completion[u] \in Completion /\ row = Written(completion[u], k, saw)
    BY <1>1, <1>5
  <2>2. CASE k \in {"verify", "recheck"}
    <3>1. row = [completion[u] EXCEPT !.status = "COMPLETED", !.fresh = TRUE]
      BY <2>1, <2>2, k # "left" /\ k # "reached" DEF Written, Revokes
    <3>2. row \in Completion
      BY <2>1, <3>1 DEF Completion
    <3>3. row.issued = completion[u].issued /\ row.status = "COMPLETED" /\ row.fresh
      BY <2>1, <3>1 DEF Completion
    <3>4. ~Revokes(k, saw)
      BY <2>2 DEF Revokes
    <3> QED
      BY <3>2, <3>3, <3>4
  <2>3. CASE Revokes(k, saw)
    <3>1. row = [completion[u] EXCEPT !.status = "IN_PROGRESS", !.fresh = FALSE]
      BY <2>1, <2>3 DEF Written, Revokes
    <3>2. row \in Completion
      BY <2>1, <3>1 DEF Completion
    <3>3. row.issued = completion[u].issued /\ row.status = "IN_PROGRESS" /\ ~row.fresh
      BY <2>1, <3>1 DEF Completion
    <3>4. scenario.type = "CHANNEL"
      BY <1>3, <2>3 DEF Revokes
    <3> QED
      BY <3>2, <3>3, <3>4
  <2>4. CASE ~(k \in {"verify", "recheck"}) /\ ~Revokes(k, saw) /\ k = "reached" /\ saw.status # "COMPLETED"
    <3>1. row = [completion[u] EXCEPT !.status = "COMPLETED"]
      BY <2>1, <2>4 DEF Written
    <3>2. row \in Completion
      BY <2>1, <3>1 DEF Completion
    <3>3. row.issued = completion[u].issued /\ row.status = "COMPLETED"
      BY <2>1, <3>1 DEF Completion
    <3> QED
      BY <1>4, <2>4, <3>2, <3>3
  <2>5. CASE ~(k \in {"verify", "recheck"}) /\ ~Revokes(k, saw)
             /\ ~(k = "reached" /\ saw.status # "COMPLETED")
    <3>1. row = completion[u]
      BY <2>1, <2>5 DEF Written
    <3> QED
      BY <2>1, <2>5, <3>1
  <2> QED
    BY <2>2, <2>3, <2>4, <2>5
<1>6. CASE saw = Absent /\ completion[u] = Absent
  <2>1. row = Created(k)
    BY <1>6
  <2>2. row \in Completion /\ ~row.issued /\ row.status # "CLAIMED"
    BY <2>1, CreatedTyped
  <2>3. scenario.type = "CHANNEL" => row.fresh
    BY <1>1, <1>4, <1>6, <2>1 DEF Created
  <2>4. ~Revokes(k, saw)
    BY <1>1, <1>6 DEF Revokes
  <2> QED
    BY <1>2, <1>6, <2>2, <2>3, <2>4
<1>7. CASE saw = Absent /\ completion[u] # Absent
  <2>1. row = completion[u]
    BY <1>7
  <2>2. ~Revokes(k, saw)
    BY <1>1, <1>7 DEF Revokes
  <2> QED
    BY <1>1, <1>7, <2>1, <2>2
<1> QED
  BY <1>5, <1>6, <1>7
-----------------------------------------------------------------------------
(* Steps that move a worker and write nothing of a completion              *)

\* A worker that goes to a step without a stamp, or on to a due one for someone
\* who claimed, disturbs nothing.
LEMMA MoveInv ==
  ASSUME QuestInv, NEW w \in Workers, NEW x, Goto(w, x),
         UNCHANGED <<promoVars, scenario, completion, claimedAt, issuedCount, bounded, left,
                     reopened, stranded, unacked, paid, minted>>,
         todo' \subseteq todo,
         starts' \in 0..scenario.starts, faults' \in 0..scenario.faults,
         crashes' \in 0..scenario.crashes,
         \/ x = Resting
         \/ \E u \in Users, k \in Kinds :
               /\ x = [pc |-> "detect", user |-> u, kind |-> k, saw |-> completion[u]]
               /\ k \in AllKinds /\ (k \in {"recheck", "left"} => completion[u] # Absent)
         \/ \E u \in Users : x = [pc |-> "reserve", user |-> u]
         \/ \E u \in Claimers, s \in {"issue", "pay", "stamp"} : x = [pc |-> s, user |-> u]
  PROVE  QuestInv'
<1>1. Claimers \subseteq Users
  BY DEF QuestInv, QuestTypeOK, Claimers
<1>2. \A v \in Workers : at'[v] = IF v = w THEN x ELSE at[v]
  BY OthersStay DEF QuestInv
<1>3. \A v \in Workers : Granting(v)' => Granting(v) /\ v # w /\ at'[v] = at[v]
  BY <1>2 DEF Granting, Resting
<1>4. /\ x = Resting \/ x.user \in Users
      /\ x.pc \in {"issue", "pay", "stamp", "grant", "release"} => x.user \in Claimers
      /\ x.pc = "detect" => /\ x.kind \in Kinds
                            /\ x.kind \in {"recheck", "left"} => x.saw # Absent
                            /\ x.saw # Absent => completion[x.user] # Absent
  BY <1>1 DEF Resting
<1>5. QuestTypeOK'
  <2>1. x \in {Resting}
              \cup [pc : {"detect"}, user : Users, kind : AllKinds, saw : Completion \cup {Absent}]
              \cup [pc : {"reserve", "issue", "pay", "stamp", "grant", "release"}, user : Users]
    BY <1>1 DEF QuestInv, QuestTypeOK
  <2> QED
    BY <2>1 DEF QuestInv, QuestTypeOK, Goto
<1>6. PromoInv'
  BY OthersInv DEF QuestInv
<1>7. Reserved'
  BY <1>2, <1>4 DEF QuestInv, Reserved, Claimers, Due
<1>8. StampHeld'
  BY <1>3 DEF QuestInv, StampHeld, Again, Granting
<1>9. MintedOnce'
  BY <1>3 DEF QuestInv, MintedOnce, Exists, promoVars
<1>10. LeftIsOpen'
  BY <1>2, <1>4 DEF QuestInv, LeftIsOpen, Kinds
<1> QED
  BY <1>5, <1>6, <1>7, <1>8, <1>9, <1>10 DEF QuestInv

\* Detection and claims begin, the choice of the payout, the reconciler's next.
LEMMA MovesInv ==
  ASSUME QuestInv, NEW w \in Workers,
         \/ \E u \in Users : (\E k \in Kinds : Detect(w, u, k)) \/ Claim(w, u)
         \/ Issue(w) \/ Redrive(w)
  PROVE  QuestInv'
<1>1. /\ Claimers \subseteq Users /\ todo \subseteq Claimers
      /\ at[w].pc = "issue" => at[w].user \in Claimers
      /\ \A u \in Users : completion[u].status = "CLAIMED" => u \in Claimers
      /\ scenario.starts \in Nat
      /\ starts \in 0..scenario.starts /\ faults \in 0..scenario.faults /\ crashes \in 0..scenario.crashes
  BY QuestAssumption DEF QuestInv, QuestTypeOK, Reserved, Claimers, Due
<1>2. ASSUME NEW u \in Users, NEW k \in Kinds, Detect(w, u, k) PROVE QuestInv'
  <2> DEFINE x == [pc |-> "detect", user |-> u, kind |-> k, saw |-> completion[u]]
  <2>1. k \in AllKinds
    BY QuestAssumption DEF Kinds, AllKinds, QuestTypes, QuestInv, QuestTypeOK
  <2>2. k \in {"recheck", "left"} => completion[u] # Absent
    BY <1>2 DEF Detect, Worth
  <2>3. Goto(w, x) /\ starts' \in 0..scenario.starts
    BY <1>1, <1>2 DEF Detect
  <2>4. UNCHANGED <<promoVars, scenario, completion, claimedAt, issuedCount, bounded, todo, left,
                    reopened, stranded, unacked, paid, minted, faults, crashes>>
    BY <1>2 DEF Detect
  <2> QED
    BY <1>1, <2>1, <2>2, <2>3, <2>4, MoveInv
<1>3. ASSUME NEW u \in Users, Claim(w, u) PROVE QuestInv'
  <2>1. starts' \in 0..scenario.starts
    BY <1>1, <1>3 DEF Claim
  <2>2. UNCHANGED <<promoVars, scenario, completion, claimedAt, issuedCount, bounded, todo, left,
                    reopened, stranded, unacked, paid, minted, faults, crashes>>
    BY <1>3 DEF Claim
  <2>3. CASE Goto(w, [pc |-> "reserve", user |-> u])
    BY <1>1, <2>1, <2>2, <2>3, MoveInv
  <2>4. CASE u \in Claimers /\ Goto(w, [pc |-> "issue", user |-> u])
    BY <1>1, <2>1, <2>2, <2>4, MoveInv
  <2> QED
    BY <1>1, <1>3, <2>3, <2>4 DEF Claim
<1>4. CASE Issue(w)
  <2>1. UNCHANGED <<promoVars, scenario, completion, claimedAt, issuedCount, bounded, todo, left,
                    reopened, stranded, unacked, paid, minted, starts, faults, crashes>>
    BY <1>4 DEF Issue
  <2>2. at[w].pc = "issue"
    BY <1>4 DEF Issue
  <2>3. \A s \in {"stamp", "pay"} : [at[w] EXCEPT !.pc = s] = [pc |-> s, user |-> at[w].user]
    BY <2>2, AtTyped DEF QuestInv
  <2>4. CASE Rest(w)
    BY <1>1, <2>1, <2>4, MoveInv DEF Rest
  <2>5. ASSUME NEW s \in {"stamp", "pay"}, Step(w, s) PROVE QuestInv'
    <3>1. Goto(w, [pc |-> s, user |-> at[w].user]) /\ at[w].user \in Claimers
      BY <1>1, <2>2, <2>3, <2>5 DEF Step
    <3> QED
      BY <1>1, <2>1, <3>1, MoveInv
  <2>6. Rest(w) \/ Step(w, "stamp") \/ Step(w, "pay")
    BY <1>4 DEF Issue
  <2> QED
    BY <2>4, <2>5, <2>6
<1>5. CASE Redrive(w)
  <2>1. PICK u \in todo : Goto(w, [pc |-> "issue", user |-> u]) /\ todo' = todo \ {u}
    BY <1>5 DEF Redrive
  <2>2. UNCHANGED <<promoVars, scenario, completion, claimedAt, issuedCount, bounded, left,
                    reopened, stranded, unacked, paid, minted, starts, faults, crashes>>
    BY <1>5 DEF Redrive
  <2> QED
    BY <1>1, <2>1, <2>2, MoveInv
<1> QED
  BY <1>2, <1>3, <1>4, <1>5
-----------------------------------------------------------------------------
(* Steps that write                                                        *)

\* A record keeps claims and stamps; what it takes back counts as reopened.
LEMMA RecordInv ==
  ASSUME QuestInv, NEW w \in Workers, Record(w)
  PROVE  QuestInv'
<1> DEFINE u == at[w].user
<1>1. PICK row :
        /\ row = IF at[w].saw # Absent THEN Written(completion[u], at[w].kind, at[w].saw)
                 ELSE IF completion[u] = Absent THEN Created(at[w].kind) ELSE completion[u]
        /\ completion' = [completion EXCEPT ![u] = row]
        /\ reopened' = IF completion[u].status = "CLAIMED" /\ row.status # "CLAIMED"
                       THEN reopened \cup {u} ELSE reopened
        /\ left' = IF Revokes(at[w].kind, at[w].saw) THEN left \cup {u}
                   ELSE IF row.fresh THEN left \ {u} ELSE left
  BY DEF Record
<1>2. /\ at[w].pc = "detect" /\ Goto(w, Resting)
      /\ UNCHANGED <<promoVars, scenario, claimedAt, issuedCount, bounded, todo, stranded,
                     unacked, paid, minted, starts, faults, crashes>>
  BY DEF Record, Rest
<1>3. /\ row \in Completion
      /\ row.issued <=> completion[u].issued
      /\ row.status = "CLAIMED" => completion[u].status = "CLAIMED"
      /\ Revokes(at[w].kind, at[w].saw) =>
            row.status = "IN_PROGRESS" /\ ~row.fresh /\ scenario.type = "CHANNEL"
      /\ scenario.type = "CHANNEL" => row.fresh \/ row.status # "COMPLETED" \/ row = completion[u]
  BY <1>1, <1>2, RecordedRow
<1>4. u \in Users /\ completion \in [Users -> Completion \cup {Absent}]
  BY <1>2, AtTyped DEF QuestInv, QuestTypeOK
<1>5. \A v \in Users : completion'[v] = IF v = u THEN row ELSE completion[v]
  BY <1>1, <1>4
<1>6. \A v \in Workers : at'[v] = IF v = w THEN Resting ELSE at[v]
  BY <1>2, OthersStay DEF QuestInv
<1>7. \A v \in Workers : (Granting(v)' => Granting(v)) /\ (Due(v)' => Due(v))
                         /\ (at'[v].pc # "idle" => at'[v] = at[v])
  BY <1>6 DEF Granting, Due, Resting
<1>8. row # Absent
  BY <1>3 DEF Completion, Absent
<1>9. QuestTypeOK'
  BY <1>1, <1>2, <1>3, <1>4 DEF QuestInv, QuestTypeOK, Goto
<1>10. PromoInv'
  BY <1>2, OthersInv DEF QuestInv
<1>11. Claimers' = Claimers
  BY <1>1, <1>3, <1>4, <1>5 DEF Claimers, QuestInv, QuestTypeOK
<1>12. Reserved'
  <2>1. reopened' = {} => reopened = {}
    BY <1>1
  <2>2. \A v \in Claimers : completion'[v] # Absent
    BY <1>4, <1>5, <1>8 DEF QuestInv, Reserved, Claimers, QuestTypeOK
  <2>3. \A v \in Workers : Due(v)' => at'[v].user \in Claimers
    BY <1>6, <1>7 DEF QuestInv, Reserved, Due, Resting
  <2> QED
    BY <1>2, <1>11, <2>1, <2>2, <2>3 DEF QuestInv, Reserved
<1>13. \A v \in Users : completion'[v].issued <=> completion[v].issued
  BY <1>3, <1>5
<1>14. StampHeld'
  <2>1. \A v \in Workers : Granting(v)' => Granting(v) /\ at'[v] = at[v] /\ at[v].user \in Users
    BY <1>6, <1>7, AtTyped DEF QuestInv, Granting, Resting
  <2> QED
    BY <1>2, <1>13, <2>1 DEF QuestInv, StampHeld, Again
<1>15. MintedOnce'
  <2>1. \A v \in Workers : Granting(v)' => Granting(v) /\ at'[v] = at[v]
    BY <1>6, <1>7 DEF Granting, Resting
  <2>2. \A m \in minted : m.user \in Users
    BY DEF QuestInv, QuestTypeOK
  <2> QED
    BY <1>2, <1>13, <2>1, <2>2 DEF QuestInv, MintedOnce, Exists, promoVars
<1>16. LeftIsOpen'
  <2>1. left' # {} => scenario.type = "CHANNEL"
    BY <1>1, <1>3 DEF QuestInv, LeftIsOpen
  <2>2. \A v \in Users : completion[v] # Absent => completion'[v] # Absent
    BY <1>5, <1>8
  <2>3. \A v \in Workers : at'[v].pc = "detect" =>
           /\ at'[v].kind \in Kinds
           /\ at'[v].kind \in {"recheck", "left"} => at'[v].saw # Absent
           /\ at'[v].saw # Absent => completion'[at'[v].user] # Absent
    BY <1>7, <2>2, AtTyped DEF QuestInv, LeftIsOpen
  <2>4. \A v \in left' : completion'[v].status # "COMPLETED" /\ ~completion'[v].fresh
    <3> SUFFICES ASSUME NEW v \in left'
                 PROVE  completion'[v].status # "COMPLETED" /\ ~completion'[v].fresh
      OBVIOUS
    <3>1. v \in Users
      BY <1>9 DEF QuestTypeOK
    <3>2. CASE v = u
      BY <1>1, <1>3, <1>5, <2>1, <3>1, <3>2 DEF QuestInv, LeftIsOpen
    <3>3. CASE v # u
      BY <1>1, <1>5, <3>1, <3>3 DEF QuestInv, LeftIsOpen
    <3> QED
      BY <3>2, <3>3
  <2> QED
    BY <1>2, <2>1, <2>3, <2>4 DEF LeftIsOpen, Kinds
<1> QED
  BY <1>9, <1>10, <1>12, <1>14, <1>15, <1>16 DEF QuestInv

\* A proof that expires touches neither claim nor stamp.
LEMMA ExpiresInv ==
  ASSUME QuestInv, NEW u \in Users, ProofExpires(u)
  PROVE  QuestInv'
<1>1. /\ completion[u] \in Completion \cup {Absent} /\ completion[u].fresh
      /\ completion' = [completion EXCEPT ![u] = [completion[u] EXCEPT !.fresh = FALSE]]
      /\ UNCHANGED <<promoVars, scenario, claimedAt, issuedCount, bounded, at, todo, left, reopened,
                     stranded, unacked, paid, minted, starts, faults, crashes>>
  BY DEF ProofExpires, QuestInv, QuestTypeOK
<1>2. completion[u] \in Completion
  BY <1>1, RowTyped
<1>3. /\ completion'[u] \in Completion /\ ~completion'[u].fresh
      /\ completion'[u].status = completion[u].status
      /\ completion'[u].issued <=> completion[u].issued
  BY <1>1, <1>2 DEF QuestInv, QuestTypeOK, Completion
<1>4. \A v \in Users : v # u => completion'[v] = completion[v]
  BY <1>1 DEF QuestInv, QuestTypeOK
<1>5. completion'[u] # Absent
  BY <1>3 DEF Completion, Absent
<1>6. \A v \in Users : /\ completion'[v].status = completion[v].status
                       /\ completion'[v].issued <=> completion[v].issued
                       /\ completion'[v].fresh => completion[v].fresh
                       /\ completion[v] # Absent => completion'[v] # Absent
  BY <1>3, <1>4, <1>5
<1>7. QuestTypeOK'
  BY <1>1, <1>3 DEF QuestInv, QuestTypeOK
<1>8. PromoInv'
  BY <1>1, OthersInv DEF QuestInv
<1>9. Claimers' = Claimers /\ Claimers \subseteq Users
  BY <1>1, <1>6 DEF Claimers, QuestInv, QuestTypeOK
<1>10. Reserved'
  BY <1>1, <1>6, <1>9 DEF QuestInv, Reserved, Due
<1>11. StampHeld'
  BY <1>1, <1>6, AtTyped DEF QuestInv, StampHeld, Again, Granting
<1>12. MintedOnce'
  BY <1>1, <1>6 DEF QuestInv, QuestTypeOK, MintedOnce, Exists, Granting, promoVars
<1>13. LeftIsOpen'
  <2>1. left \subseteq Users
    BY DEF QuestInv, QuestTypeOK
  <2>2. \A v \in Workers : at[v].pc = "detect" => at[v].user \in Users
    BY AtTyped DEF QuestInv
  <2> QED
    BY <1>1, <1>6, <2>1, <2>2 DEF QuestInv, LeftIsOpen, Kinds
<1> QED
  BY <1>7, <1>8, <1>10, <1>11, <1>12, <1>13 DEF QuestInv

\* A worker that stays with its user.
LEMMA StepTo ==
  ASSUME QuestInv, NEW w \in Workers, NEW s \in {"reserve", "issue", "pay", "stamp", "grant", "release"},
         Step(w, s), at[w].pc \notin {"idle", "detect"}
  PROVE  /\ Goto(w, [pc |-> s, user |-> at[w].user]) /\ at[w].user \in Users
         /\ \A v \in Workers : at'[v] = IF v = w THEN [pc |-> s, user |-> at[w].user] ELSE at[v]
         /\ at' \in [Workers -> {Resting}
              \cup [pc : {"detect"}, user : Users, kind : AllKinds, saw : Completion \cup {Absent}]
              \cup [pc : {"reserve", "issue", "pay", "stamp", "grant", "release"}, user : Users]]
<1>1. Goto(w, [pc |-> s, user |-> at[w].user]) /\ at[w].user \in Users
  BY AtTyped DEF QuestInv, Step
<1>2. \A v \in Workers : at'[v] = IF v = w THEN [pc |-> s, user |-> at[w].user] ELSE at[v]
  BY <1>1, OthersStay DEF QuestInv
<1>3. [pc |-> s, user |-> at[w].user]
         \in [pc : {"reserve", "issue", "pay", "stamp", "grant", "release"}, user : Users]
  BY <1>1
<1>4. at' \in [Workers -> {Resting}
         \cup [pc : {"detect"}, user : Users, kind : AllKinds, saw : Completion \cup {Absent}]
         \cup [pc : {"reserve", "issue", "pay", "stamp", "grant", "release"}, user : Users]]
  BY <1>1, <1>3 DEF QuestInv, QuestTypeOK, Goto
<1> QED
  BY <1>1, <1>2, <1>4

\* Claiming takes one of the budget for the claimant; a user whose completion was
\* reopened may take another.
LEMMA ReserveInv ==
  ASSUME QuestInv, NEW w \in Workers, Reserve(w)
  PROVE  QuestInv'
<1> DEFINE u == at[w].user
<1>1. at[w].pc = "reserve" /\ u \in Users
  BY AtTyped DEF Reserve, QuestInv
<1>2. CASE ~(Claimable(u) /\ InBudget)
  <2>1. /\ Goto(w, Resting)
        /\ UNCHANGED <<promoVars, scenario, completion, claimedAt, issuedCount, bounded, todo, left,
                       reopened, stranded, unacked, paid, minted, starts, faults, crashes>>
    BY <1>2 DEF Reserve, Rest
  <2>2. /\ starts \in 0..scenario.starts /\ faults \in 0..scenario.faults
        /\ crashes \in 0..scenario.crashes
    BY DEF QuestInv, QuestTypeOK
  <2> QED
    BY <2>1, <2>2, MoveInv
<1>3. CASE Claimable(u) /\ InBudget
  <2>1. /\ completion' = [completion EXCEPT ![u] = [completion[u] EXCEPT !.status = "CLAIMED"]]
        /\ issuedCount' = issuedCount + 1
        /\ claimedAt' = [claimedAt EXCEPT ![u] = issuedCount']
        /\ Step(w, "issue")
        /\ UNCHANGED <<promoVars, scenario, bounded, todo, left, reopened, stranded, unacked, paid,
                       minted, starts, faults, crashes>>
    BY <1>3 DEF Reserve
  <2>2. completion[u] \in Completion /\ completion[u].status = "COMPLETED"
    BY <1>1, <1>3, RowTyped DEF Claimable, QuestInv, QuestTypeOK
  <2>3. /\ completion'[u] \in Completion /\ completion'[u].status = "CLAIMED"
        /\ completion'[u].issued <=> completion[u].issued
        /\ completion'[u].fresh <=> completion[u].fresh
    BY <1>1, <2>1, <2>2 DEF QuestInv, QuestTypeOK, Completion
  <2>4. \A v \in Users : v # u => completion'[v] = completion[v]
    BY <2>1 DEF QuestInv, QuestTypeOK
  <2>5. \A v \in Users : completion'[v].issued <=> completion[v].issued
    BY <2>3, <2>4
  <2>6. completion'[u] # Absent
    BY <2>3 DEF Completion, Absent
  <2>7. \A v \in Workers : at'[v] = IF v = w THEN [pc |-> "issue", user |-> u] ELSE at[v]
    BY <1>1, <2>1, StepTo
  <2>8. QuestTypeOK'
    <3>1. completion' \in [Users -> Completion \cup {Absent}]
      BY <2>1, <2>3 DEF QuestInv, QuestTypeOK
    <3>2. issuedCount' \in Nat /\ claimedAt' \in [Users -> 0..issuedCount']
      <4>1. issuedCount \in Nat /\ claimedAt \in [Users -> 0..issuedCount]
        BY DEF QuestInv, QuestTypeOK
      <4>2. issuedCount' \in 0..issuedCount' /\ 0..issuedCount \subseteq 0..issuedCount'
        BY <2>1, <4>1
      <4>3. issuedCount' \in Nat
        BY <2>1, <4>1
      <4>4. \A v \in Users : claimedAt[v] \in 0..issuedCount'
        BY <4>1, <4>2
      <4>5. claimedAt' = [v \in Users |-> IF v = u THEN issuedCount' ELSE claimedAt[v]]
        BY <2>1, <4>1
      <4> HIDE DEF u
      <4>6. claimedAt' \in [Users -> 0..issuedCount']
        BY <4>2, <4>4, <4>5
      <4> QED
        BY <4>3, <4>6
    <3>3. at' \in [Workers -> {Resting}
            \cup [pc : {"detect"}, user : Users, kind : AllKinds, saw : Completion \cup {Absent}]
            \cup [pc : {"reserve", "issue", "pay", "stamp", "grant", "release"}, user : Users]]
      BY <1>1, <2>1, StepTo
    <3> QED
      BY <2>1, <3>1, <3>2, <3>3 DEF QuestInv, QuestTypeOK
  <2>9. PromoInv'
    BY <2>1, OthersInv DEF QuestInv
  <2>10. Claimers' = Claimers \cup {u} /\ (reopened = {} => u \notin Claimers)
    BY <1>1, <2>1, <2>2, <2>3, <2>4 DEF Claimers
  <2>11. Reserved'
    <3>1. IsFiniteSet(Claimers) /\ Cardinality(Claimers) <= issuedCount /\ issuedCount \in Nat
      BY DEF QuestInv, Reserved, QuestTypeOK
    <3>2. /\ IsFiniteSet(Claimers')
          /\ Cardinality(Claimers') = IF u \in Claimers THEN Cardinality(Claimers)
                                      ELSE Cardinality(Claimers) + 1
      BY <2>10, <3>1, FS_AddElement
    <3>3. Cardinality(Claimers) \in Nat
      BY <3>1, FS_CardinalityType
    <3>4. issuedCount' <= scenario.budget /\ Cardinality(Claimers') <= issuedCount'
      <4>1. scenario.budget \in Nat /\ issuedCount < scenario.budget
        BY <1>3, QuestAssumption DEF InBudget, QuestInv, QuestTypeOK
      <4> QED
        BY <2>1, <3>1, <3>2, <3>3, <4>1
    <3>5. reopened = {} => issuedCount' = Cardinality(Claimers')
      BY <2>1, <2>10, <3>2 DEF QuestInv, Reserved
    <3>6. \A v \in Claimers' : completion'[v] # Absent
      BY <2>4, <2>6, <2>10 DEF QuestInv, Reserved, Claimers, QuestTypeOK
    <3>7. \A v \in Workers : Due(v)' => at'[v].user \in Claimers'
      BY <2>7, <2>10 DEF QuestInv, Reserved, Due
    <3>8. todo' \subseteq Claimers' /\ \A v \in Users : paid'[v] > 0 => v \in Claimers'
      BY <2>1, <2>10 DEF QuestInv, Reserved
    <3> QED
      BY <2>1, <3>2, <3>4, <3>5, <3>6, <3>7, <3>8 DEF Reserved
  <2>12. \A v \in Workers : Granting(v)' => Granting(v) /\ at'[v] = at[v] /\ at[v].user \in Users
    <3>1. \A v \in Workers : Granting(v)' => Granting(v) /\ at'[v] = at[v]
      BY <2>7 DEF Granting
    <3> QED
      BY <3>1, AtTyped DEF Granting, QuestInv
  <2>13. StampHeld'
    BY <2>1, <2>5, <2>12 DEF QuestInv, StampHeld, Again
  <2>14. MintedOnce'
    BY <2>1, <2>5, <2>12 DEF QuestInv, QuestTypeOK, MintedOnce, Exists, promoVars
  <2>15. LeftIsOpen'
    <3>1. \A v \in Workers : at'[v].pc = "detect" => at'[v] = at[v] /\ at[v].user \in Users
      <4>1. \A v \in Workers : at'[v].pc = "detect" => at'[v] = at[v]
        BY <2>7
      <4> QED
        BY <4>1, AtTyped DEF QuestInv
    <3>2. u \notin left
      BY <2>2 DEF QuestInv, LeftIsOpen
    <3>3. left \subseteq Users
      BY DEF QuestInv, QuestTypeOK
    <3>4. \A v \in Users : completion[v] # Absent => completion'[v] # Absent
      BY <2>4, <2>6
    <3>5. \A v \in Workers : at'[v].pc = "detect" =>
             /\ at'[v].kind \in Kinds
             /\ at'[v].kind \in {"recheck", "left"} => at'[v].saw # Absent
             /\ at'[v].saw # Absent => completion'[at'[v].user] # Absent
      BY <3>1, <3>4 DEF QuestInv, LeftIsOpen
    <3>6. \A v \in left' : completion'[v].status # "COMPLETED" /\ ~completion'[v].fresh
      BY <2>1, <2>4, <3>2, <3>3 DEF QuestInv, LeftIsOpen
    <3>7. left' # {} => scenario'.type = "CHANNEL"
      BY <2>1 DEF QuestInv, LeftIsOpen
    <3> QED
      BY <2>1, <3>5, <3>6, <3>7 DEF LeftIsOpen, Kinds
  <2> QED
    BY <2>8, <2>9, <2>11, <2>13, <2>14, <2>15 DEF QuestInv
<1> QED
  BY <1>2, <1>3

\* What a stamp and its release leave of the completions.
LEMMA StampedRows ==
  ASSUME QuestInv, NEW u \in Claimers, reopened' = reopened,
         \/ completion' = [completion EXCEPT ![u].issued = TRUE]
         \/ completion' = [completion EXCEPT ![u].issued = FALSE]
  PROVE  /\ u \in Users
         /\ completion' \in [Users -> Completion \cup {Absent}]
         /\ \A v \in Users : v # u => completion'[v] = completion[v]
         /\ \A v \in Users : /\ completion'[v].status = completion[v].status
                             /\ completion'[v].fresh <=> completion[v].fresh
                             /\ completion[v] # Absent => completion'[v] # Absent
         /\ Claimers' = Claimers
<1>1. u \in Users /\ completion[u] \in Completion
  BY RowTyped DEF QuestInv, QuestTypeOK, Reserved, Claimers
<1>2. /\ completion'[u] \in Completion
      /\ completion'[u].status = completion[u].status
      /\ completion'[u].fresh <=> completion[u].fresh
  <2>1. CASE completion' = [completion EXCEPT ![u].issued = TRUE]
    BY <1>1, <2>1 DEF QuestInv, QuestTypeOK, Completion
  <2>2. CASE completion' = [completion EXCEPT ![u].issued = FALSE]
    BY <1>1, <2>2 DEF QuestInv, QuestTypeOK, Completion
  <2> QED
    BY <2>1, <2>2
<1>3. \A v \in Users : v # u => completion'[v] = completion[v]
  BY <1>1 DEF QuestInv, QuestTypeOK
<1>4. completion' = [completion EXCEPT ![u] = completion'[u]]
  BY <1>1, <1>2 DEF QuestInv, QuestTypeOK
<1>5. completion' \in [Users -> Completion \cup {Absent}]
  BY <1>1, <1>2, <1>4 DEF QuestInv, QuestTypeOK
<1>6. completion'[u] # Absent
  BY <1>2 DEF Completion, Absent
<1>7. \A v \in Users : /\ completion'[v].status = completion[v].status
                       /\ completion'[v].fresh <=> completion[v].fresh
                       /\ completion[v] # Absent => completion'[v] # Absent
  BY <1>2, <1>3, <1>6
<1>8. Claimers' = Claimers
  BY <1>7 DEF Claimers
<1> QED
  BY <1>1, <1>3, <1>5, <1>7, <1>8

\* What every step of a payout leaves alone.
LEMMA PayerFrame ==
  ASSUME QuestInv, NEW w \in Workers, at[w].pc \in {"pay", "stamp", "grant", "release"},
         Rest(w) \/ Step(w, "grant") \/ Step(w, "release"),
         UNCHANGED <<scenario, claimedAt, issuedCount, todo, left, reopened, starts, crashes>>,
         \/ completion' = completion
         \/ completion' = [completion EXCEPT ![at[w].user].issued = TRUE]
         \/ completion' = [completion EXCEPT ![at[w].user].issued = FALSE],
         paid' = paid \/ paid' = [paid EXCEPT ![at[w].user] = @ + 1],
         bounded' \cup stranded' \cup unacked' \subseteq Users,
         minted' \subseteq [user : Users, code : Codes],
         faults' \in 0..scenario.faults
  PROVE  QuestTypeOK' /\ Reserved' /\ LeftIsOpen'
<1> DEFINE u == at[w].user
<1>1. u \in Claimers /\ u \in Users
  BY DEF QuestInv, QuestTypeOK, Reserved, Due, Claimers
<1>2. /\ completion' \in [Users -> Completion \cup {Absent}]
      /\ \A v \in Users : /\ completion'[v].status = completion[v].status
                          /\ completion'[v].fresh <=> completion[v].fresh
                          /\ completion[v] # Absent => completion'[v] # Absent
      /\ Claimers' = Claimers
  <2>1. CASE completion' = completion
    BY <2>1 DEF QuestInv, QuestTypeOK, Claimers
  <2>2. CASE completion' # completion
    BY <1>1, <2>2, StampedRows
  <2> QED
    BY <2>1, <2>2
<1>3. \A v \in Workers : \/ at'[v] = at[v]
                         \/ v = w /\ at'[v] = Resting
                         \/ v = w /\ \E s \in {"grant", "release"} : at'[v] = [pc |-> s, user |-> u]
  <2>1. CASE Rest(w)
    BY <2>1, OthersStay DEF Rest, QuestInv
  <2>2. CASE Step(w, "grant")
    <3>1. \A v \in Workers : at'[v] = IF v = w THEN [pc |-> "grant", user |-> u] ELSE at[v]
      BY <2>2, StepTo
    <3> QED
      BY <3>1
  <2>3. CASE Step(w, "release")
    <3>1. \A v \in Workers : at'[v] = IF v = w THEN [pc |-> "release", user |-> u] ELSE at[v]
      BY <2>3, StepTo
    <3> QED
      BY <3>1
  <2> QED
    BY <2>1, <2>2, <2>3
<1>4. at' \in [Workers -> {Resting}
        \cup [pc : {"detect"}, user : Users, kind : AllKinds, saw : Completion \cup {Absent}]
        \cup [pc : {"reserve", "issue", "pay", "stamp", "grant", "release"}, user : Users]]
  <2>1. CASE Rest(w)
    BY <2>1 DEF QuestInv, QuestTypeOK, Rest, Goto
  <2>2. CASE Step(w, "grant")
    BY <2>2, StepTo
  <2>3. CASE Step(w, "release")
    BY <2>3, StepTo
  <2> QED
    BY <2>1, <2>2, <2>3
<1>5. paid' \in [Users -> Nat] /\ \A v \in Users : paid'[v] > 0 => paid[v] > 0 \/ v = u
  BY <1>1 DEF QuestInv, QuestTypeOK
<1>6. QuestTypeOK'
  BY <1>2, <1>4, <1>5 DEF QuestInv, QuestTypeOK
<1>7. Reserved'
  <2>1. \A v \in Workers : Due(v)' => at'[v].user \in Claimers
    BY <1>1, <1>3 DEF QuestInv, Reserved, Due, Resting
  <2>2. \A v \in Claimers : completion'[v] # Absent
    BY <1>2 DEF QuestInv, QuestTypeOK, Reserved, Claimers
  <2>3. \A v \in Users : paid'[v] > 0 => v \in Claimers
    BY <1>1, <1>5 DEF QuestInv, Reserved
  <2> QED
    BY <1>2, <2>1, <2>2, <2>3 DEF QuestInv, Reserved
<1>8. LeftIsOpen'
  <2>1. \A v \in Workers : at'[v].pc = "detect" => at'[v] = at[v]
    BY <1>3 DEF Resting
  <2>2. \A v \in Workers : at'[v].pc = "detect" => at[v].user \in Users
    BY <2>1, AtTyped DEF QuestInv
  <2>3. \A v \in Workers : at'[v].pc = "detect" =>
           /\ at'[v].kind \in Kinds
           /\ at'[v].kind \in {"recheck", "left"} => at'[v].saw # Absent
           /\ at'[v].saw # Absent => completion'[at'[v].user] # Absent
    BY <1>2, <2>1, <2>2 DEF QuestInv, LeftIsOpen
  <2>4. \A v \in left' : completion'[v].status # "COMPLETED" /\ ~completion'[v].fresh
    BY <1>2 DEF QuestInv, QuestTypeOK, LeftIsOpen
  <2> QED
    BY <2>3, <2>4 DEF QuestInv, LeftIsOpen, Kinds
<1> QED
  BY <1>6, <1>7, <1>8

\* A stamp written for somebody: without it nobody was paid or granted for.
LEMMA StampFree ==
  ASSUME QuestInv, NEW u \in Users, ~completion[u].issued
  PROVE  /\ paid[u] <= Again(u) /\ paid[u] \in Nat
         /\ \A v \in Workers : Granting(v) => at[v].user # u
         /\ \A m \in minted : m.user # u
  BY DEF QuestInv, QuestTypeOK, StampHeld, MintedOnce

\* The payout in one transaction: stamp, reward and code, or nothing.
LEMMA PayInv ==
  ASSUME QuestInv, NEW w \in Workers, Pay(w)
  PROVE  QuestInv'
<1> DEFINE u == at[w].user
<1>1. /\ at[w].pc = "pay" /\ Rest(w) /\ Goto(w, Resting)
      /\ UNCHANGED <<scenario, claimedAt, issuedCount, bounded, todo, left, reopened, stranded,
                     unacked, starts, crashes>>
  BY DEF Pay, Rest
<1>2. u \in Users /\ completion[u] \in Completion
  BY <1>1, RowTyped DEF QuestInv, QuestTypeOK, Reserved, Due, Claimers
<1>3. faults' \in 0..scenario.faults
  <2>1. faults' = faults \/ (faults < scenario.faults /\ faults' = faults + 1)
    BY DEF Pay, Fault, NoFault
  <2>2. scenario.faults \in Nat /\ faults \in 0..scenario.faults
    BY QuestAssumption DEF QuestInv, QuestTypeOK
  <2> QED
    BY <2>1, <2>2
<1>4. \A v \in Workers : Granting(v)' => Granting(v) /\ v # w /\ at'[v] = at[v]
  <2>1. \A v \in Workers : at'[v] = IF v = w THEN Resting ELSE at[v]
    BY <1>1, OthersStay DEF QuestInv
  <2> QED
    BY <2>1 DEF Granting, Resting
<1>5. /\ starts \in 0..scenario.starts /\ crashes \in 0..scenario.crashes
      /\ bounded \cup stranded \cup unacked \subseteq Users
      /\ minted \subseteq [user : Users, code : Codes]
  BY DEF QuestInv, QuestTypeOK
<1>6. CASE UNCHANGED <<promoVars, completion, paid, minted>>
  BY <1>1, <1>3, <1>5, <1>6, MoveInv
<1>7. CASE /\ Unissued(u)
           /\ completion' = [completion EXCEPT ![u].issued = TRUE]
           /\ paid' = [paid EXCEPT ![u] = @ + 1]
           /\ IF PaysWithCode(u)
              THEN \E c \in FreshCodes : Mint(c) /\ minted' = minted \cup {[user |-> u, code |-> c]}
              ELSE UNCHANGED <<promoVars, minted>>
  <2>1. /\ paid[u] <= Again(u) /\ paid[u] \in Nat
        /\ \A v \in Workers : Granting(v) => at[v].user # u
        /\ \A m \in minted : m.user # u
    BY <1>2, <1>7, StampFree DEF Unissued
  <2>2. /\ completion'[u].issued
        /\ \A v \in Users : v # u => completion'[v] = completion[v]
    BY <1>2, <1>7 DEF QuestInv, QuestTypeOK, Completion
  <2>3. /\ paid'[u] = paid[u] + 1
        /\ \A v \in Users : v # u => paid'[v] = paid[v]
    BY <1>2, <1>7 DEF QuestInv, QuestTypeOK
  <2>4. minted' \subseteq [user : Users, code : Codes]
    BY <1>2, <1>5, <1>7 DEF FreshCodes
  <2>5. QuestTypeOK' /\ Reserved' /\ LeftIsOpen'
    BY <1>1, <1>3, <1>5, <1>7, <2>4, PayerFrame
  <2>6. StampHeld'
    <3>1. \A v \in Users : paid'[v] <= Again(v)' + 1 /\ (~completion'[v].issued => paid'[v] <= Again(v)')
      BY <1>1, <2>1, <2>2, <2>3 DEF QuestInv, QuestTypeOK, StampHeld, Again
    <3>2. \A v \in Workers : Granting(v)' =>
             at[v].user # u /\ at[v].user \in Users /\ Granting(v) /\ at'[v] = at[v]
      BY <1>4, <2>1, AtTyped DEF QuestInv, Granting
    <3>3. \A v \in Workers : Granting(v)' =>
             (completion[at[v].user].issued /\ paid[at[v].user] <= Again(at[v].user))'
      BY <1>1, <2>2, <2>3, <3>2 DEF QuestInv, StampHeld, Again
    <3> QED
      BY <1>1, <3>1, <3>2, <3>3 DEF QuestInv, StampHeld
  <2>7. CASE UNCHANGED <<promoVars, minted>>
    <3>1. PromoInv'
      BY <2>7, OthersInv DEF QuestInv
    <3>2. MintedOnce'
      BY <1>4, <1>5, <2>1, <2>2, <2>7 DEF QuestInv, MintedOnce, Exists, promoVars
    <3> QED
      BY <2>5, <2>6, <3>1, <3>2 DEF QuestInv
  <2>8. ASSUME NEW c \in FreshCodes, Mint(c), minted' = minted \cup {[user |-> u, code |-> c]}
        PROVE  QuestInv'
    <3>1. c \in Codes /\ ~Exists(c)
      BY <2>8 DEF FreshCodes
    <3>2. PromoInv'
      BY <2>8, <3>1, MintInv DEF QuestInv
    <3>3. /\ promo'[c] = NewCode(1, TRUE)
          /\ \A e \in Codes : e # c => promo'[e] = promo[e]
      BY <2>8, <3>1 DEF Mint, QuestInv, PromoInv, PromoTypeOK
    <3>4. Exists(c)' /\ promo'[c].minted /\ promo'[c].max = 1
      BY <3>3 DEF Exists, NewCode, NoCode
    <3>5. \A m \in minted : m.code # c /\ m.code \in Codes /\ m.user \in Users
      BY <1>5, <3>1 DEF QuestInv, MintedOnce
    <3>6. MintedOnce'
      <4>1. ASSUME NEW m \in minted'
            PROVE  /\ completion'[m.user].issued
                   /\ \A v \in Workers : Granting(v)' => at'[v].user # m.user
                   /\ Exists(m.code)' /\ promo'[m.code].minted
        <5>1. CASE m \in minted
          BY <1>4, <2>1, <2>2, <3>3, <3>5, <5>1 DEF QuestInv, MintedOnce, Exists
        <5>2. CASE m = [user |-> u, code |-> c]
          BY <1>4, <2>1, <2>2, <3>4, <5>2
        <5> QED
          BY <2>8, <5>1, <5>2
      <4>2. \A m, n \in minted' : m.user = n.user \/ m.code = n.code => m = n
        BY <2>1, <2>8, <3>5 DEF QuestInv, MintedOnce
      <4>3. \A e \in Codes :
               Exists(e)' /\ promo'[e].minted /\ promo'[e].version = 0 => promo'[e].max = 1
        BY <3>3, <3>4 DEF QuestInv, MintedOnce, Exists
      <4> QED
        BY <4>1, <4>2, <4>3 DEF MintedOnce
    <3> QED
      BY <2>5, <2>6, <3>2, <3>6 DEF QuestInv
  <2> QED
    BY <1>7, <2>7, <2>8
<1> QED
  BY <1>6, <1>7 DEF Pay

\* The stamp that comes before the trial.
LEMMA StampInv ==
  ASSUME QuestInv, NEW w \in Workers, Stamp(w)
  PROVE  QuestInv'
<1> DEFINE u == at[w].user
<1>1. /\ at[w].pc = "stamp"
      /\ UNCHANGED <<promoVars, scenario, claimedAt, issuedCount, bounded, todo, left, reopened,
                     stranded, unacked, paid, minted, starts, faults, crashes>>
  BY DEF Stamp
<1>2. u \in Users /\ completion[u] \in Completion
  BY <1>1, RowTyped DEF QuestInv, QuestTypeOK, Reserved, Due, Claimers
<1>3. /\ starts \in 0..scenario.starts /\ faults \in 0..scenario.faults
      /\ crashes \in 0..scenario.crashes
      /\ bounded \cup stranded \cup unacked \subseteq Users
      /\ minted \subseteq [user : Users, code : Codes]
  BY DEF QuestInv, QuestTypeOK
<1>4. CASE ~Unissued(u)
  <2>1. Goto(w, Resting) /\ completion' = completion
    BY <1>4 DEF Stamp, Rest
  <2> QED
    BY <1>1, <1>3, <2>1, MoveInv
<1>5. CASE Unissued(u)
  <2>1. completion' = [completion EXCEPT ![u].issued = TRUE] /\ Step(w, "grant")
    BY <1>5 DEF Stamp
  <2>2. /\ paid[u] <= Again(u)
        /\ \A v \in Workers : Granting(v) => at[v].user # u
        /\ \A m \in minted : m.user # u
    BY <1>2, <1>5, StampFree DEF Unissued
  <2>3. completion'[u].issued /\ \A v \in Users : v # u => completion'[v] = completion[v]
    BY <1>2, <2>1 DEF QuestInv, QuestTypeOK, Completion
  <2>4. \A v \in Workers : at'[v] = IF v = w THEN [pc |-> "grant", user |-> u] ELSE at[v]
    BY <1>1, <2>1, StepTo
  <2>5. QuestTypeOK' /\ Reserved' /\ LeftIsOpen'
    BY <1>1, <1>3, <2>1, PayerFrame
  <2>6. PromoInv'
    BY <1>1, OthersInv DEF QuestInv
  <2>7. \A v \in Workers : Granting(v)' =>
           \/ v = w /\ at'[v].user = u
           \/ v # w /\ Granting(v) /\ at'[v] = at[v] /\ at[v].user \in Users /\ at[v].user # u
    <3>1. \A v \in Workers : Granting(v)' =>
             (v = w /\ at'[v].user = u) \/ (v # w /\ Granting(v) /\ at'[v] = at[v])
      BY <2>4 DEF Granting
    <3>2. \A v \in Workers : Granting(v) => at[v].user \in Users
      BY AtTyped DEF QuestInv, Granting
    <3> QED
      BY <2>2, <3>1, <3>2
  <2>8. StampHeld'
    <3>1. \A v \in Users : paid'[v] <= Again(v)' + 1 /\ (~completion'[v].issued => paid'[v] <= Again(v)')
      BY <1>1, <2>3 DEF QuestInv, StampHeld, Again
    <3>2. \A v \in Workers : Granting(v)' =>
             (completion[at[v].user].issued /\ paid[at[v].user] <= Again(at[v].user))'
      BY <1>1, <2>2, <2>3, <2>7 DEF QuestInv, StampHeld, Again
    <3>3. \A v, x \in Workers :
             Granting(v)' /\ Granting(x)' /\ at'[v].user = at'[x].user => v = x
      BY <2>7 DEF QuestInv, StampHeld
    <3> QED
      BY <1>1, <3>1, <3>2, <3>3 DEF QuestInv, StampHeld
  <2>9. MintedOnce'
    BY <1>1, <1>3, <2>2, <2>3, <2>7 DEF QuestInv, MintedOnce, Exists, promoVars
  <2> QED
    BY <2>5, <2>6, <2>8, <2>9 DEF QuestInv
<1> QED
  BY <1>4, <1>5

\* The trial is granted to one who has none, or the stamp is to be released; a
\* grant that is reported as failed leaves the user with a trial.
LEMMA GrantInv ==
  ASSUME QuestInv, NEW w \in Workers, Grant(w)
  PROVE  QuestInv'
<1> DEFINE u == at[w].user
<1>1. /\ at[w].pc = "grant"
      /\ UNCHANGED <<promoVars, scenario, completion, claimedAt, issuedCount, todo, left, reopened,
                     stranded, minted, starts, crashes>>
  BY DEF Grant
<1>2. /\ u \in Users /\ completion[u].issued
      /\ paid \in [Users -> Nat] /\ paid[u] <= Again(u) /\ unacked \subseteq bounded
      /\ bounded \cup stranded \cup unacked \subseteq Users
      /\ minted \subseteq [user : Users, code : Codes]
      /\ \A v \in Workers : Granting(v) /\ v # w => at[v].user # u
      /\ \A m \in minted : m.user # u
  <2>1. Granting(w)
    BY <1>1 DEF Granting
  <2>2. u \in Users
    BY <1>1, AtTyped DEF QuestInv
  <2> QED
    BY <2>1, <2>2 DEF QuestInv, QuestTypeOK, StampHeld, MintedOnce
<1>3. faults' \in 0..scenario.faults
  <2>1. faults' = faults \/ (faults < scenario.faults /\ faults' = faults + 1)
    BY DEF Grant, Fault, NoFault
  <2>2. scenario.faults \in Nat /\ faults \in 0..scenario.faults
    BY QuestAssumption DEF QuestInv, QuestTypeOK
  <2> QED
    BY <2>1, <2>2
<1>4. \/ UNCHANGED <<paid, bounded, unacked>> /\ Step(w, "release")
      \/ /\ u \notin bounded /\ bounded' = bounded \cup {u}
         /\ paid' = [paid EXCEPT ![u] = @ + 1]
         /\ Rest(w) /\ unacked' = unacked
      \/ /\ u \notin bounded /\ bounded' = bounded \cup {u}
         /\ paid' = [paid EXCEPT ![u] = @ + 1]
         /\ Step(w, "release") /\ unacked' = unacked \cup {u}
  BY DEF Grant
<1>5. Rest(w) \/ Step(w, "release")
  BY <1>4
<1>6. QuestTypeOK' /\ Reserved' /\ LeftIsOpen'
  <2>1. bounded' \cup stranded' \cup unacked' \subseteq Users /\ minted' \subseteq [user : Users, code : Codes]
    BY <1>1, <1>2, <1>4
  <2>2. paid' = paid \/ paid' = [paid EXCEPT ![u] = @ + 1]
    BY <1>4
  <2> QED
    BY <1>1, <1>3, <1>5, <2>1, <2>2, PayerFrame
<1>7. PromoInv'
  BY <1>1, OthersInv DEF QuestInv
<1>8. \A v \in Workers : Granting(v)' =>
         \/ v = w /\ at'[v].user = u /\ Step(w, "release")
         \/ v # w /\ Granting(v) /\ at'[v] = at[v] /\ at[v].user \in Users /\ at[v].user # u
  <2>1. \A v \in Workers : Granting(v) => at[v].user \in Users
    BY AtTyped DEF QuestInv, Granting
  <2>2. CASE Rest(w)
    <3>1. \A v \in Workers : at'[v] = IF v = w THEN Resting ELSE at[v]
      BY <2>2, OthersStay DEF QuestInv, Rest
    <3>2. \A v \in Workers : Granting(v)' => v # w /\ Granting(v) /\ at'[v] = at[v]
      BY <3>1 DEF Granting, Resting
    <3> QED
      BY <1>2, <2>1, <3>2
  <2>3. CASE Step(w, "release")
    <3>1. \A v \in Workers : at'[v] = IF v = w THEN [pc |-> "release", user |-> u] ELSE at[v]
      BY <1>1, <2>3, StepTo
    <3>2. \A v \in Workers : Granting(v)' =>
             (v = w /\ at'[v].user = u) \/ (v # w /\ Granting(v) /\ at'[v] = at[v])
      BY <3>1 DEF Granting
    <3> QED
      BY <1>2, <2>1, <2>3, <3>2
  <2> QED
    BY <1>5, <2>2, <2>3
<1>9. StampHeld'
  <2>1. /\ \A v \in Users : v # u => paid'[v] = paid[v] /\ (v \in unacked' <=> v \in unacked)
        /\ unacked' \subseteq bounded'
    BY <1>2, <1>4
  <2>2. /\ paid'[u] <= (IF u \in unacked' THEN 1 ELSE 0) + 1
        /\ Step(w, "release") => paid'[u] <= IF u \in unacked' THEN 1 ELSE 0
    <3>1. CASE UNCHANGED <<paid, bounded, unacked>>
      BY <1>2, <3>1 DEF Again
    <3>2. CASE u \notin bounded /\ paid' = [paid EXCEPT ![u] = @ + 1] /\ Rest(w) /\ unacked' = unacked
      <4>1. paid'[u] = 1 /\ u \notin unacked'
        BY <1>2, <3>2 DEF Again
      <4>2. at'[w] = Resting
        BY <3>2, OthersStay DEF QuestInv, Rest
      <4>3. ~Step(w, "release")
        <5>1. Step(w, "release") => at'[w] = [pc |-> "release", user |-> u]
          BY <1>1, StepTo
        <5> QED
          BY <4>2, <5>1 DEF Resting
      <4> QED
        BY <4>1, <4>3
    <3>3. CASE u \notin bounded /\ paid' = [paid EXCEPT ![u] = @ + 1] /\ unacked' = unacked \cup {u}
      BY <1>2, <3>3 DEF Again
    <3> QED
      BY <1>4, <3>1, <3>2, <3>3
  <2>3. \A v \in Users : paid'[v] <= Again(v)' + 1 /\ (~completion'[v].issued => paid'[v] <= Again(v)')
    BY <1>1, <1>2, <2>1, <2>2 DEF QuestInv, StampHeld, Again
  <2>4. \A v \in Workers : Granting(v)' =>
           (completion[at[v].user].issued /\ paid[at[v].user] <= Again(at[v].user))'
    BY <1>1, <1>2, <1>8, <2>1, <2>2 DEF QuestInv, StampHeld, Again
  <2>5. \A v, x \in Workers :
           Granting(v)' /\ Granting(x)' /\ at'[v].user = at'[x].user => v = x
    BY <1>8 DEF QuestInv, StampHeld
  <2> QED
    BY <2>1, <2>3, <2>4, <2>5 DEF StampHeld
<1>10. MintedOnce'
  BY <1>1, <1>2, <1>8 DEF QuestInv, MintedOnce, Exists, promoVars
<1> QED
  BY <1>6, <1>7, <1>9, <1>10 DEF QuestInv

\* The stamp of a trial that was not granted is released, or stays for good.
LEMMA ReleaseInv ==
  ASSUME QuestInv, NEW w \in Workers, Release(w)
  PROVE  QuestInv'
<1> DEFINE u == at[w].user
<1>1. /\ at[w].pc = "release" /\ Rest(w) /\ Goto(w, Resting)
      /\ UNCHANGED <<promoVars, scenario, claimedAt, issuedCount, bounded, todo, left, reopened,
                     unacked, paid, minted, starts, crashes>>
  BY DEF Release, Rest
<1>2. /\ u \in Users /\ paid[u] <= Again(u)
      /\ \A v \in Workers : Granting(v) /\ v # w => at[v].user # u
      /\ \A m \in minted : m.user # u
  <2>1. Granting(w)
    BY <1>1 DEF Granting
  <2>2. u \in Users
    BY <1>1, AtTyped DEF QuestInv
  <2> QED
    BY <2>1, <2>2 DEF QuestInv, StampHeld, MintedOnce
<1>3. faults' \in 0..scenario.faults /\ stranded' \subseteq Users
  <2>1. faults' = faults \/ (faults < scenario.faults /\ faults' = faults + 1)
    BY DEF Release, Fault, NoFault
  <2>2. stranded' = stranded \/ stranded' = stranded \cup {u}
    BY DEF Release
  <2>3. scenario.faults \in Nat /\ faults \in 0..scenario.faults /\ stranded \subseteq Users
    BY QuestAssumption DEF QuestInv, QuestTypeOK
  <2> QED
    BY <1>2, <2>1, <2>2, <2>3
<1>4. completion' = completion \/ completion' = [completion EXCEPT ![u].issued = FALSE]
  BY DEF Release, Released
<1>5. \A v \in Users : v # u => completion'[v] = completion[v]
  BY <1>4 DEF QuestInv, QuestTypeOK
<1>6. QuestTypeOK' /\ Reserved' /\ LeftIsOpen'
  <2>1. bounded' \cup stranded' \cup unacked' \subseteq Users /\ minted' \subseteq [user : Users, code : Codes]
    BY <1>1, <1>3 DEF QuestInv, QuestTypeOK
  <2> QED
    BY <1>1, <1>3, <1>4, <2>1, PayerFrame
<1>7. PromoInv'
  BY <1>1, OthersInv DEF QuestInv
<1>8. \A v \in Workers : Granting(v)' =>
         v # w /\ Granting(v) /\ at'[v] = at[v] /\ at[v].user \in Users /\ at[v].user # u
  <2>1. \A v \in Workers : at'[v] = IF v = w THEN Resting ELSE at[v]
    BY <1>1, OthersStay DEF QuestInv
  <2>2. \A v \in Workers : Granting(v)' => v # w /\ Granting(v) /\ at'[v] = at[v]
    BY <2>1 DEF Granting, Resting
  <2> QED
    BY <1>2, <2>2, AtTyped DEF QuestInv, Granting
<1>9. StampHeld'
  <2>1. \A v \in Users : paid'[v] <= Again(v)' + 1 /\ (~completion'[v].issued => paid'[v] <= Again(v)')
    BY <1>1, <1>2, <1>5 DEF QuestInv, StampHeld, Again
  <2>2. \A v \in Workers : Granting(v)' =>
           (completion[at[v].user].issued /\ paid[at[v].user] <= Again(at[v].user))'
    BY <1>1, <1>5, <1>8 DEF QuestInv, StampHeld, Again
  <2> QED
    BY <1>1, <1>8, <2>1, <2>2 DEF QuestInv, StampHeld
<1>10. MintedOnce'
  <2>1. \A m \in minted : m.user \in Users
    BY DEF QuestInv, QuestTypeOK
  <2> QED
    BY <1>1, <1>2, <1>5, <1>8, <2>1 DEF QuestInv, MintedOnce, Exists, promoVars
<1> QED
  BY <1>6, <1>7, <1>9, <1>10 DEF QuestInv
-----------------------------------------------------------------------------
(* The rest                                                                *)

\* The reconciler lists claims without a stamp.
LEMMA ReconcileInv == QuestInv /\ Reconcile => QuestInv'
<1> SUFFICES ASSUME QuestInv, Reconcile PROVE QuestInv'
  OBVIOUS
<1>1. UNCHANGED <<promoVars, scenario, completion, claimedAt, issuedCount, bounded, at, left,
                  reopened, stranded, unacked, paid, minted, starts, faults, crashes>>
  BY DEF Reconcile
<1>2. todo' \subseteq Claimers /\ todo' \subseteq Users
  BY DEF Reconcile, NextBatch, Stuck, Claimers
<1>3. QuestTypeOK'
  BY <1>1, <1>2 DEF QuestInv, QuestTypeOK
<1>4. PromoInv'
  BY <1>1, OthersInv DEF QuestInv
<1>5. Reserved'
  BY <1>1, <1>2 DEF QuestInv, Reserved, Claimers, Due
<1>6. StampHeld' /\ LeftIsOpen'
  BY <1>1 DEF QuestInv, StampHeld, Again, Granting, LeftIsOpen, Kinds
<1>7. MintedOnce'
  BY <1>1 DEF QuestInv, MintedOnce, Exists, Granting, promoVars
<1> QED
  BY <1>3, <1>4, <1>5, <1>6, <1>7 DEF QuestInv

\* A crash forgets who was at work, and nothing that is in the database.
LEMMA CrashInv == QuestInv /\ Crash => QuestInv'
<1> SUFFICES ASSUME QuestInv, Crash PROVE QuestInv'
  OBVIOUS
<1>1. /\ UNCHANGED <<promo, activations, granted, scenario, completion, claimedAt, issuedCount,
                     bounded, left, reopened, unacked, paid, minted, starts, faults>>
      /\ at' = [w \in Workers |-> Resting] /\ todo' = {}
      /\ activating' = [r \in Requests |-> Idle]
  BY DEF Crash
<1>2. \A v \in Workers : at'[v].pc = "idle" /\ ~Granting(v)' /\ ~Due(v)'
  BY <1>1 DEF Granting, Due, Resting
<1>3. crashes' \in 0..scenario.crashes
  <2>1. scenario.crashes \in Nat /\ crashes \in 0..scenario.crashes
    BY QuestAssumption DEF QuestInv, QuestTypeOK
  <2> QED
    BY <2>1 DEF Crash
<1>4. stranded' \subseteq Users
  <2>1. stranded \subseteq Users
    BY DEF QuestInv, QuestTypeOK
  <2>2. \A v \in Workers : at[v].pc \in {"grant", "release"} => at[v].user \in Users
    BY AtTyped DEF QuestInv
  <2> QED
    BY <2>1, <2>2 DEF Crash
<1>5. QuestTypeOK'
  BY <1>1, <1>3, <1>4 DEF QuestInv, QuestTypeOK
<1>6. PromoInv'
  BY <1>1 DEF QuestInv, PromoInv, PromoTypeOK, Finite, Known, GrantedOnce, TermsHold, MaxKept,
              Exists, Used
<1>7. Reserved'
  BY <1>1, <1>2 DEF QuestInv, Reserved, Claimers
<1>8. StampHeld'
  BY <1>1, <1>2 DEF QuestInv, StampHeld, Again
<1>9. MintedOnce'
  BY <1>1, <1>2 DEF QuestInv, MintedOnce, Exists
<1>10. LeftIsOpen'
  BY <1>1, <1>2 DEF QuestInv, LeftIsOpen
<1> QED
  BY <1>5, <1>6, <1>7, <1>8, <1>9, <1>10 DEF QuestInv

\* Whatever becomes of the codes, those that were minted remain.
LEMMA CodesInv == QuestInv /\ [PromoNext]_promoVars /\ UNCHANGED questVars => QuestInv'
<1> SUFFICES ASSUME QuestInv, [PromoNext]_promoVars, UNCHANGED questVars PROVE QuestInv'
  OBVIOUS
<1>1. PromoInv'
  BY NextInv DEF QuestInv
<1>2. UNCHANGED <<scenario, completion, claimedAt, issuedCount, bounded, at, todo, left,
                  reopened, stranded, unacked, paid, minted, starts, faults, crashes>>
  BY DEF questVars
<1>3. QuestTypeOK' /\ Reserved' /\ StampHeld' /\ LeftIsOpen'
  BY <1>2 DEF QuestInv, QuestTypeOK, Reserved, Claimers, Due, StampHeld, Again, Granting,
              LeftIsOpen, Kinds
<1>4. MintedOnce'
  <2>1. \A c \in Codes :
          /\ Exists(c)' <=> Exists(c)
          /\ Exists(c) => /\ promo'[c].minted = promo[c].minted
                          /\ promo'[c].version = 0 =>
                                promo[c].version = 0 /\ promo'[c].max = promo[c].max
    BY RowKept DEF QuestInv, PromoInv
  <2>2. \A m \in minted : m.code \in Codes
    BY DEF QuestInv, QuestTypeOK
  <2> QED
    BY <1>2, <2>1, <2>2 DEF QuestInv, MintedOnce, Granting
<1> QED
  BY <1>1, <1>3, <1>4 DEF QuestInv

\* The initial states.
LEMMA QuestInit == Init => QuestInv
<1> SUFFICES ASSUME Init PROVE QuestInv
  OBVIOUS
<1>1. scenario \in Scenarios /\ {scenario.budget, scenario.starts, scenario.faults, scenario.crashes} \subseteq Nat
  BY QuestAssumption DEF Init
<1>2. PromoInv
  <2>1. PromoInit
    BY QuestAssumption DEF Init, PromoInit
  <2> QED
    BY <2>1, InitInv
<1>3. QuestTypeOK
  <2>1. bounded \subseteq Users
    BY DEF Init
  <2> QED
    BY <1>1, <2>1 DEF Init, QuestTypeOK
<1>4. Reserved
  <2>1. Claimers = {}
    BY DEF Init, Claimers, Absent
  <2>2. IsFiniteSet(Claimers) /\ Cardinality(Claimers) = 0
    BY <2>1, FS_EmptySet
  <2> QED
    BY <1>1, <2>1, <2>2 DEF Init, Reserved, Due, Resting
<1>5. StampHeld
  BY DEF Init, StampHeld, Again, Granting, Resting
<1>6. MintedOnce
  <2>1. \A c \in Codes : Exists(c) => ~promo[c].minted
    BY QuestAssumption DEF Init, Exists, NewCode
  <2> QED
    BY <2>1 DEF Init, MintedOnce
<1>7. LeftIsOpen
  BY DEF Init, LeftIsOpen, Resting
<1> QED
  BY <1>2, <1>3, <1>4, <1>5, <1>6, <1>7 DEF QuestInv

\* Every step keeps the invariant.
LEMMA QuestNext == QuestInv /\ [Next]_vars => QuestInv'
<1> SUFFICES ASSUME QuestInv, [Next]_vars PROVE QuestInv'
  OBVIOUS
<1>1. ASSUME NEW w \in Workers, WorkerStep(w) PROVE QuestInv'
  BY <1>1, RecordInv, ReserveInv, MovesInv, PayInv, StampInv, GrantInv, ReleaseInv DEF WorkerStep
<1>2. ASSUME NEW w \in Workers,
             (\E u \in Users : (\E k \in Kinds : Detect(w, u, k)) \/ Claim(w, u)) \/ Redrive(w)
      PROVE  QuestInv'
  BY <1>2, MovesInv
<1>3. ASSUME NEW u \in Users, ProofExpires(u) PROVE QuestInv'
  BY <1>3, ExpiresInv
<1>4. CASE Reconcile \/ Crash
  BY <1>4, ReconcileInv, CrashInv
<1>5. CASE PromoNext /\ UNCHANGED questVars
  BY <1>5, CodesInv
<1>6. CASE UNCHANGED vars
  BY <1>6, CodesInv DEF vars
<1> QED
  BY <1>1, <1>2, <1>3, <1>4, <1>5, <1>6 DEF Next
-----------------------------------------------------------------------------
(* Theorems                                                                *)

\* The inductive invariant holds throughout.
THEOREM QuestInvHolds == Spec => []QuestInv
  BY QuestInit, QuestNext, PTL DEF Spec

\* Completions, workers, codes and histories keep their types, the limits and the
\* terms of codes hold, and a reward's code is used once.
THEOREM CodesAreConsistent == Spec => []CodesConsistent
<1>1. QuestInv => CodesConsistent
  <2> SUFFICES ASSUME QuestInv PROVE CodesConsistent
    OBVIOUS
  <2>1. TypeOK /\ MaxKept /\ GrantedOnce /\ TermsHold
    BY DEF QuestInv, PromoInv, TypeOK
  <2>2. CodeUsedOnce
    <3>1. ASSUME NEW m \in minted, promo[m.code].version = 0 PROVE Used(m.code) <= 1
      <4>1. m.code \in Codes /\ Exists(m.code) /\ promo[m.code].max = 1
        BY <3>1 DEF QuestInv, QuestTypeOK, MintedOnce
      <4> QED
        BY <2>1, <3>1, <4>1 DEF MaxKept, Unlimited
    <3> QED
      BY <3>1 DEF CodeUsedOnce, QuestInv, MintedOnce
  <2> QED
    BY <2>1, <2>2 DEF CodesConsistent
<1> QED
  BY <1>1, QuestInvHolds, PTL

\* However many workers drive a claim, and whatever fails or dies, a user is paid
\* at most once, or twice if the first was a trial reported as failed.
THEOREM PaidAtMostOnce == Spec => []PaidOnce
<1>1. QuestInv => PaidOnce
  BY DEF QuestInv, QuestTypeOK, StampHeld, PaidOnce, Again
<1> QED
  BY <1>1, QuestInvHolds, PTL

\* No more users are paid than rewards were reserved, nor reserved than budgeted.
THEOREM WithinBudget == Spec => []BudgetKept
<1>1. QuestInv => BudgetKept
  <2> SUFFICES ASSUME QuestInv PROVE BudgetKept
    OBVIOUS
  <2> DEFINE Paid == {u \in Users : paid[u] > 0}
  <2>1. Paid \subseteq Claimers /\ IsFiniteSet(Claimers)
    BY DEF QuestInv, Reserved
  <2>2. /\ Cardinality(Paid) <= Cardinality(Claimers)
        /\ Cardinality(Paid) \in Nat /\ Cardinality(Claimers) \in Nat
    BY <2>1, FS_Subset, FS_CardinalityType
  <2>3. Cardinality(Paid) <= issuedCount /\ issuedCount <= scenario.budget
    BY <2>2 DEF QuestInv, Reserved, QuestTypeOK
  <2>4. reopened = {} => issuedCount = Cardinality({u \in Users : completion[u].status = "CLAIMED"})
    <3>1. reopened = {} => Claimers = {u \in Users : completion[u].status = "CLAIMED"}
      BY DEF Claimers
    <3> QED
      BY <3>1 DEF QuestInv, Reserved
  <2> QED
    BY <2>3, <2>4 DEF BudgetKept
<1> QED
  BY <1>1, QuestInvHolds, PTL

\* A claim that began before its user left does not go through afterwards.
THEOREM LeaversDoNotClaim == Spec => NoClaimAfterLeaving
<1> DEFINE Kept == \A u \in left : completion[u].status # "CLAIMED" => completion'[u].status # "CLAIMED"
<1>1. QuestInv /\ [Next]_vars => [Kept]_vars
  <2> SUFFICES ASSUME QuestInv, Next, NEW u \in left, completion[u].status # "CLAIMED"
               PROVE  completion'[u].status # "CLAIMED"
    OBVIOUS
  <2>1. /\ u \in Users /\ completion \in [Users -> Completion \cup {Absent}]
        /\ completion[u].status # "COMPLETED"
    BY DEF QuestInv, QuestTypeOK, LeftIsOpen
  <2>2. ASSUME NEW w \in Workers, Record(w) PROVE completion'[u].status # "CLAIMED"
    <3>1. PICK row :
            /\ row = IF at[w].saw # Absent THEN Written(completion[at[w].user], at[w].kind, at[w].saw)
                     ELSE IF completion[at[w].user] = Absent THEN Created(at[w].kind)
                     ELSE completion[at[w].user]
            /\ completion' = [completion EXCEPT ![at[w].user] = row]
      BY <2>2 DEF Record
    <3>2. row.status = "CLAIMED" => completion[at[w].user].status = "CLAIMED"
      BY <2>2, <3>1, RecordedRow DEF Record
    <3> QED
      BY <2>1, <3>1, <3>2
  <2>3. ASSUME NEW w \in Workers, Reserve(w) PROVE completion'[u].status # "CLAIMED"
    BY <2>1, <2>3 DEF Reserve, Claimable
  <2>4. ASSUME NEW w \in Workers, Pay(w) \/ Stamp(w) \/ Release(w)
        PROVE  completion'[u].status = completion[u].status
    <3>1. reopened' = reopened /\ at[w].user \in Claimers
      BY <2>4 DEF Pay, Stamp, Release, QuestInv, Reserved, Due
    <3>2. \/ completion' = completion
          \/ completion' = [completion EXCEPT ![at[w].user].issued = TRUE]
          \/ completion' = [completion EXCEPT ![at[w].user].issued = FALSE]
      BY <2>4 DEF Pay, Stamp, Release, Released
    <3> QED
      BY <2>1, <3>1, <3>2, StampedRows
  <2>5. ASSUME NEW v \in Users, ProofExpires(v) PROVE completion'[u].status = completion[u].status
    <3>1. completion[v] \in Completion
      BY <2>1, <2>5, RowTyped DEF ProofExpires
    <3> QED
      BY <2>1, <2>5, <3>1 DEF ProofExpires, Completion
  <2>6. ASSUME NEW w \in Workers,
               \/ \E v \in Users : (\E k \in Kinds : Detect(w, v, k)) \/ Claim(w, v)
               \/ Redrive(w) \/ Issue(w) \/ Grant(w)
        PROVE  completion' = completion
    BY <2>6 DEF Detect, Claim, Redrive, Issue, Grant
  <2>7. Reconcile \/ Crash \/ UNCHANGED questVars => completion' = completion
    BY DEF Reconcile, Crash, questVars
  <2> QED
    BY <2>1, <2>2, <2>3, <2>4, <2>5, <2>6, <2>7 DEF Next, WorkerStep
<1> QED
  BY <1>1, QuestInvHolds, PTL DEF Spec, NoClaimAfterLeaving

-----------------------------------------------------------------------------
(* Referrals                                                               *)

Reversing(w) == pc[w] \in {"undo", "write"}

\* A reversal holds the edge its payment qualified, rows that hang on it, and
\* rows that were issued; an exchange and a correction hold a user.
Holds(w) ==
    LET x == work[w] IN
    /\ Reversing(w) =>
          /\ x.on \in Payments /\ x.of \in Edges /\ Payer[x.on] = x.of
          /\ \A i \in x.rows : i \in DOMAIN rewards /\ rewards[i].edge = x.of
          /\ \A i \in x.issued : i \in x.rows /\ rewards[i].issued
    /\ pc[w] = "exchange" =>
          x.on \in Members /\ x.of \in Keys \cup {NoKey} /\ x.type \in ExchangeTypes
    /\ pc[w] = "adjust" => x.on \in Members

AtWork == \A w \in Callers : Holds(w)

\* An edge is qualified by a payment of its own user, and a reversal is of one.
QualifiedByPayer ==
    /\ \A e \in Edges : qualified[e] \in Payments => Payer[qualified[e]] = e
    /\ \A t \in undone : Payer[t] \in Edges

\* So is what its rows are of.
RowsOfPayer ==
    \A i \in DOMAIN rewards : rewards[i].by \in Payments => rewards[i].of = Payer[rewards[i].by]

Owed(r) == IF r.issued /\ ~r.revoked THEN r.amount ELSE 0

\* Rows of an edge that was not written over have moved what they are due.
Settled ==
    \A i \in DOMAIN rewards : rewards[i].edge \notin torn => rewards[i].moved = Owed(rewards[i])

Own(r, e) == r.edge = e /\ r.of = e /\ r.by # "OPERATOR"

\* Such an edge has at most one reward of its own standing, and none when it may be
\* qualified.
StandingAtMostOne ==
    \A e \in Edges \ torn :
        \A i, j \in DOMAIN rewards :
            /\ Own(rewards[i], e) /\ ~rewards[i].revoked
            /\ Own(rewards[j], e) /\ ~rewards[j].revoked
            => i = j

ClearedIsClear ==
    \A e \in Edges \ torn : qualified[e] = "NONE" =>
        \A i \in DOMAIN rewards : Own(rewards[i], e) => rewards[i].revoked

EdgesInv ==
    /\ QualifiedByPayer /\ RowsOfPayer /\ Settled
    /\ StandingAtMostOne /\ ClearedIsClear /\ ReversalHolds

\* What all rows of a user have moved, torn or not.
Moves == [i \in DOMAIN rewards |-> rewards[i].moved]

RowsOf(u, type) == {i \in DOMAIN rewards : rewards[i].user = u /\ rewards[i].type = type}

MovedTo(u, type) == SumFunctionOnSet(Moves, RowsOf(u, type))

PointsMoved ==
    \A u \in Members :
        points[u] = situation.points + MovedTo(u, "POINTS")
                        + adjusted[u].given - adjusted[u].taken
                        - Cost * Exchanged(u, ExchangeTypes)

DaysMoved ==
    \A u \in Members \ lost :
        expires[u] = Opening + MovedTo(u, "EXTRA_DAYS")
                         + Days * Exchanged(u, {"SUBSCRIPTION_DAYS"})

\* A key's exchanges are one, and its answers name it.
KeysInv ==
    /\ \A i, j \in DOMAIN exchanges :
          /\ exchanges[i].user = exchanges[j].user
          /\ exchanges[i].key = exchanges[j].key /\ exchanges[i].key # NoKey
          => i = j
    /\ \A u \in Members, k \in Keys, i \in DOMAIN exchanges :
          <<u, k, i>> \in answers => exchanges[i].user = u /\ exchanges[i].key = k

ReferralInv ==
    /\ ReferralTypeOK /\ AtWork /\ EdgesInv /\ PointsMoved /\ DaysMoved
    /\ OnlyTakenBackOverdraws /\ KeysInv

-----------------------------------------------------------------------------
(* What the actions do to the rows                                         *)

\* Rows stay, with what they are about; what was issued or revoked stays so.
RowsKept ==
    /\ DOMAIN rewards \subseteq DOMAIN rewards'
    /\ \A i \in DOMAIN rewards :
          /\ rewards'[i].edge = rewards[i].edge /\ rewards'[i].user = rewards[i].user
          /\ rewards'[i].type = rewards[i].type /\ rewards'[i].amount = rewards[i].amount
          /\ rewards'[i].of = rewards[i].of /\ rewards'[i].by = rewards[i].by
          /\ rewards[i].issued => rewards'[i].issued
          /\ rewards[i].revoked => rewards'[i].revoked

Fresh(r) == ~r.issued /\ ~r.revoked /\ r.moved = 0

\* New rows are written behind the others.
Grown(s) ==
    /\ s \in Seq(RewardRow)
    /\ \A i \in DOMAIN s : Fresh(s[i])
    /\ rewards' = rewards \o s

\* Growing keeps the rows there are, and adds the new ones.
LEMMA GrownRows ==
  ASSUME rewards \in Seq(RewardRow), NEW s, Grown(s)
  PROVE  /\ rewards' \in Seq(RewardRow)
         /\ DOMAIN rewards \subseteq DOMAIN rewards'
         /\ \A i \in DOMAIN rewards : rewards'[i] = rewards[i]
         /\ \A j \in DOMAIN rewards' \ DOMAIN rewards :
               j - Len(rewards) \in DOMAIN s /\ rewards'[j] = s[j - Len(rewards)]
         /\ RowsKept
<1>1. /\ rewards' \in Seq(RewardRow) /\ s \in Seq(RewardRow)
      /\ Len(rewards) \in Nat /\ Len(s) \in Nat /\ Len(rewards') = Len(rewards) + Len(s)
      /\ DOMAIN rewards = 1 .. Len(rewards) /\ DOMAIN s = 1 .. Len(s)
      /\ DOMAIN rewards' = 1 .. Len(rewards')
  BY DEF Grown
<1>2. \A i \in DOMAIN rewards : rewards'[i] = rewards[i]
  BY <1>1 DEF Grown
<1>3. \A j \in DOMAIN rewards' \ DOMAIN rewards :
         j - Len(rewards) \in DOMAIN s /\ rewards'[j] = s[j - Len(rewards)]
  BY <1>1 DEF Grown
<1>4. DOMAIN rewards \subseteq DOMAIN rewards'
  BY <1>1
<1> QED
  BY <1>1, <1>2, <1>3, <1>4 DEF RowsKept

\* A row is typed and new.
LEMMA RewardTyped ==
  ASSUME NEW e \in Edges, NEW u \in Members, NEW n \in Nat \ {0}, NEW type \in RewardTypes,
         NEW f \in Edges, NEW by \in Payments \cup {"MANUAL", "OPERATOR"}
  PROVE  LET r == Reward(e, u, n, type, f, by)
         IN  /\ r \in RewardRow /\ Fresh(r)
             /\ r.edge = e /\ r.user = u /\ r.type = type /\ r.of = f /\ r.by = by
BY DEF Reward, RewardRow, Fresh

\* Qualifying creates typed rows of its edge, at most one of which hangs on it.
LEMMA ConfiguredRows ==
  ASSUME ReferralTypeOK, NEW e \in Edges, NEW by \in Payments \cup {"MANUAL"}
  PROVE  LET s == ConfiguredRewards(e, by)
         IN  /\ s \in Seq(RewardRow)
             /\ \A i \in DOMAIN s : Fresh(s[i]) /\ s[i].of = e /\ s[i].by = by
             /\ \A i, j \in DOMAIN s : s[i].edge = e /\ s[j].edge = e => i = j
<1> DEFINE up == Referrer[e]
           r1 == Reward(e, up, First, situation.type, e, by)
           r2 == Reward(up, Referrer[up], Second, situation.type, e, by)
           s1 == IF First > 0 THEN <<r1>> ELSE <<>>
           s2 == IF up \in Edges /\ Referrer[up] \notin ActivePartners
                 THEN (IF Second > 0 THEN <<r2>> ELSE <<>>) ELSE <<>>
           s == ConfiguredRewards(e, by)
<1>1. s = IF up \in ActivePartners THEN <<>> ELSE s1 \o s2
  BY DEF ConfiguredRewards
<1>2. up \in Members /\ up # e /\ situation.type \in RewardTypes /\ First \in Nat /\ Second \in Nat
  BY ReferralAssumption, ReferralScenarioAssumption DEF ReferralTypeOK
<1>3. \/ s1 = <<>>
      \/ s1 = <<r1>> /\ r1 \in RewardRow /\ Fresh(r1) /\ r1.edge = e /\ r1.of = e /\ r1.by = by
  <2>1. CASE First > 0
    <3>1. First \in Nat \ {0} /\ by \in Payments \cup {"MANUAL", "OPERATOR"}
      BY <1>2, <2>1
    <3>2. r1 \in RewardRow /\ Fresh(r1) /\ r1.edge = e /\ r1.of = e /\ r1.by = by
      BY <1>2, <3>1, RewardTyped
    <3> QED
      BY <2>1, <3>2
  <2>2. CASE ~(First > 0)
    BY <2>2
  <2> QED
    BY <2>1, <2>2
<1>4. \/ s2 = <<>>
      \/ s2 = <<r2>> /\ r2 \in RewardRow /\ Fresh(r2) /\ r2.edge = up /\ r2.of = e /\ r2.by = by
  <2>1. CASE up \in Edges /\ Second > 0
    <3>1. Second \in Nat \ {0} /\ by \in Payments \cup {"MANUAL", "OPERATOR"}
      BY <1>2, <2>1
    <3>2. Referrer[up] \in Members
      BY <2>1, ReferralAssumption
    <3>3. r2 \in RewardRow /\ Fresh(r2) /\ r2.edge = up /\ r2.of = e /\ r2.by = by
      BY <1>2, <2>1, <3>1, <3>2, RewardTyped
    <3> QED
      BY <2>1, <3>3
  <2>2. CASE ~(up \in Edges /\ Second > 0)
    BY <2>2
  <2> QED
    BY <2>1, <2>2
<1> HIDE DEF r1, r2, s1, s2, s, up
<1>5. \/ s = <<>>
      \/ s = <<r1>> /\ r1 \in RewardRow /\ Fresh(r1) /\ r1.edge = e /\ r1.of = e /\ r1.by = by
      \/ s = <<r2>> /\ r2 \in RewardRow /\ Fresh(r2) /\ r2.edge = up /\ r2.of = e /\ r2.by = by
      \/ /\ s = <<r1>> \o <<r2>> /\ r1 \in RewardRow /\ Fresh(r1) /\ r1.edge = e /\ r1.of = e /\ r1.by = by
         /\ r2 \in RewardRow /\ Fresh(r2) /\ r2.edge = up /\ r2.of = e /\ r2.by = by
  <2>1. CASE up \in ActivePartners
    BY <1>1, <2>1
  <2>2. CASE up \notin ActivePartners
    <3>1. s = s1 \o s2
      BY <1>1, <2>2
    <3>2. CASE s1 = <<>>
      <4>1. s2 = <<>> => s = <<>>
        BY <3>1, <3>2
      <4>2. s2 = <<r2>> => s = <<r2>>
        BY <3>1, <3>2
      <4> QED
        BY <1>4, <4>1, <4>2
    <3>3. CASE s1 = <<r1>>
      <4>1. s2 = <<>> => s = <<r1>>
        BY <3>1, <3>3
      <4>2. s2 = <<r2>> => s = <<r1>> \o <<r2>>
        BY <3>1, <3>3
      <4>3. s1 # <<>>
        BY <3>3
      <4> QED
        BY <1>3, <1>4, <4>1, <4>2, <4>3
    <3> QED
      BY <1>3, <3>2, <3>3
  <2> QED
    BY <2>1, <2>2
<1> DEFINE Goal == /\ s \in Seq(RewardRow)
                   /\ \A i \in DOMAIN s : Fresh(s[i]) /\ s[i].of = e /\ s[i].by = by
                   /\ \A i, j \in DOMAIN s : s[i].edge = e /\ s[j].edge = e => i = j
<1>6. CASE s = <<>>
  <2>1. Goal
    BY <1>6
  <2> QED
    BY <2>1 DEF s
<1>7. CASE s = <<r1>> /\ r1 \in RewardRow /\ Fresh(r1) /\ r1.edge = e /\ r1.of = e /\ r1.by = by
  <2>1. Goal
    BY <1>7
  <2> QED
    BY <2>1 DEF s
<1>8. CASE s = <<r2>> /\ r2 \in RewardRow /\ Fresh(r2) /\ r2.edge = up /\ r2.of = e /\ r2.by = by
  <2>1. Goal
    BY <1>8
  <2> QED
    BY <2>1 DEF s
<1>9. CASE /\ s = <<r1>> \o <<r2>> /\ r1 \in RewardRow /\ Fresh(r1) /\ r1.edge = e /\ r1.of = e /\ r1.by = by
           /\ r2 \in RewardRow /\ Fresh(r2) /\ r2.edge = up /\ r2.of = e /\ r2.by = by
  <2>1. <<r1>> \in Seq(RewardRow) /\ <<r2>> \in Seq(RewardRow)
    BY <1>9
  <2>2. s \in Seq(RewardRow) /\ Len(s) = 2 /\ s[1] = r1 /\ s[2] = r2
    BY <2>1, <1>9
  <2>3. DOMAIN s = {1, 2}
    BY <2>2
  <2>4. Goal
    BY <2>2, <2>3, <1>9, <1>2
  <2> QED
    BY <2>4 DEF s
<1> QED
  BY <1>5, <1>6, <1>7, <1>8, <1>9

-----------------------------------------------------------------------------
(* What the rows of a user have moved                                      *)

\* Rows are finitely many.
LEMMA RowsFinite ==
  ASSUME rewards \in Seq(RewardRow), NEW u, NEW type
  PROVE  /\ IsFiniteSet(DOMAIN rewards) /\ IsFiniteSet(RowsOf(u, type))
         /\ \A i \in RowsOf(u, type) : i \in DOMAIN rewards /\ Moves[i] = rewards[i].moved
         /\ \A i \in RowsOf(u, type) : Moves[i] \in Int
         /\ MovedTo(u, type) \in Int
<1>1. DOMAIN rewards = 1 .. Len(rewards) /\ Len(rewards) \in Nat
  OBVIOUS
<1>2. IsFiniteSet(DOMAIN rewards)
  BY <1>1, FS_Interval
<1>3. IsFiniteSet(RowsOf(u, type))
  BY <1>2, FS_Subset DEF RowsOf
<1>4. \A i \in RowsOf(u, type) : /\ i \in DOMAIN rewards /\ Moves[i] = rewards[i].moved
                                 /\ Moves[i] \in Int
  <2> SUFFICES ASSUME NEW i \in RowsOf(u, type)
               PROVE  i \in DOMAIN rewards /\ Moves[i] = rewards[i].moved /\ Moves[i] \in Int
    OBVIOUS
  <2>1. i \in DOMAIN rewards /\ Moves[i] = rewards[i].moved
    BY DEF RowsOf, Moves
  <2>2. rewards[i] \in RewardRow
    BY <2>1
  <2>3. rewards[i].moved \in Int
    BY <2>2 DEF RewardRow
  <2> QED
    BY <2>1, <2>3
<1> QED
  BY <1>2, <1>3, <1>4, SumInt DEF MovedTo

\* While edges are settled, what is due has been moved.
LEMMA DueIsMoved ==
  ASSUME Settled, NEW u, NEW type
  PROVE  DueTo(u, type) = MovedTo(u, type)
<1>1. \A i \in DOMAIN rewards : DueFor(i) = rewards[i].moved
  BY DEF Settled, DueFor, Owed
<1>2. [i \in DOMAIN rewards |-> DueFor(i)] = Moves
  BY <1>1 DEF Moves
<1> QED
  BY <1>2 DEF DueTo, MovedTo, RowsOf

\* New rows have moved nothing.
LEMMA MovedGrown ==
  ASSUME rewards \in Seq(RewardRow), NEW s, Grown(s), NEW u, NEW type
  PROVE  MovedTo(u, type)' = MovedTo(u, type)
<1>1. /\ rewards' \in Seq(RewardRow) /\ DOMAIN rewards \subseteq DOMAIN rewards'
      /\ \A i \in DOMAIN rewards : rewards'[i] = rewards[i]
      /\ \A j \in DOMAIN rewards' \ DOMAIN rewards :
               j - Len(rewards) \in DOMAIN s /\ rewards'[j] = s[j - Len(rewards)]
  BY GrownRows
<1>2. RowsOf(u, type) \in SUBSET (RowsOf(u, type)')
  BY <1>1 DEF RowsOf
<1>3. IsFiniteSet(RowsOf(u, type)')
  <2>1. DOMAIN rewards' = 1 .. Len(rewards') /\ Len(rewards') \in Nat
    BY <1>1
  <2>2. IsFiniteSet(DOMAIN rewards')
    BY <2>1, FS_Interval
  <2> QED
    BY <2>2, FS_Subset DEF RowsOf
<1>4. ASSUME NEW i \in RowsOf(u, type)' PROVE Moves'[i] \in Int
  <2>1. i \in DOMAIN rewards' /\ Moves'[i] = rewards'[i].moved
    BY DEF RowsOf, Moves
  <2>2. rewards'[i] \in RewardRow
    BY <1>1, <2>1
  <2> QED
    BY <2>1, <2>2 DEF RewardRow
<1>5. \A i \in RowsOf(u, type) : Moves[i] = Moves'[i]
  BY <1>1 DEF RowsOf, Moves
<1>6. \A i \in RowsOf(u, type)' \ RowsOf(u, type) : Moves'[i] = 0
  BY <1>1 DEF RowsOf, Moves, Grown, Fresh
<1> QED
  BY <1>2, <1>3, <1>4, <1>5, <1>6, SumNonzero DEF MovedTo

\* A sequence may be written as a function of its indices.
LEMMA RowsAreRows ==
  ASSUME rewards \in Seq(RewardRow), NEW f \in [DOMAIN rewards -> RewardRow]
  PROVE  f \in Seq(RewardRow) /\ DOMAIN f = DOMAIN rewards
<1>1. DOMAIN rewards = 1 .. Len(rewards) /\ Len(rewards) \in Nat
  OBVIOUS
<1>2. f \in [1 .. Len(rewards) -> RewardRow]
  BY <1>1
<1> QED
  BY <1>1, <1>2

\* Issuing writes one row.
LEMMA IssuedRows ==
  ASSUME rewards \in Seq(RewardRow), NEW i \in DOMAIN rewards,
         rewards' = [rewards EXCEPT ![i] = [rewards[i] EXCEPT !.issued = TRUE,
                                                             !.moved = @ + rewards[i].amount]]
  PROVE  /\ rewards' \in Seq(RewardRow) /\ DOMAIN rewards' = DOMAIN rewards /\ RowsKept
         /\ rewards'[i].issued /\ rewards'[i].moved = rewards[i].moved + rewards[i].amount
         /\ rewards'[i].revoked = rewards[i].revoked
         /\ \A j \in DOMAIN rewards \ {i} : rewards'[j] = rewards[j]
         /\ \A j \in DOMAIN rewards : rewards'[j].revoked = rewards[j].revoked
<1>1. rewards[i] \in RewardRow /\ rewards \in [DOMAIN rewards -> RewardRow]
  OBVIOUS
<1> DEFINE r == [rewards[i] EXCEPT !.issued = TRUE, !.moved = @ + rewards[i].amount]
<1>2. /\ r \in RewardRow /\ r.issued /\ r.moved = rewards[i].moved + rewards[i].amount
      /\ r.revoked = rewards[i].revoked /\ r.edge = rewards[i].edge /\ r.user = rewards[i].user
      /\ r.type = rewards[i].type /\ r.amount = rewards[i].amount
      /\ r.of = rewards[i].of /\ r.by = rewards[i].by
  <2> DEFINE m == rewards[i].moved + rewards[i].amount
             b == [rewards[i] EXCEPT !.issued = TRUE, !.moved = m]
  <2>1. m \in Int
    BY <1>1 DEF RewardRow
  <2>2. r = b
    OBVIOUS
  <2> HIDE DEF m
  <2>3. /\ b \in RewardRow /\ b.issued /\ b.moved = m /\ b.revoked = rewards[i].revoked
        /\ b.edge = rewards[i].edge /\ b.user = rewards[i].user
        /\ b.type = rewards[i].type /\ b.amount = rewards[i].amount
        /\ b.of = rewards[i].of /\ b.by = rewards[i].by
    BY <1>1, <2>1 DEF RewardRow
  <2> HIDE DEF r, b
  <2> QED
    BY <2>2, <2>3 DEF m
<1>3. rewards' = [rewards EXCEPT ![i] = r]
  BY <1>1
<1> HIDE DEF r
<1>4. rewards' \in [DOMAIN rewards -> RewardRow]
  BY <1>1, <1>2, <1>3
<1>5. rewards'[i] = r /\ \A j \in DOMAIN rewards \ {i} : rewards'[j] = rewards[j]
  BY <1>1, <1>3
<1>6. rewards' \in Seq(RewardRow) /\ DOMAIN rewards' = DOMAIN rewards
  BY <1>4, RowsAreRows
<1> QED
  BY <1>2, <1>5, <1>6 DEF RowsKept

\* So does revoking.
LEMMA RevokedRows ==
  ASSUME rewards \in Seq(RewardRow), NEW i \in DOMAIN rewards,
         rewards' = [rewards EXCEPT ![i].revoked = TRUE]
  PROVE  /\ rewards' \in Seq(RewardRow) /\ DOMAIN rewards' = DOMAIN rewards /\ RowsKept
         /\ rewards'[i].revoked
         /\ \A j \in DOMAIN rewards \ {i} : rewards'[j] = rewards[j]
         /\ \A j \in DOMAIN rewards : /\ rewards'[j].issued = rewards[j].issued
                                      /\ rewards'[j].moved = rewards[j].moved
<1>1. rewards[i] \in RewardRow /\ rewards \in [DOMAIN rewards -> RewardRow]
  OBVIOUS
<1> DEFINE r == [rewards[i] EXCEPT !.revoked = TRUE]
<1>2. /\ r \in RewardRow /\ r.revoked /\ r.moved = rewards[i].moved
      /\ r.issued = rewards[i].issued /\ r.edge = rewards[i].edge /\ r.user = rewards[i].user
      /\ r.type = rewards[i].type /\ r.amount = rewards[i].amount
      /\ r.of = rewards[i].of /\ r.by = rewards[i].by
  BY <1>1 DEF RewardRow
<1>3. rewards' = [rewards EXCEPT ![i] = r]
  BY <1>1 DEF RewardRow
<1> HIDE DEF r
<1>4. rewards' \in [DOMAIN rewards -> RewardRow]
  BY <1>1, <1>2, <1>3
<1>5. rewards'[i] = r /\ \A j \in DOMAIN rewards \ {i} : rewards'[j] = rewards[j]
  BY <1>1, <1>3
<1>6. rewards' \in Seq(RewardRow) /\ DOMAIN rewards' = DOMAIN rewards
  BY <1>4, RowsAreRows
<1> QED
  BY <1>2, <1>5, <1>6 DEF RowsKept

\* Taking a row back leaves what it is about.
LEMMA TakenBackRow ==
  ASSUME NEW i, rewards[i] \in RewardRow, NEW given
  PROVE  LET b == TakenBack(i, given)
             r == rewards[i]
         IN  /\ b \in RewardRow /\ b.revoked
             /\ b.moved = IF i \in given THEN r.moved - r.amount ELSE r.moved
             /\ b.issued = r.issued /\ b.edge = r.edge /\ b.user = r.user /\ b.type = r.type
             /\ b.amount = r.amount /\ b.of = r.of /\ b.by = r.by
<1> DEFINE r == rewards[i]
           m == IF i \in given THEN r.moved - r.amount ELSE r.moved
           b == TakenBack(i, given)
<1>1. m \in Int
  BY DEF RewardRow
<1>2. b = [r EXCEPT !.revoked = TRUE, !.moved = m]
  BY DEF TakenBack
<1> HIDE DEF m, b
<1>3. /\ b \in RewardRow /\ b.revoked /\ b.moved = m
      /\ b.issued = r.issued /\ b.edge = r.edge /\ b.user = r.user /\ b.type = r.type
      /\ b.amount = r.amount /\ b.of = r.of /\ b.by = r.by
  BY <1>1, <1>2 DEF RewardRow
<1> QED
  BY <1>3 DEF b, m

\* A reversal revokes what it read, and takes back what it read as issued.
LEMMA WrittenRows ==
  ASSUME rewards \in Seq(RewardRow), NEW w \in Callers, ReverseWrite(w)
  PROVE  /\ rewards' \in Seq(RewardRow) /\ DOMAIN rewards' = DOMAIN rewards /\ RowsKept
         /\ \A i \in DOMAIN rewards :
               /\ rewards'[i].issued = rewards[i].issued
               /\ rewards'[i].revoked = (rewards[i].revoked \/ i \in work[w].rows)
               /\ rewards'[i].moved = IF i \in work[w].rows /\ i \in work[w].issued
                                      THEN rewards[i].moved - rewards[i].amount
                                      ELSE rewards[i].moved
<1> DEFINE r(i) == TakenBack(i, work[w].issued)
<1>1. /\ rewards' = [i \in DOMAIN rewards |-> IF i \in work[w].rows THEN r(i) ELSE rewards[i]]
      /\ \A i \in DOMAIN rewards : rewards[i] \in RewardRow
  BY DEF ReverseWrite
<1>2. ASSUME NEW i \in DOMAIN rewards
      PROVE  /\ r(i) \in RewardRow /\ r(i).revoked
             /\ r(i).moved = IF i \in work[w].issued THEN rewards[i].moved - rewards[i].amount
                             ELSE rewards[i].moved
             /\ r(i).issued = rewards[i].issued /\ r(i).edge = rewards[i].edge
             /\ r(i).user = rewards[i].user /\ r(i).type = rewards[i].type
             /\ r(i).amount = rewards[i].amount
             /\ r(i).of = rewards[i].of /\ r(i).by = rewards[i].by
  BY <1>1, TakenBackRow
<1> HIDE DEF r
<1>3. rewards' \in [DOMAIN rewards -> RewardRow]
  BY <1>1, <1>2
<1>4. rewards' \in Seq(RewardRow) /\ DOMAIN rewards' = DOMAIN rewards
  BY <1>3, RowsAreRows
<1>5. \A i \in DOMAIN rewards : rewards[i].revoked \in BOOLEAN
  BY <1>1 DEF RewardRow
<1>6. ASSUME NEW i \in DOMAIN rewards
      PROVE  /\ rewards'[i].edge = rewards[i].edge /\ rewards'[i].user = rewards[i].user
             /\ rewards'[i].type = rewards[i].type /\ rewards'[i].amount = rewards[i].amount
             /\ rewards'[i].of = rewards[i].of /\ rewards'[i].by = rewards[i].by
             /\ rewards'[i].issued = rewards[i].issued
             /\ rewards'[i].revoked = (rewards[i].revoked \/ i \in work[w].rows)
             /\ rewards'[i].moved = IF i \in work[w].rows /\ i \in work[w].issued
                                    THEN rewards[i].moved - rewards[i].amount
                                    ELSE rewards[i].moved
  <2>1. CASE i \in work[w].rows
    <3>1. rewards'[i] = r(i)
      BY <1>1, <2>1
    <3> QED
      BY <1>2, <2>1, <3>1
  <2>2. CASE i \notin work[w].rows
    <3>1. rewards'[i] = rewards[i]
      BY <1>1, <2>2
    <3> QED
      BY <1>5, <2>2, <3>1
  <2> QED
    BY <2>1, <2>2
<1> QED
  BY <1>4, <1>6 DEF RowsKept

\* The rows of a user do not change while no row is added.
LEMMA RowsStay ==
  ASSUME RowsKept, DOMAIN rewards' = DOMAIN rewards, NEW u, NEW type
  PROVE  RowsOf(u, type)' = RowsOf(u, type)
BY DEF RowsKept, RowsOf

\* Issuing moves the amount of the row.
LEMMA MovedIssued ==
  ASSUME rewards \in Seq(RewardRow), NEW i \in DOMAIN rewards,
         rewards' = [rewards EXCEPT ![i] = [rewards[i] EXCEPT !.issued = TRUE,
                                                             !.moved = @ + rewards[i].amount]],
         NEW u, NEW type
  PROVE  MovedTo(u, type)' =
             IF rewards[i].user = u /\ rewards[i].type = type
             THEN MovedTo(u, type) + rewards[i].amount ELSE MovedTo(u, type)
<1> DEFINE S == RowsOf(u, type)
<1>1. /\ RowsKept /\ DOMAIN rewards' = DOMAIN rewards
      /\ rewards'[i].moved = rewards[i].moved + rewards[i].amount
      /\ \A j \in DOMAIN rewards \ {i} : rewards'[j] = rewards[j]
  BY IssuedRows
<1>2. S' = S
  BY <1>1, RowsStay
<1>3. /\ IsFiniteSet(S)
      /\ \A j \in S : j \in DOMAIN rewards /\ Moves[j] = rewards[j].moved /\ Moves[j] \in Int
  BY RowsFinite
<1>4. \A j \in S \ {i} : Moves'[j] = Moves[j]
  BY <1>1, <1>3 DEF Moves
<1>5. IsFiniteSet(S \ {i})
  BY <1>3, FS_Subset
<1>6. SumFunctionOnSet(Moves', S \ {i}) = SumFunctionOnSet(Moves, S \ {i})
  <2>1. \A j \in S \ {i} : Moves[j] \in Int /\ Moves'[j] = Moves[j]
    BY <1>3, <1>4
  <2> QED
    BY <1>5, <2>1, SumSame
<1>7. MovedTo(u, type)' = SumFunctionOnSet(Moves', S) /\ MovedTo(u, type) = SumFunctionOnSet(Moves, S)
  BY <1>2 DEF MovedTo
<1>8. CASE i \in S
  <2>1. Moves[i] = rewards[i].moved /\ Moves[i] \in Int /\ rewards[i].amount \in Int
    <3>1. rewards[i] \in RewardRow
      OBVIOUS
    <3> QED
      BY <1>3, <1>8, <3>1 DEF RewardRow
  <2>2. Moves'[i] = Moves[i] + rewards[i].amount
    BY <1>1, <2>1 DEF Moves
  <2>3. \A j \in S : Moves'[j] \in Int
    BY <1>3, <1>4, <2>1, <2>2
  <2>4. /\ SumFunctionOnSet(Moves', S) = Moves'[i] + SumFunctionOnSet(Moves', S \ {i})
        /\ SumFunctionOnSet(Moves, S) = Moves[i] + SumFunctionOnSet(Moves, S \ {i})
    BY <1>3, <1>8, <2>3, SumMember
  <2>5. SumFunctionOnSet(Moves, S \ {i}) \in Int
    BY <1>3, <1>5, SumInt
  <2>6. rewards[i].user = u /\ rewards[i].type = type
    BY <1>8 DEF RowsOf
  <2>7. SumFunctionOnSet(Moves', S) = SumFunctionOnSet(Moves, S) + rewards[i].amount
    BY <1>6, <2>1, <2>2, <2>4, <2>5
  <2> QED
    BY <1>7, <2>6, <2>7
<1>9. CASE i \notin S
  <2>1. S \ {i} = S
    BY <1>9
  <2>2. ~(rewards[i].user = u /\ rewards[i].type = type)
    BY <1>9 DEF RowsOf
  <2> QED
    BY <1>6, <1>7, <2>1, <2>2
<1> QED
  BY <1>8, <1>9

\* Revoking moves nothing.
LEMMA MovedRevoked ==
  ASSUME rewards \in Seq(RewardRow), NEW i \in DOMAIN rewards,
         rewards' = [rewards EXCEPT ![i].revoked = TRUE], NEW u, NEW type
  PROVE  MovedTo(u, type)' = MovedTo(u, type)
<1>1. /\ RowsKept /\ DOMAIN rewards' = DOMAIN rewards
      /\ \A j \in DOMAIN rewards : rewards'[j].moved = rewards[j].moved
  BY RevokedRows
<1>2. RowsOf(u, type)' = RowsOf(u, type)
  BY <1>1, RowsStay
<1>3. Moves' = Moves
  BY <1>1 DEF Moves
<1> QED
  BY <1>2, <1>3 DEF MovedTo

\* What a reversal takes back is a number, and of rows it read as issued.
LEMMA BackNat ==
  ASSUME rewards \in Seq(RewardRow), NEW w \in Callers, Holds(w), pc[w] = "write", NEW u, NEW type
  PROVE  /\ Back(w, type, u) \in Nat
         /\ Back(w, type, u) > 0 =>
               \E i \in work[w].issued : rewards[i].user = u /\ rewards[i].type = type
<1> DEFINE S == {i \in work[w].issued : rewards[i].user = u /\ rewards[i].type = type}
           f == [i \in DOMAIN rewards |-> rewards[i].amount]
<1>1. \A i \in S : i \in DOMAIN rewards /\ rewards[i] \in RewardRow
  BY DEF Holds, Reversing
<1>2. IsFiniteSet(S)
  BY <1>1, RowsFinite, FS_Subset
<1>3. \A i \in S : f[i] \in Nat
  BY <1>1 DEF RewardRow
<1>4. SumFunctionOnSet(f, S) \in Nat
  BY <1>2, <1>3, SumNat
<1>5. S = {} => SumFunctionOnSet(f, S) = 0
  BY SumEmpty
<1>6. Back(w, type, u) = SumFunctionOnSet(f, S)
  BY DEF Back
<1> QED
  BY <1>4, <1>5, <1>6

\* A reversal moves back what it takes back.
LEMMA MovedBack ==
  ASSUME rewards \in Seq(RewardRow), NEW w \in Callers, Holds(w), ReverseWrite(w), NEW u, NEW type
  PROVE  MovedTo(u, type)' = MovedTo(u, type) - Back(w, type, u)
<1> DEFINE S == RowsOf(u, type)
           T == {i \in work[w].issued : rewards[i].user = u /\ rewards[i].type = type}
           f == [i \in DOMAIN rewards |-> rewards[i].amount]
           g == [i \in DOMAIN rewards |-> IF i \in T THEN rewards[i].amount ELSE 0]
<1>1. /\ RowsKept /\ DOMAIN rewards' = DOMAIN rewards
      /\ \A i \in DOMAIN rewards :
            rewards'[i].moved = IF i \in work[w].rows /\ i \in work[w].issued
                                THEN rewards[i].moved - rewards[i].amount
                                ELSE rewards[i].moved
  BY WrittenRows
<1>2. S' = S
  BY <1>1, RowsStay
<1>3. /\ IsFiniteSet(S)
      /\ \A i \in S : i \in DOMAIN rewards /\ Moves[i] = rewards[i].moved /\ Moves[i] \in Int
  BY RowsFinite
<1>4. pc[w] = "write"
  BY DEF ReverseWrite
<1>5. \A i \in work[w].issued : i \in work[w].rows /\ i \in DOMAIN rewards
  BY <1>4 DEF Holds, Reversing
<1>6. T \in SUBSET S
  BY <1>5 DEF RowsOf
<1>7. ASSUME NEW i \in S
      PROVE  g[i] \in Int /\ Moves'[i] = Moves[i] - g[i]
  <2>1. /\ i \in DOMAIN rewards /\ Moves[i] = rewards[i].moved /\ rewards[i] \in RewardRow
        /\ rewards[i].user = u /\ rewards[i].type = type
        /\ Moves'[i] = rewards'[i].moved
    BY <1>1, <1>3 DEF RowsOf, Moves
  <2>2. rewards[i].amount \in Int /\ rewards[i].moved \in Int
    BY <2>1 DEF RewardRow
  <2>3. CASE i \in work[w].issued
    <3>1. i \in T /\ g[i] = rewards[i].amount
      BY <2>1, <2>3
    <3>2. rewards'[i].moved = rewards[i].moved - rewards[i].amount
      BY <1>1, <1>5, <2>1, <2>3
    <3> QED
      BY <2>1, <2>2, <3>1, <3>2
  <2>4. CASE i \notin work[w].issued
    <3>1. g[i] = 0
      BY <2>1, <2>4
    <3>2. rewards'[i].moved = rewards[i].moved
      BY <1>1, <2>1, <2>4
    <3> QED
      BY <2>1, <2>2, <3>1, <3>2
  <2> QED
    BY <2>3, <2>4
<1>8. SumFunctionOnSet(Moves', S) = SumFunctionOnSet(Moves, S) - SumFunctionOnSet(g, S)
  <2> HIDE DEF g, S
  <2> QED
    BY <1>3, <1>7, SumDifference
<1>9. SumFunctionOnSet(g, S) = SumFunctionOnSet(f, T)
  <2>1. \A i \in T : f[i] = g[i]
    BY <1>5
  <2>2. \A i \in S \ T : g[i] = 0
    BY <1>3
  <2> HIDE DEF f, g, S, T
  <2> QED
    BY <1>3, <1>6, <1>7, <2>1, <2>2, SumNonzero
<1> QED
  BY <1>2, <1>8, <1>9 DEF MovedTo, Back

-----------------------------------------------------------------------------
(* What a step leaves alone                                                *)

\* The edges, when neither they nor the rows change.
LEMMA EdgesFrame ==
  ASSUME EdgesInv, UNCHANGED <<qualified, rewards, torn, undone>>
  PROVE  EdgesInv'
BY DEF EdgesInv, QualifiedByPayer, RowsOfPayer, Settled, StandingAtMostOne, ClearedIsClear,
       ReversalHolds, Own, Owed

\* The balances, when no row moves and nothing is exchanged.
LEMMA MoneyFrame ==
  ASSUME PointsMoved, DaysMoved,
         UNCHANGED <<situation, points, expires, exchanges, adjusted, lost>>,
         \A u \in Members, type \in RewardTypes : MovedTo(u, type)' = MovedTo(u, type)
  PROVE  PointsMoved' /\ DaysMoved'
<1>1. \A u, types : Exchanged(u, types)' = Exchanged(u, types)
  BY DEF Exchanged
<1>2. PointsMoved'
  BY <1>1 DEF PointsMoved, RewardTypes
<1>3. DaysMoved'
  BY <1>1 DEF DaysMoved, RewardTypes
<1> QED
  BY <1>2, <1>3

\* Rows that do not change move nothing, and are kept.
LEMMA RowsFrame ==
  ASSUME rewards' = rewards
  PROVE  RowsKept /\ \A u, type : MovedTo(u, type)' = MovedTo(u, type)
BY DEF RowsKept, MovedTo, RowsOf, Moves

\* A user who is overdrawn stays so for the same reason.
LEMMA OverdrawsFrame ==
  ASSUME OnlyTakenBackOverdraws, RowsKept, UNCHANGED <<points, adjusted>>
  PROVE  OnlyTakenBackOverdraws'
BY DEF OnlyTakenBackOverdraws, RowsKept

\* The keys, when nothing is recorded or answered.
LEMMA KeysFrame ==
  ASSUME KeysInv, UNCHANGED <<exchanges, answers>>
  PROVE  KeysInv'
BY DEF KeysInv

\* A worker that does nothing holds what it held: rows are kept.
LEMMA HoldsFrame ==
  ASSUME NEW w \in Callers, Holds(w), RowsKept, pc'[w] = pc[w], work'[w] = work[w]
  PROVE  Holds(w)'
BY DEF Holds, Reversing, RowsKept

\* A step of one worker leaves what the others hold.
LEMMA WorkStep ==
  ASSUME ReferralTypeOK, AtWork, RowsKept, NEW w \in Callers, NEW step \in Steps, NEW x,
         pc' = [pc EXCEPT ![w] = step], work' = [work EXCEPT ![w] = x], Holds(w)'
  PROVE  AtWork'
<1> SUFFICES ASSUME NEW v \in Callers PROVE Holds(v)'
  BY DEF AtWork
<1>1. CASE v = w
  BY <1>1
<1>2. CASE v # w
  <2>1. pc'[v] = pc[v] /\ work'[v] = work[v]
    BY <1>2 DEF ReferralTypeOK
  <2> QED
    BY <2>1, HoldsFrame DEF AtWork
<1> QED
  BY <1>1, <1>2

\* A request without a worker leaves what all of them hold.
LEMMA WorkFrame ==
  ASSUME AtWork, RowsKept, UNCHANGED <<pc, work>>
  PROVE  AtWork'
BY HoldsFrame DEF AtWork

\* A worker that is done holds nothing.
LEMMA WorkDone ==
  ASSUME ReferralTypeOK, AtWork, RowsKept, NEW w \in Callers, Done(w)
  PROVE  AtWork' /\ pc' \in [Callers -> Steps] /\ work' \in [Callers -> Work]
<1>1. Nothing \in Work
  BY DEF Nothing, Work
<1>2. pc'[w] = "idle"
  BY DEF Done, GoOn, ReferralTypeOK
<1>3. Holds(w)'
  BY <1>2 DEF Holds, Reversing
<1>4. AtWork'
  BY <1>3, WorkStep DEF Done, GoOn, Steps
<1> QED
  BY <1>1, <1>4 DEF Done, GoOn, ReferralTypeOK, Steps

-----------------------------------------------------------------------------
(* What happens to the edges                                               *)

\* Qualifying an edge that is not qualified: its former rewards are all revoked.
LEMMA EdgesQualified ==
  ASSUME ReferralTypeOK, EdgesInv, NEW e \in Edges, NEW by \in Payments \cup {"MANUAL"},
         ~IsQualified(e), by \in Payments => Payer[by] = e,
         qualified' = [qualified EXCEPT ![e] = by],
         rewards' = rewards \o ConfiguredRewards(e, by),
         torn' = torn, undone' = undone \ {by}
  PROVE  EdgesInv' /\ Grown(ConfiguredRewards(e, by))
<1> DEFINE s == ConfiguredRewards(e, by)
<1>1. /\ s \in Seq(RewardRow)
      /\ \A i \in DOMAIN s : Fresh(s[i]) /\ s[i].of = e /\ s[i].by = by
      /\ \A i, j \in DOMAIN s : s[i].edge = e /\ s[j].edge = e => i = j
  BY ConfiguredRows
<1> HIDE DEF s
<1>2. Grown(s)
  BY <1>1 DEF Grown, s
<1>3. rewards \in Seq(RewardRow) /\ Len(rewards) \in Nat /\ DOMAIN rewards = 1 .. Len(rewards)
  BY DEF ReferralTypeOK
<1>4. /\ rewards' \in Seq(RewardRow) /\ DOMAIN rewards \subseteq DOMAIN rewards'
      /\ \A i \in DOMAIN rewards : rewards'[i] = rewards[i]
      /\ \A j \in DOMAIN rewards' \ DOMAIN rewards :
               j - Len(rewards) \in DOMAIN s /\ rewards'[j] = s[j - Len(rewards)]
  BY <1>2, <1>3, GrownRows
<1>5. ASSUME NEW j \in DOMAIN rewards', j \notin DOMAIN rewards
      PROVE  /\ Fresh(rewards'[j]) /\ rewards'[j].of = e /\ rewards'[j].by = by
             /\ j \in Int
  <2>1. DOMAIN rewards' = 1 .. Len(rewards') /\ Len(rewards') \in Nat
    BY <1>4
  <2> QED
    BY <1>1, <1>4, <1>5, <2>1
<1>6. /\ qualified \in [Edges -> Payments \cup {"NONE", "MANUAL"}] /\ qualified[e] = "NONE"
      /\ qualified'[e] = by /\ \A x \in Edges : x # e => qualified'[x] = qualified[x]
  BY DEF ReferralTypeOK, IsQualified
<1>7. "NONE" \notin Payments /\ "MANUAL" \notin Payments /\ by # "NONE" /\ by # "OPERATOR"
  BY ReferralAssumption
<1>8. QualifiedByPayer'
  BY <1>6 DEF EdgesInv, QualifiedByPayer
<1>9. RowsOfPayer'
  <2> SUFFICES ASSUME NEW i \in DOMAIN rewards', rewards'[i].by \in Payments
               PROVE  rewards'[i].of = Payer[rewards'[i].by]
    BY DEF RowsOfPayer
  <2>1. CASE i \in DOMAIN rewards
    BY <2>1, <1>4 DEF EdgesInv, RowsOfPayer
  <2>2. CASE i \notin DOMAIN rewards
    BY <2>2, <1>5
  <2> QED
    BY <2>1, <2>2
<1>10. Settled'
  <2> SUFFICES ASSUME NEW i \in DOMAIN rewards', rewards'[i].edge \notin torn'
               PROVE  rewards'[i].moved = Owed(rewards'[i])
    BY DEF Settled, Owed
  <2>1. CASE i \in DOMAIN rewards
    BY <2>1, <1>4 DEF EdgesInv, Settled
  <2>2. CASE i \notin DOMAIN rewards
    BY <2>2, <1>5 DEF Fresh, Owed
  <2> QED
    BY <2>1, <2>2
<1>11. StandingAtMostOne'
  <2> SUFFICES ASSUME NEW x \in Edges \ torn, NEW i \in DOMAIN rewards', NEW j \in DOMAIN rewards',
                      Own(rewards'[i], x), ~rewards'[i].revoked,
                      Own(rewards'[j], x), ~rewards'[j].revoked
               PROVE  i = j
    BY DEF StandingAtMostOne, Own
  <2>1. CASE i \in DOMAIN rewards /\ j \in DOMAIN rewards
    BY <2>1, <1>4 DEF EdgesInv, StandingAtMostOne
  <2>2. ASSUME NEW k \in DOMAIN rewards, Own(rewards'[k], e), ~rewards'[k].revoked, x = e
        PROVE  FALSE
    BY <2>2, <1>4, <1>6 DEF EdgesInv, ClearedIsClear
  <2>3. CASE i \notin DOMAIN rewards
    <3>1. x = e
      BY <2>3, <1>5 DEF Own
    <3>2. j \notin DOMAIN rewards
      BY <2>2, <3>1
    <3>3. i - Len(rewards) = j - Len(rewards)
      BY <1>1, <1>4, <2>3, <3>1, <3>2 DEF Own
    <3> QED
      BY <3>2, <3>3, <2>3, <1>3, <1>5
  <2>4. CASE j \notin DOMAIN rewards
    <3>1. x = e
      BY <2>4, <1>5 DEF Own
    <3>2. i \notin DOMAIN rewards
      BY <2>2, <3>1
    <3> QED
      BY <2>3, <3>2
  <2> QED
    BY <2>1, <2>3, <2>4
<1>12. ClearedIsClear'
  <2> SUFFICES ASSUME NEW x \in Edges \ torn, qualified'[x] = "NONE", NEW i \in DOMAIN rewards',
                      Own(rewards'[i], x)
               PROVE  rewards'[i].revoked
    BY DEF ClearedIsClear, Own
  <2>1. x # e /\ qualified[x] = "NONE"
    BY <1>6, <1>7
  <2>2. i \in DOMAIN rewards
    BY <2>1, <1>5 DEF Own
  <2> QED
    BY <2>1, <2>2, <1>4 DEF EdgesInv, ClearedIsClear
<1>13. ReversalHolds'
  <2> SUFFICES ASSUME NEW t \in undone', Payer[t] \notin torn
               PROVE  /\ qualified'[Payer[t]] # t
                      /\ \A i \in DOMAIN rewards' :
                            rewards'[i].by = t /\ rewards'[i].edge = Payer[t] => rewards'[i].revoked
    BY DEF ReversalHolds
  <2>1. t \in undone /\ t # by
    OBVIOUS
  <2>2. /\ qualified[Payer[t]] # t
        /\ \A i \in DOMAIN rewards :
              rewards[i].by = t /\ rewards[i].edge = Payer[t] => rewards[i].revoked
    BY <2>1 DEF EdgesInv, ReversalHolds
  <2>3. qualified'[Payer[t]] # t
    BY <2>1, <2>2, <1>6 DEF EdgesInv, QualifiedByPayer
  <2> QED
    BY <2>1, <2>2, <2>3, <1>4, <1>5
<1> QED
  BY <1>2, <1>8, <1>9, <1>10, <1>11, <1>12, <1>13 DEF EdgesInv, s

\* A reward given by hand is not the edge's own.
LEMMA EdgesGranted ==
  ASSUME ReferralTypeOK, EdgesInv, NEW r \in RewardRow, Fresh(r), r.by = "OPERATOR",
         rewards' = Append(rewards, r), UNCHANGED <<qualified, torn, undone>>
  PROVE  EdgesInv' /\ Grown(<<r>>)
<1>0. rewards \in Seq(RewardRow) /\ undone \subseteq Payments
  BY DEF ReferralTypeOK
<1>1. <<r>> \in Seq(RewardRow) /\ Len(<<r>>) = 1 /\ <<r>>[1] = r
  OBVIOUS
<1>2. rewards' = rewards \o <<r>>
  BY <1>0
<1>3. Grown(<<r>>)
  BY <1>1, <1>2 DEF Grown
<1>4. /\ rewards' \in Seq(RewardRow) /\ DOMAIN rewards \subseteq DOMAIN rewards'
      /\ \A i \in DOMAIN rewards : rewards'[i] = rewards[i]
      /\ \A j \in DOMAIN rewards' \ DOMAIN rewards : rewards'[j] = r
  <2>1. \A j \in DOMAIN rewards' \ DOMAIN rewards :
               j - Len(rewards) \in DOMAIN <<r>> /\ rewards'[j] = <<r>>[j - Len(rewards)]
    BY <1>0, <1>3, GrownRows
  <2>2. \A k \in DOMAIN <<r>> : <<r>>[k] = r
    BY <1>1
  <2> QED
    BY <1>0, <1>3, <2>1, <2>2, GrownRows
<1>5. "OPERATOR" \notin Payments
  BY ReferralAssumption
<1>6. QualifiedByPayer'
  BY DEF EdgesInv, QualifiedByPayer
<1>7. RowsOfPayer'
  BY <1>4, <1>5 DEF EdgesInv, RowsOfPayer
<1>8. Settled'
  <2> SUFFICES ASSUME NEW i \in DOMAIN rewards', rewards'[i].edge \notin torn
               PROVE  rewards'[i].moved = Owed(rewards'[i])
    BY DEF Settled, Owed
  <2>1. CASE i \in DOMAIN rewards
    BY <2>1, <1>4 DEF EdgesInv, Settled
  <2>2. CASE i \notin DOMAIN rewards
    BY <2>2, <1>4 DEF Fresh, Owed
  <2> QED
    BY <2>1, <2>2
<1>9. \A i \in DOMAIN rewards', x \in Edges : Own(rewards'[i], x) => i \in DOMAIN rewards
  BY <1>4 DEF Own
<1>10. StandingAtMostOne'
  <2> SUFFICES ASSUME NEW x \in Edges \ torn, NEW i \in DOMAIN rewards', NEW j \in DOMAIN rewards',
                      Own(rewards'[i], x), ~rewards'[i].revoked,
                      Own(rewards'[j], x), ~rewards'[j].revoked
               PROVE  i = j
    BY DEF StandingAtMostOne, Own
  <2> QED
    BY <1>4, <1>9 DEF EdgesInv, StandingAtMostOne
<1>11. ClearedIsClear'
  <2> SUFFICES ASSUME NEW x \in Edges \ torn, qualified[x] = "NONE", NEW i \in DOMAIN rewards',
                      Own(rewards'[i], x)
               PROVE  rewards'[i].revoked
    BY DEF ClearedIsClear, Own
  <2> QED
    BY <1>4, <1>9 DEF EdgesInv, ClearedIsClear
<1>12. ReversalHolds'
  <2> SUFFICES ASSUME NEW t \in undone, Payer[t] \notin torn, NEW i \in DOMAIN rewards',
                      rewards'[i].by = t, rewards'[i].edge = Payer[t]
               PROVE  rewards'[i].revoked
    BY DEF ReversalHolds, EdgesInv
  <2>1. CASE i \in DOMAIN rewards
    BY <2>1, <1>4 DEF EdgesInv, ReversalHolds
  <2>2. CASE i \notin DOMAIN rewards
    <3>1. t = "OPERATOR" /\ rewards'[i].edge = r.edge
      BY <2>2, <1>4
    <3> QED
      BY <1>0, <1>5, <3>1
  <2> QED
    BY <2>1, <2>2
<1> QED
  BY <1>3, <1>6, <1>7, <1>8, <1>10, <1>11, <1>12 DEF EdgesInv

\* Issuing a row that is neither issued nor revoked settles it.
LEMMA EdgesIssued ==
  ASSUME rewards \in Seq(RewardRow), EdgesInv, NEW i \in DOMAIN rewards, Issuable(rewards[i]),
         rewards' = [rewards EXCEPT ![i] = [rewards[i] EXCEPT !.issued = TRUE,
                                                             !.moved = @ + rewards[i].amount]],
         UNCHANGED <<qualified, torn, undone>>
  PROVE  EdgesInv'
<1>1. /\ RowsKept /\ DOMAIN rewards' = DOMAIN rewards
      /\ rewards'[i].issued /\ rewards'[i].moved = rewards[i].moved + rewards[i].amount
      /\ \A j \in DOMAIN rewards \ {i} : rewards'[j] = rewards[j]
      /\ \A j \in DOMAIN rewards : rewards'[j].revoked = rewards[j].revoked
  BY IssuedRows
<1>2. ~rewards[i].issued /\ ~rewards[i].revoked /\ rewards[i].amount \in Int
  <2>1. rewards[i] \in RewardRow
    OBVIOUS
  <2> QED
    BY <2>1 DEF Issuable, RewardRow
<1>3. \A j \in DOMAIN rewards, x \in Edges : Own(rewards'[j], x) => Own(rewards[j], x)
  BY <1>1 DEF RowsKept, Own
<1>4. QualifiedByPayer'
  BY DEF EdgesInv, QualifiedByPayer
<1>5. RowsOfPayer'
  BY <1>1 DEF EdgesInv, RowsOfPayer, RowsKept
<1>6. Settled'
  <2> SUFFICES ASSUME NEW j \in DOMAIN rewards, rewards'[j].edge \notin torn
               PROVE  rewards'[j].moved = Owed(rewards'[j])
    BY <1>1 DEF Settled, Owed
  <2>1. rewards[j].moved = Owed(rewards[j])
    BY <1>1 DEF EdgesInv, Settled, RowsKept
  <2>2. CASE j = i
    <3>1. rewards[i].moved = 0
      BY <2>1, <2>2, <1>2 DEF Owed
    <3>2. Owed(rewards'[i]) = rewards[i].amount
      BY <1>1, <1>2 DEF Owed, RowsKept
    <3> QED
      BY <2>2, <3>1, <3>2, <1>1, <1>2
  <2>3. CASE j # i
    BY <2>1, <2>3, <1>1
  <2> QED
    BY <2>2, <2>3
<1>7. StandingAtMostOne'
  <2> SUFFICES ASSUME NEW x \in Edges \ torn, NEW j \in DOMAIN rewards, NEW k \in DOMAIN rewards,
                      Own(rewards'[j], x), ~rewards'[j].revoked,
                      Own(rewards'[k], x), ~rewards'[k].revoked
               PROVE  j = k
    BY <1>1 DEF StandingAtMostOne, Own
  <2> QED
    BY <1>1, <1>3 DEF EdgesInv, StandingAtMostOne
<1>8. ClearedIsClear'
  <2> SUFFICES ASSUME NEW x \in Edges \ torn, qualified[x] = "NONE", NEW j \in DOMAIN rewards,
                      Own(rewards'[j], x)
               PROVE  rewards'[j].revoked
    BY <1>1 DEF ClearedIsClear, Own
  <2> QED
    BY <1>1, <1>3 DEF EdgesInv, ClearedIsClear
<1>9. ReversalHolds'
  BY <1>1 DEF EdgesInv, ReversalHolds, RowsKept
<1> QED
  BY <1>4, <1>5, <1>6, <1>7, <1>8, <1>9 DEF EdgesInv

\* Revoking a row that was not issued changes nothing of what is due.
LEMMA EdgesRevoked ==
  ASSUME rewards \in Seq(RewardRow), EdgesInv, NEW i \in DOMAIN rewards, ~rewards[i].issued,
         rewards' = [rewards EXCEPT ![i].revoked = TRUE],
         UNCHANGED <<qualified, torn, undone>>
  PROVE  EdgesInv'
<1>1. /\ RowsKept /\ DOMAIN rewards' = DOMAIN rewards
      /\ \A j \in DOMAIN rewards \ {i} : rewards'[j] = rewards[j]
      /\ \A j \in DOMAIN rewards : /\ rewards'[j].issued = rewards[j].issued
                                   /\ rewards'[j].moved = rewards[j].moved
  BY RevokedRows
<1>3. \A j \in DOMAIN rewards, x \in Edges : Own(rewards'[j], x) => Own(rewards[j], x)
  BY <1>1 DEF RowsKept, Own
<1>4. QualifiedByPayer'
  BY DEF EdgesInv, QualifiedByPayer
<1>5. RowsOfPayer'
  BY <1>1 DEF EdgesInv, RowsOfPayer, RowsKept
<1>6. Settled'
  <2> SUFFICES ASSUME NEW j \in DOMAIN rewards, rewards'[j].edge \notin torn
               PROVE  rewards'[j].moved = Owed(rewards'[j])
    BY <1>1 DEF Settled, Owed
  <2>1. rewards[j].moved = Owed(rewards[j])
    BY <1>1 DEF EdgesInv, Settled, RowsKept
  <2>2. CASE j = i
    BY <2>1, <2>2, <1>1 DEF Owed
  <2>3. CASE j # i
    BY <2>1, <2>3, <1>1
  <2> QED
    BY <2>2, <2>3
<1>7. StandingAtMostOne'
  <2> SUFFICES ASSUME NEW x \in Edges \ torn, NEW j \in DOMAIN rewards, NEW k \in DOMAIN rewards,
                      Own(rewards'[j], x), ~rewards'[j].revoked,
                      Own(rewards'[k], x), ~rewards'[k].revoked
               PROVE  j = k
    BY <1>1 DEF StandingAtMostOne, Own
  <2> QED
    BY <1>1, <1>3 DEF EdgesInv, StandingAtMostOne, RowsKept
<1>8. ClearedIsClear'
  <2> SUFFICES ASSUME NEW x \in Edges \ torn, qualified[x] = "NONE", NEW j \in DOMAIN rewards,
                      Own(rewards'[j], x)
               PROVE  rewards'[j].revoked
    BY <1>1 DEF ClearedIsClear, Own
  <2> QED
    BY <1>1, <1>3 DEF EdgesInv, ClearedIsClear, RowsKept
<1>9. ReversalHolds'
  BY <1>1 DEF EdgesInv, ReversalHolds, RowsKept
<1> QED
  BY <1>4, <1>5, <1>6, <1>7, <1>8, <1>9 DEF EdgesInv

\* A reversal leaves its edge clear, or torn.
LEMMA EdgesReversed ==
  ASSUME ReferralTypeOK, AtWork, EdgesInv, NEW w \in Callers, ReverseWrite(w)
  PROVE  EdgesInv'
<1> DEFINE x == work[w]
           e == x.of
<1>1. /\ RowsKept /\ DOMAIN rewards' = DOMAIN rewards
      /\ \A i \in DOMAIN rewards :
               /\ rewards'[i].issued = rewards[i].issued
               /\ rewards'[i].revoked = (rewards[i].revoked \/ i \in x.rows)
               /\ rewards'[i].moved = IF i \in x.rows /\ i \in x.issued
                                      THEN rewards[i].moved - rewards[i].amount
                                      ELSE rewards[i].moved
  BY WrittenRows DEF ReferralTypeOK
<1>2. /\ x.on \in Payments /\ e \in Edges /\ Payer[x.on] = e
      /\ \A i \in x.rows : i \in DOMAIN rewards /\ rewards[i].edge = e
      /\ \A i \in x.issued : i \in x.rows /\ rewards[i].issued
  BY DEF AtWork, Holds, Reversing, ReverseWrite
<1>3. /\ qualified \in [Edges -> Payments \cup {"NONE", "MANUAL"}]
      /\ qualified'[e] = "NONE" /\ \A y \in Edges : y # e => qualified'[y] = qualified[y]
      /\ undone' = undone \cup {x.on} /\ torn \subseteq torn'
  BY <1>2 DEF ReverseWrite, Cleared, ReferralTypeOK
<1>4. e \notin torn' =>
        /\ e \notin torn
        /\ \A i \in DOMAIN rewards : Own(rewards[i], e) /\ ~rewards[i].revoked => i \in x.rows
        /\ \A i \in x.rows : ~rewards[i].revoked /\ rewards[i].issued = (i \in x.issued)
  <2> SUFFICES ASSUME e \notin torn'
               PROVE  /\ e \notin torn
                      /\ \A i \in DOMAIN rewards : Own(rewards[i], e) /\ ~rewards[i].revoked => i \in x.rows
                      /\ \A i \in x.rows : ~rewards[i].revoked /\ rewards[i].issued = (i \in x.issued)
    OBVIOUS
  <2>1. ~Overtaken(w)
    BY DEF ReverseWrite
  <2>2. e \notin torn
    BY <1>3
  <2>3. \A i \in OwnRewards(e) : ~rewards[i].revoked => i \in x.rows
    BY <2>1 DEF Overtaken, Reversible
  <2>4. \A i \in x.rows : ~rewards[i].revoked /\ rewards[i].issued = (i \in x.issued)
    BY <2>1 DEF Overtaken
  <2> QED
    BY <2>2, <2>3, <2>4 DEF OwnRewards, Own
<1>5. "NONE" \notin Payments
  BY ReferralAssumption
<1> HIDE DEF x, e
<1>6. \A j \in DOMAIN rewards, y \in Edges : Own(rewards'[j], y) => Own(rewards[j], y)
  BY <1>1 DEF RowsKept, Own
<1>7. QualifiedByPayer'
  BY <1>2, <1>3, <1>5 DEF EdgesInv, QualifiedByPayer
<1>8. RowsOfPayer'
  BY <1>1 DEF EdgesInv, RowsOfPayer, RowsKept
<1>9. Settled'
  <2> SUFFICES ASSUME NEW j \in DOMAIN rewards, rewards'[j].edge \notin torn'
               PROVE  rewards'[j].moved = Owed(rewards'[j])
    BY <1>1 DEF Settled, Owed
  <2>1. rewards[j].edge \notin torn' /\ rewards[j].moved = Owed(rewards[j])
    BY <1>1, <1>3 DEF EdgesInv, Settled, RowsKept
  <2>2. CASE j \in x.rows
    <3>1. ~rewards[j].revoked /\ rewards[j].issued = (j \in x.issued) /\ rewards'[j].revoked
      BY <1>1, <1>2, <1>4, <2>1, <2>2
    <3>2. Owed(rewards'[j]) = 0
      BY <3>1 DEF Owed
    <3>3. CASE j \in x.issued
      <4>1. rewards[j].moved = rewards[j].amount
        BY <2>1, <3>1, <3>3 DEF Owed
      <4>2. rewards[j].amount \in Int
        <5>1. rewards[j] \in RewardRow
          BY DEF ReferralTypeOK
        <5> QED
          BY <5>1 DEF RewardRow
      <4> QED
        BY <1>1, <2>2, <3>2, <3>3, <4>1, <4>2
    <3>4. CASE j \notin x.issued
      <4>1. rewards[j].moved = 0
        BY <2>1, <3>1, <3>4 DEF Owed
      <4> QED
        BY <1>1, <3>2, <3>4, <4>1
    <3> QED
      BY <3>3, <3>4
  <2>3. CASE j \notin x.rows
    <3>1. rewards'[j].moved = rewards[j].moved
      BY <1>1, <2>3
    <3>2. Owed(rewards'[j]) = Owed(rewards[j])
      <4>1. /\ rewards'[j].amount = rewards[j].amount
            /\ rewards'[j].issued = rewards[j].issued
            /\ rewards'[j].revoked <=> rewards[j].revoked
        BY <1>1, <2>3 DEF RowsKept
      <4> QED
        BY <4>1 DEF Owed
    <3> QED
      BY <2>1, <3>1, <3>2
  <2> QED
    BY <2>2, <2>3
<1>10. StandingAtMostOne'
  <2> SUFFICES ASSUME NEW y \in Edges \ torn', NEW j \in DOMAIN rewards, NEW k \in DOMAIN rewards,
                      Own(rewards'[j], y), ~rewards'[j].revoked,
                      Own(rewards'[k], y), ~rewards'[k].revoked
               PROVE  j = k
    BY <1>1 DEF StandingAtMostOne, Own
  <2> QED
    BY <1>1, <1>3, <1>6 DEF EdgesInv, StandingAtMostOne, RowsKept
<1>11. ClearedIsClear'
  <2> SUFFICES ASSUME NEW y \in Edges \ torn', qualified'[y] = "NONE", NEW j \in DOMAIN rewards,
                      Own(rewards'[j], y)
               PROVE  rewards'[j].revoked
    BY <1>1 DEF ClearedIsClear, Own
  <2>1. CASE y = e
    BY <1>1, <1>4, <1>6, <2>1
  <2>2. CASE y # e
    BY <1>1, <1>3, <1>6, <2>2 DEF EdgesInv, ClearedIsClear, RowsKept
  <2> QED
    BY <2>1, <2>2
<1>12. ReversalHolds'
  <2> SUFFICES ASSUME NEW t \in undone', Payer[t] \notin torn'
               PROVE  /\ qualified'[Payer[t]] # t
                      /\ \A i \in DOMAIN rewards :
                            rewards'[i].by = t /\ rewards'[i].edge = Payer[t] => rewards'[i].revoked
    BY <1>1 DEF ReversalHolds
  <2>1. CASE t = x.on
    <3>1. qualified'[Payer[t]] # t
      BY <1>2, <1>3, <1>5, <2>1
    <3>2. ASSUME NEW i \in DOMAIN rewards, rewards'[i].by = t, rewards'[i].edge = Payer[t]
          PROVE  rewards'[i].revoked
      <4>1. rewards[i].by = t /\ rewards[i].edge = e
        BY <1>1, <1>2, <2>1, <3>2 DEF RowsKept
      <4>2. rewards[i].of = e
        BY <1>2, <2>1, <4>1 DEF EdgesInv, RowsOfPayer
      <4>3. t # "OPERATOR"
        BY <1>2, <2>1, ReferralAssumption
      <4>4. Own(rewards[i], e)
        BY <4>1, <4>2, <4>3 DEF Own
      <4> QED
        BY <1>1, <1>2, <1>4, <2>1, <4>4
    <3> QED
      BY <3>1, <3>2
  <2>2. CASE t # x.on
    <3>1. t \in undone /\ Payer[t] \notin torn /\ Payer[t] \in Edges
      BY <1>3, <2>2 DEF EdgesInv, QualifiedByPayer
    <3>2. /\ qualified[Payer[t]] # t
          /\ \A i \in DOMAIN rewards :
                rewards[i].by = t /\ rewards[i].edge = Payer[t] => rewards[i].revoked
      BY <3>1 DEF EdgesInv, ReversalHolds
    <3>3. CASE Payer[t] = e
      <4>1. qualified'[Payer[t]] = "NONE"
        BY <1>3, <3>3
      <4>2. t # "NONE"
        BY <1>5, <3>1 DEF ReferralTypeOK
      <4> QED
        BY <1>1, <3>2, <4>1, <4>2 DEF RowsKept
    <3>4. CASE Payer[t] # e
      BY <1>1, <1>3, <3>1, <3>2, <3>4 DEF RowsKept
    <3> QED
      BY <3>3, <3>4
  <2> QED
    BY <2>1, <2>2
<1> QED
  BY <1>7, <1>8, <1>9, <1>10, <1>11, <1>12 DEF EdgesInv

-----------------------------------------------------------------------------
(* What is exchanged                                                       *)

\* Exchanges are counted.
LEMMA ExchangedNat ==
  ASSUME ReferralTypeOK, NEW u, NEW types
  PROVE  IsFiniteSet({i \in DOMAIN exchanges : exchanges[i].user = u /\ exchanges[i].type \in types})
         /\ Exchanged(u, types) \in Nat
<1>1. DOMAIN exchanges = 1 .. Len(exchanges) /\ Len(exchanges) \in Nat
  BY DEF ReferralTypeOK
<1>2. IsFiniteSet(DOMAIN exchanges)
  BY <1>1, FS_Interval
<1> QED
  BY <1>2, FS_Subset, FS_CardinalityType DEF Exchanged

\* A new exchange counts for its user and its type.
LEMMA ExchangedGrows ==
  ASSUME ReferralTypeOK, NEW x \in [user : Members, key : Keys \cup {NoKey}, type : ExchangeTypes],
         exchanges' = Append(exchanges, x), NEW u, NEW types
  PROVE  Exchanged(u, types)' =
             IF x.user = u /\ x.type \in types THEN Exchanged(u, types) + 1
             ELSE Exchanged(u, types)
<1> DEFINE S == {i \in DOMAIN exchanges : exchanges[i].user = u /\ exchanges[i].type \in types}
           n == Len(exchanges) + 1
<1>1. /\ DOMAIN exchanges = 1 .. Len(exchanges) /\ Len(exchanges) \in Nat
      /\ DOMAIN exchanges' = DOMAIN exchanges \cup {n} /\ n \notin DOMAIN exchanges
      /\ exchanges'[n] = x /\ \A i \in DOMAIN exchanges : exchanges'[i] = exchanges[i]
  <2> DEFINE X == [user : Members, key : Keys \cup {NoKey}, type : ExchangeTypes]
  <2>1. exchanges \in Seq(X) /\ x \in X
    BY DEF ReferralTypeOK
  <2> HIDE DEF X
  <2>2. /\ DOMAIN exchanges = 1 .. Len(exchanges) /\ Len(exchanges) \in Nat
        /\ exchanges' \in Seq(X) /\ Len(exchanges') = n
    BY <2>1
  <2>3. DOMAIN exchanges' = 1 .. n
    BY <2>2
  <2>4. exchanges'[n] = x /\ \A i \in DOMAIN exchanges : exchanges'[i] = exchanges[i]
    BY <2>1, <2>2
  <2> QED
    BY <2>2, <2>3, <2>4
<1>2. IsFiniteSet(S) /\ n \notin S
  <2>1. IsFiniteSet(S)
    BY ExchangedNat
  <2>2. n \notin S
    BY <1>1
  <2> QED
    BY <2>1, <2>2
<1>3. Exchanged(u, types) = Cardinality(S)
  BY DEF Exchanged
<1>4. CASE x.user = u /\ x.type \in types
  <2>1. {i \in DOMAIN exchanges' : exchanges'[i].user = u /\ exchanges'[i].type \in types} = S \cup {n}
    BY <1>1, <1>4
  <2>2. Cardinality(S \cup {n}) = Cardinality(S) + 1
    BY <1>2, FS_AddElement
  <2> QED
    BY <1>3, <1>4, <2>1, <2>2 DEF Exchanged
<1>5. CASE ~(x.user = u /\ x.type \in types)
  <2>1. {i \in DOMAIN exchanges' : exchanges'[i].user = u /\ exchanges'[i].type \in types} = S
    BY <1>1, <1>5
  <2> QED
    BY <1>3, <1>5, <2>1 DEF Exchanged
<1> QED
  BY <1>4, <1>5

\* What a balance is the sum of are numbers.
LEMMA MoneyTyped ==
  ASSUME ReferralTypeOK, NEW u \in Members
  PROVE  /\ \A type \in RewardTypes : MovedTo(u, type) \in Int
         /\ MovedTo(u, "POINTS") \in Int /\ MovedTo(u, "EXTRA_DAYS") \in Int
         /\ adjusted[u].given \in Int /\ adjusted[u].taken \in Int
         /\ \A types : Exchanged(u, types) \in Nat
         /\ Cost * Exchanged(u, ExchangeTypes) \in Int
         /\ Days * Exchanged(u, {"SUBSCRIPTION_DAYS"}) \in Int
         /\ situation.points \in Int /\ Opening \in Int /\ Cost \in Int /\ Days \in Int
<1>1. \A type \in RewardTypes : MovedTo(u, type) \in Int
  BY RowsFinite DEF ReferralTypeOK
<1>2. adjusted[u].given \in Int /\ adjusted[u].taken \in Int
  BY DEF ReferralTypeOK
<1>3. \A types : Exchanged(u, types) \in Nat
  BY ExchangedNat
<1>4. Cost \in Int /\ Days \in Int /\ Opening \in Int
  BY ReferralAssumption
<1>5. situation.points \in Int
  BY ReferralScenarioAssumption DEF ReferralTypeOK
<1>6. \A i, j \in Int : i * j \in Int
  OBVIOUS
<1>7. \A types : Cost * Exchanged(u, types) \in Int /\ Days * Exchanged(u, types) \in Int
  BY <1>3, <1>4, <1>6
<1> QED
  BY <1>1, <1>2, <1>3, <1>4, <1>5, <1>7 DEF RewardTypes

-----------------------------------------------------------------------------
(* Each action keeps the invariant                                         *)

\* Starting a handler uses up one of its starts.
LEMMA MayTyped ==
  ASSUME ReferralTypeOK, NEW h \in Handlers, May(h)
  PROVE  spent' \in [Handlers \cup {"faults"} -> Nat]
BY DEF ReferralTypeOK, May

\* Only a worker and its bounds change.
LEMMA QuietKeeps ==
  ASSUME ReferralInv, UNCHANGED <<situation, programme, points, expires, exchanges, history>>,
         pc' \in [Callers -> Steps], work' \in [Callers -> Work],
         spent' \in [Handlers \cup {"faults"} -> Nat], AtWork'
  PROVE  ReferralInv'
<1>1. UNCHANGED <<qualified, rewards, answers, adjusted, undone, torn, lost>>
  BY DEF programme, history
<1>2. ReferralTypeOK'
  BY <1>1 DEF ReferralInv, ReferralTypeOK
<1>3. EdgesInv'
  BY <1>1, EdgesFrame DEF ReferralInv
<1>4. RowsKept /\ \A u, type : MovedTo(u, type)' = MovedTo(u, type)
  BY <1>1, RowsFrame
<1>5. PointsMoved' /\ DaysMoved'
  BY <1>1, <1>4, MoneyFrame DEF ReferralInv
<1>6. OnlyTakenBackOverdraws'
  BY <1>1, <1>4, OverdrawsFrame DEF ReferralInv
<1>7. KeysInv'
  BY <1>1, KeysFrame DEF ReferralInv
<1> QED
  BY <1>2, <1>3, <1>5, <1>6, <1>7 DEF ReferralInv

\* A reversal reads its edge and rows.
LEMMA ReverseBeginKeeps ==
  ASSUME ReferralInv, NEW w \in Callers, NEW t \in Payments, ReverseBegin(w, t)
  PROVE  ReferralInv'
<1>1. PICK e \in Edges :
        LET rows == {i \in DOMAIN rewards : rewards[i].edge = e /\ Reversible(rewards[i])}
            issued == {i \in rows : rewards[i].issued}
        IN  /\ qualified[e] = t
            /\ Take(w, "reverse", IF DaysRows(issued) = {} THEN "write" ELSE "undo",
                    [Nothing EXCEPT !.on = t, !.of = e, !.rows = rows, !.issued = issued])
            /\ UNCHANGED <<situation, programme, points, expires, exchanges, history>>
  BY DEF ReverseBegin
<1> DEFINE rows == {i \in DOMAIN rewards : rewards[i].edge = e /\ Reversible(rewards[i])}
           issued == {i \in rows : rewards[i].issued}
           step == IF DaysRows(issued) = {} THEN "write" ELSE "undo"
           x == [Nothing EXCEPT !.on = t, !.of = e, !.rows = rows, !.issued = issued]
<1>2. rows \in SUBSET Nat /\ issued \in SUBSET Nat /\ step \in {"write", "undo"}
  BY DEF ReferralInv, ReferralTypeOK
<1>3. /\ \A i \in rows : i \in DOMAIN rewards /\ rewards[i].edge = e
      /\ \A i \in issued : i \in rows /\ rewards[i].issued
  OBVIOUS
<1>4. Nothing \in Work
  BY DEF Nothing, Work
<1> HIDE DEF rows, issued, step
<1>5. x \in Work /\ x.on = t /\ x.of = e /\ x.rows = rows /\ x.issued = issued
  BY <1>2, <1>4 DEF Work
<1>6. /\ pc' = [pc EXCEPT ![w] = step] /\ work' = [work EXCEPT ![w] = x] /\ May("reverse")
      /\ UNCHANGED <<situation, programme, points, expires, exchanges, history>>
  BY <1>1 DEF Take, GoOn, rows, issued, step
<1> HIDE DEF x
<1>7. /\ pc' \in [Callers -> Steps] /\ work' \in [Callers -> Work]
      /\ pc'[w] = step /\ work'[w] = x
  BY <1>2, <1>5, <1>6 DEF ReferralInv, ReferralTypeOK, Steps
<1>8. rewards' = rewards /\ RowsKept
  BY <1>6, RowsFrame DEF programme
<1>9. Payer[t] = e
  BY <1>1 DEF ReferralInv, EdgesInv, QualifiedByPayer
<1>10. Holds(w)'
  BY <1>2, <1>3, <1>5, <1>7, <1>8, <1>9 DEF Holds, Reversing
<1>11. AtWork'
  BY <1>2, <1>6, <1>8, <1>10, WorkStep DEF ReferralInv, Steps
<1> QED
  BY <1>6, <1>7, <1>11, MayTyped, QuietKeeps DEF ReferralInv, Handlers

\* A reversal reads the subscriptions.
LEMMA ReverseReadKeeps ==
  ASSUME ReferralInv, NEW w \in Callers, ReverseRead(w)
  PROVE  ReferralInv'
<1> DEFINE x == [work[w] EXCEPT !.read = expires]
<1>1. /\ work[w] \in Work /\ expires \in [Members -> Int] /\ pc[w] = "undo"
      /\ pc' = [pc EXCEPT ![w] = "write"] /\ work' = [work EXCEPT ![w] = x]
      /\ UNCHANGED <<situation, programme, points, expires, exchanges, history, spent>>
  BY DEF ReverseRead, GoOn, ReferralInv, ReferralTypeOK
<1>2. /\ x \in Work /\ x.on = work[w].on /\ x.of = work[w].of
      /\ x.rows = work[w].rows /\ x.issued = work[w].issued
  BY <1>1 DEF Work
<1> HIDE DEF x
<1>3. /\ pc' \in [Callers -> Steps] /\ work' \in [Callers -> Work]
      /\ pc'[w] = "write" /\ work'[w] = x
  BY <1>1, <1>2 DEF ReferralInv, ReferralTypeOK, Steps
<1>4. rewards' = rewards /\ RowsKept
  BY <1>1, RowsFrame DEF programme
<1>5. Holds(w)'
  BY <1>1, <1>2, <1>3, <1>4 DEF Holds, Reversing, ReferralInv, AtWork
<1>6. AtWork'
  BY <1>1, <1>4, <1>5, WorkStep DEF ReferralInv, Steps
<1>7. spent' \in [Handlers \cup {"faults"} -> Nat]
  BY <1>1 DEF ReferralInv, ReferralTypeOK
<1> QED
  BY <1>1, <1>3, <1>6, <1>7, QuietKeeps

\* A reversal that throws changes nothing.
LEMMA ReverseFailKeeps ==
  ASSUME ReferralInv, NEW w \in Callers, ReverseFail(w)
  PROVE  ReferralInv'
<1>1. rewards' = rewards /\ RowsKept
  BY RowsFrame DEF ReverseFail, programme
<1>2. AtWork' /\ pc' \in [Callers -> Steps] /\ work' \in [Callers -> Work]
  BY <1>1, WorkDone DEF ReverseFail, ReferralInv
<1>3. spent' \in [Handlers \cup {"faults"} -> Nat]
  BY DEF ReverseFail, ReferralInv, ReferralTypeOK
<1> QED
  BY <1>2, <1>3, QuietKeeps DEF ReverseFail

\* A correction is checked against the balance that was loaded.
LEMMA AdjustBeginKeeps ==
  ASSUME ReferralInv, NEW w \in Callers, NEW u \in Members, NEW by \in {-Cost, Cost},
         AdjustBegin(w, u, by)
  PROVE  ReferralInv'
<1> DEFINE x == [Nothing EXCEPT !.on = u, !.read[u] = by]
<1>1. by \in Int
  BY ReferralAssumption
<1>2. x \in Work /\ x.on = u
  <2> DEFINE read == [Nothing.read EXCEPT ![u] = by]
             y == [Nothing EXCEPT !.on = u, !.read = read]
  <2>1. Nothing \in Work
    BY DEF Nothing, Work
  <2>2. Nothing.read \in [Members -> Int]
    BY DEF Nothing
  <2>3. read \in [Members -> Int]
    BY <1>1, <2>2
  <2>4. x = y
    OBVIOUS
  <2> HIDE DEF read
  <2>5. y \in Work /\ y.on = u
    BY <2>1, <2>3 DEF Work
  <2> HIDE DEF x, y
  <2> QED
    BY <2>4, <2>5
<1>3. /\ pc' = [pc EXCEPT ![w] = "adjust"] /\ work' = [work EXCEPT ![w] = x] /\ May("adjust")
      /\ UNCHANGED <<situation, programme, points, expires, exchanges, history>>
  BY DEF AdjustBegin, Take, GoOn
<1> HIDE DEF x
<1>4. /\ pc' \in [Callers -> Steps] /\ work' \in [Callers -> Work]
      /\ pc'[w] = "adjust" /\ work'[w] = x
  BY <1>2, <1>3 DEF ReferralInv, ReferralTypeOK, Steps
<1>5. rewards' = rewards /\ RowsKept
  BY <1>3, RowsFrame DEF programme
<1>6. Holds(w)'
  BY <1>2, <1>4 DEF Holds, Reversing
<1>7. AtWork'
  BY <1>3, <1>5, <1>6, WorkStep DEF ReferralInv, Steps
<1> QED
  BY <1>3, <1>4, <1>7, MayTyped, QuietKeeps DEF ReferralInv, Handlers

\* A captured payment qualifies its edge, unless it is qualified.
LEMMA QualifyKeeps ==
  ASSUME ReferralInv, NEW t \in Payments, Qualify(t)
  PROVE  ReferralInv'
<1> DEFINE e == Payer[t]
<1>1. /\ e \in Edges /\ May("qualify") /\ UNCHANGED <<situation, pc, work>>
      /\ UNCHANGED <<points, expires, exchanges, answers, adjusted, torn, lost>>
  BY DEF Qualify, AtOnce
<1>2. spent' \in [Handlers \cup {"faults"} -> Nat]
  BY <1>1, MayTyped DEF ReferralInv, Handlers
<1>3. /\ EdgesInv' /\ RowsKept /\ rewards' \in Seq(RewardRow) /\ undone' \subseteq Payments
      /\ qualified' \in [Edges -> Payments \cup {"NONE", "MANUAL"}]
      /\ \A u, type : MovedTo(u, type)' = MovedTo(u, type)
  <2>1. CASE IsQualified(e)
    <3>1. UNCHANGED <<qualified, rewards, torn, undone>>
      BY <1>1, <2>1 DEF Qualify, programme
    <3> QED
      BY <3>1, EdgesFrame, RowsFrame DEF ReferralInv, ReferralTypeOK
  <2>2. CASE ~IsQualified(e)
    <3>1. /\ qualified' = [qualified EXCEPT ![e] = t] /\ torn' = torn
          /\ rewards' = rewards \o ConfiguredRewards(e, t) /\ undone' = undone \ {t}
      BY <1>1, <2>2 DEF Qualify
    <3>2. EdgesInv' /\ Grown(ConfiguredRewards(e, t))
      BY <1>1, <2>2, <3>1, EdgesQualified DEF ReferralInv
    <3>3. rewards \in Seq(RewardRow) /\ qualified \in [Edges -> Payments \cup {"NONE", "MANUAL"}]
          /\ undone \subseteq Payments
      BY DEF ReferralInv, ReferralTypeOK
    <3>4. RowsKept /\ rewards' \in Seq(RewardRow)
      BY <3>2, <3>3, GrownRows
    <3>5. \A u, type : MovedTo(u, type)' = MovedTo(u, type)
      BY <3>2, <3>3, MovedGrown
    <3> QED
      BY <3>1, <3>2, <3>3, <3>4, <3>5
  <2> QED
    BY <2>1, <2>2
<1> HIDE DEF e
<1>4. ReferralTypeOK'
  BY <1>1, <1>2, <1>3 DEF ReferralInv, ReferralTypeOK
<1>5. AtWork'
  BY <1>1, <1>3, WorkFrame DEF ReferralInv
<1>6. PointsMoved' /\ DaysMoved'
  BY <1>1, <1>3, MoneyFrame DEF ReferralInv
<1>7. OnlyTakenBackOverdraws'
  BY <1>1, <1>3, OverdrawsFrame DEF ReferralInv
<1>8. KeysInv'
  BY <1>1, KeysFrame DEF ReferralInv
<1> QED
  BY <1>3, <1>4, <1>5, <1>6, <1>7, <1>8 DEF ReferralInv

\* So does an operator.
LEMMA QualifyManuallyKeeps ==
  ASSUME ReferralInv, NEW e \in Edges, QualifyManually(e)
  PROVE  ReferralInv'
<1>1. /\ May("manual") /\ UNCHANGED <<situation, pc, work>>
      /\ UNCHANGED <<points, expires, exchanges, answers, adjusted, undone, torn, lost>>
      /\ qualified' = [qualified EXCEPT ![e] = "MANUAL"] /\ ~IsQualified(e)
      /\ rewards' = rewards \o ConfiguredRewards(e, "MANUAL")
  BY DEF QualifyManually, AtOnce, history
<1>2. spent' \in [Handlers \cup {"faults"} -> Nat]
  BY <1>1, MayTyped DEF ReferralInv, Handlers
<1>3. /\ rewards \in Seq(RewardRow) /\ qualified \in [Edges -> Payments \cup {"NONE", "MANUAL"}]
      /\ undone \subseteq Payments
  BY DEF ReferralInv, ReferralTypeOK
<1>4. "MANUAL" \notin Payments
  BY ReferralAssumption
<1>5. undone' = undone \ {"MANUAL"}
  BY <1>1, <1>3, <1>4
<1>6. EdgesInv' /\ Grown(ConfiguredRewards(e, "MANUAL"))
  BY <1>1, <1>4, <1>5, EdgesQualified DEF ReferralInv
<1>7. RowsKept /\ rewards' \in Seq(RewardRow)
  BY <1>3, <1>6, GrownRows
<1>8. \A u, type : MovedTo(u, type)' = MovedTo(u, type)
  BY <1>3, <1>6, MovedGrown
<1>9. ReferralTypeOK'
  BY <1>1, <1>2, <1>3, <1>7 DEF ReferralInv, ReferralTypeOK
<1>10. AtWork'
  BY <1>1, <1>7, WorkFrame DEF ReferralInv
<1>11. PointsMoved' /\ DaysMoved'
  BY <1>1, <1>8, MoneyFrame DEF ReferralInv
<1>12. OnlyTakenBackOverdraws'
  BY <1>1, <1>7, OverdrawsFrame DEF ReferralInv
<1>13. KeysInv'
  BY <1>1, KeysFrame DEF ReferralInv
<1> QED
  BY <1>6, <1>9, <1>10, <1>11, <1>12, <1>13 DEF ReferralInv

\* An operator grants a reward.
LEMMA GrantKeeps ==
  ASSUME ReferralInv, NEW e \in Edges, NEW u \in Members, NEW type \in RewardTypes,
         GrantReward(e, u, type)
  PROVE  ReferralInv'
<1> DEFINE r == Reward(e, u, 1, type, e, "OPERATOR")
<1>1. /\ May("grant") /\ UNCHANGED <<situation, pc, work, qualified>>
      /\ UNCHANGED <<points, expires, exchanges, answers, adjusted, undone, torn, lost>>
      /\ rewards' = Append(rewards, r)
  BY DEF GrantReward, AtOnce, history
<1>2. spent' \in [Handlers \cup {"faults"} -> Nat]
  BY <1>1, MayTyped DEF ReferralInv, Handlers
<1>3. r \in RewardRow /\ Fresh(r) /\ r.by = "OPERATOR"
  <2>1. 1 \in Nat \ {0} /\ "OPERATOR" \in Payments \cup {"MANUAL", "OPERATOR"}
    OBVIOUS
  <2> QED
    BY <2>1, RewardTyped
<1> HIDE DEF r
<1>4. EdgesInv' /\ Grown(<<r>>)
  BY <1>1, <1>3, EdgesGranted DEF ReferralInv
<1>5. rewards \in Seq(RewardRow)
  BY DEF ReferralInv, ReferralTypeOK
<1>6. RowsKept /\ rewards' \in Seq(RewardRow)
  BY <1>4, <1>5, GrownRows
<1>7. \A v, k : MovedTo(v, k)' = MovedTo(v, k)
  BY <1>4, <1>5, MovedGrown
<1>8. ReferralTypeOK'
  BY <1>1, <1>2, <1>6 DEF ReferralInv, ReferralTypeOK
<1>9. AtWork'
  BY <1>1, <1>6, WorkFrame DEF ReferralInv
<1>10. PointsMoved' /\ DaysMoved'
  BY <1>1, <1>7, MoneyFrame DEF ReferralInv
<1>11. OnlyTakenBackOverdraws'
  BY <1>1, <1>6, OverdrawsFrame DEF ReferralInv
<1>12. KeysInv'
  BY <1>1, KeysFrame DEF ReferralInv
<1> QED
  BY <1>4, <1>8, <1>9, <1>10, <1>11, <1>12 DEF ReferralInv

\* An operator revokes what was not issued.
LEMMA RevokeKeeps ==
  ASSUME ReferralInv, NEW i \in DOMAIN rewards, Revoke(i)
  PROVE  ReferralInv'
<1>1. /\ May("revoke") /\ UNCHANGED <<situation, pc, work, qualified>>
      /\ UNCHANGED <<points, expires, exchanges, answers, adjusted, undone, torn, lost>>
      /\ rewards' = [rewards EXCEPT ![i].revoked = TRUE] /\ ~rewards[i].issued
  BY DEF Revoke, AtOnce, history
<1>2. spent' \in [Handlers \cup {"faults"} -> Nat]
  BY <1>1, MayTyped DEF ReferralInv, Handlers
<1>3. rewards \in Seq(RewardRow)
  BY DEF ReferralInv, ReferralTypeOK
<1>4. RowsKept /\ rewards' \in Seq(RewardRow)
  BY <1>1, <1>3, RevokedRows
<1>5. EdgesInv'
  BY <1>1, <1>3, EdgesRevoked DEF ReferralInv
<1>6. \A v, k : MovedTo(v, k)' = MovedTo(v, k)
  BY <1>1, <1>3, MovedRevoked
<1>7. ReferralTypeOK'
  BY <1>1, <1>2, <1>4 DEF ReferralInv, ReferralTypeOK
<1>8. AtWork'
  BY <1>1, <1>4, WorkFrame DEF ReferralInv
<1>9. PointsMoved' /\ DaysMoved'
  BY <1>1, <1>6, MoneyFrame DEF ReferralInv
<1>10. OnlyTakenBackOverdraws'
  BY <1>1, <1>4, OverdrawsFrame DEF ReferralInv
<1>11. KeysInv'
  BY <1>1, KeysFrame DEF ReferralInv
<1> QED
  BY <1>5, <1>7, <1>8, <1>9, <1>10, <1>11 DEF ReferralInv

\* What a user who is overdrawn has lost: a row, or points an operator took.
LEMMA Overdrawn ==
  ASSUME OnlyTakenBackOverdraws, RowsKept, NEW u \in Members, points[u] < 0,
         adjusted'[u].taken > 0 \/ adjusted'[u] = adjusted[u]
  PROVE  \/ adjusted'[u].taken > 0
         \/ \E i \in DOMAIN rewards' :
               rewards'[i].user = u /\ rewards'[i].issued /\ rewards'[i].revoked
BY DEF OnlyTakenBackOverdraws, RowsKept

\* An operator issues a row: points, or days.
LEMMA IssueKeeps ==
  ASSUME ReferralInv, NEW i \in DOMAIN rewards, IssueReward(i)
  PROVE  ReferralInv'
<1> DEFINE r == rewards[i]
<1>1. /\ May("issue") /\ UNCHANGED <<situation, pc, work, qualified>>
      /\ UNCHANGED <<exchanges, answers, adjusted, undone, torn>>
      /\ Issuable(r)
      /\ rewards' = [rewards EXCEPT ![i] = [r EXCEPT !.issued = TRUE, !.moved = @ + r.amount]]
  BY DEF IssueReward, AtOnce
<1>2. \/ /\ r.type = "POINTS" /\ points' = [points EXCEPT ![r.user] = @ + r.amount]
         /\ UNCHANGED <<expires, lost>>
      \/ /\ r.type # "POINTS" /\ expires' = [expires EXCEPT ![r.user] = Extended(r.user, r.amount)]
         /\ lost' = (IF expires[r.user] < 0 THEN lost \cup {r.user} ELSE lost)
         /\ UNCHANGED points
  BY DEF IssueReward, BeginsAnew
<1>3. spent' \in [Handlers \cup {"faults"} -> Nat]
  BY <1>1, MayTyped DEF ReferralInv, Handlers
<1>4. rewards \in Seq(RewardRow) /\ points \in [Members -> Int] /\ expires \in [Members -> Int]
  BY DEF ReferralInv, ReferralTypeOK
<1>5. r.user \in Members /\ r.amount \in Nat \ {0} /\ r.type \in RewardTypes
  <2>1. r \in RewardRow
    BY <1>4
  <2> QED
    BY <2>1 DEF RewardRow
<1>6. RowsKept /\ rewards' \in Seq(RewardRow)
  BY <1>1, <1>4, IssuedRows
<1>7. EdgesInv'
  BY <1>1, <1>4, EdgesIssued DEF ReferralInv
<1>8. \A u, type : MovedTo(u, type)' = IF r.user = u /\ r.type = type
                                       THEN MovedTo(u, type) + r.amount ELSE MovedTo(u, type)
  BY <1>1, <1>4, MovedIssued
<1> HIDE DEF r
<1>9. ReferralTypeOK'
  <2>1. /\ points' \in [Members -> Int] /\ expires' \in [Members -> Int] /\ lost' \subseteq Members
    <3>1. lost \subseteq Members
      BY DEF ReferralInv, ReferralTypeOK
    <3>2. Extended(r.user, r.amount) \in Int
      BY <1>4, <1>5 DEF Extended, LaterOf
    <3>3. points[r.user] + r.amount \in Int
      BY <1>4, <1>5
    <3> QED
      BY <1>2, <1>4, <1>5, <3>1, <3>2, <3>3
  <2> QED
    BY <1>1, <1>3, <1>6, <2>1 DEF ReferralInv, ReferralTypeOK
<1>10. AtWork'
  BY <1>1, <1>6, WorkFrame DEF ReferralInv
<1>11. \A u, types : Exchanged(u, types)' = Exchanged(u, types)
  BY <1>1 DEF Exchanged
<1>12. PointsMoved'
  <2> SUFFICES ASSUME NEW u \in Members
               PROVE  points'[u] = situation.points + MovedTo(u, "POINTS")'
                                     + adjusted[u].given - adjusted[u].taken
                                     - Cost * Exchanged(u, ExchangeTypes)
    BY <1>1, <1>11 DEF PointsMoved
  <2> DEFINE m == MovedTo(u, "POINTS")
             c == adjusted[u].given
             d == adjusted[u].taken
             x == Cost * Exchanged(u, ExchangeTypes)
             p == situation.points
  <2>1. points[u] = p + m + c - d - x
    BY DEF ReferralInv, PointsMoved
  <2>2. m \in Int /\ c \in Int /\ d \in Int /\ x \in Int /\ p \in Int
    BY MoneyTyped DEF ReferralInv
  <2>3. m' = IF r.user = u /\ r.type = "POINTS" THEN m + r.amount ELSE m
    BY <1>8
  <2>4. points'[u] = IF r.user = u /\ r.type = "POINTS" THEN points[u] + r.amount ELSE points[u]
    BY <1>2, <1>4, <1>5
  <2> HIDE DEF m, c, d, x, p
  <2>5. points'[u] = p + m' + c - d - x
    BY <1>5, <2>1, <2>2, <2>3, <2>4
  <2> QED
    BY <2>5 DEF m, c, d, x, p
<1>13. DaysMoved'
  <2> SUFFICES ASSUME NEW u \in Members \ lost'
               PROVE  expires'[u] = Opening + MovedTo(u, "EXTRA_DAYS")'
                                      + Days * Exchanged(u, {"SUBSCRIPTION_DAYS"})
    BY <1>1, <1>11 DEF DaysMoved
  <2> DEFINE m == MovedTo(u, "EXTRA_DAYS")
             x == Days * Exchanged(u, {"SUBSCRIPTION_DAYS"})
  <2>1. u \notin lost
    BY <1>2
  <2>2. expires[u] = Opening + m + x
    BY <2>1 DEF ReferralInv, DaysMoved
  <2>3. m \in Int /\ x \in Int /\ Opening \in Int
    BY MoneyTyped DEF ReferralInv
  <2>4. m' = IF r.user = u /\ r.type = "EXTRA_DAYS" THEN m + r.amount ELSE m
    BY <1>8
  <2>5. expires'[u] = IF r.user = u /\ r.type = "EXTRA_DAYS" THEN expires[u] + r.amount
                      ELSE expires[u]
    <3>1. r.type = "POINTS" \/ r.type = "EXTRA_DAYS"
      BY <1>5 DEF RewardTypes
    <3>2. CASE r.type = "POINTS"
      BY <1>2, <3>2
    <3>3. CASE r.type = "EXTRA_DAYS"
      <4>1. /\ expires' = [expires EXCEPT ![r.user] = Extended(r.user, r.amount)]
            /\ expires[r.user] < 0 => r.user \in lost'
        BY <1>2, <3>3
      <4>2. CASE u = r.user
        <5>1. Extended(u, r.amount) = expires[u] + r.amount
          BY <1>4, <1>5, <4>1, <4>2 DEF Extended, LaterOf
        <5> QED
          BY <1>4, <3>3, <4>1, <4>2, <5>1
      <4>3. CASE u # r.user
        BY <1>4, <4>1, <4>3
      <4> QED
        BY <4>2, <4>3
    <3> QED
      BY <3>1, <3>2, <3>3
  <2> HIDE DEF m, x
  <2>6. expires'[u] = Opening + m' + x
    BY <1>5, <2>2, <2>3, <2>4, <2>5
  <2> QED
    BY <2>6 DEF m, x
<1>14. OnlyTakenBackOverdraws'
  <2> SUFFICES ASSUME NEW u \in Members, points'[u] < 0
               PROVE  \/ adjusted'[u].taken > 0
                      \/ \E j \in DOMAIN rewards' :
                           rewards'[j].user = u /\ rewards'[j].issued /\ rewards'[j].revoked
    BY DEF OnlyTakenBackOverdraws
  <2>1. points[u] < 0
    BY <1>2, <1>4, <1>5
  <2> QED
    BY <1>1, <1>6, <2>1, Overdrawn DEF ReferralInv
<1>15. KeysInv'
  BY <1>1, KeysFrame DEF ReferralInv
<1> QED
  BY <1>7, <1>9, <1>10, <1>12, <1>13, <1>14, <1>15 DEF ReferralInv

\* A reversal writes what it has read.
LEMMA ReverseWriteKeeps ==
  ASSUME ReferralInv, NEW w \in Callers, ReverseWrite(w)
  PROVE  ReferralInv'
<1> DEFINE x == work[w]
           p(u) == Back(w, "POINTS", u)
           d(u) == Back(w, "EXTRA_DAYS", u)
<1>1. /\ pc[w] = "write" /\ Done(w)
      /\ points' = [u \in Members |-> points[u] - p(u)]
      /\ expires' = [u \in Members |-> IF d(u) > 0 THEN x.read[u] - d(u) ELSE expires[u]]
      /\ qualified' = [qualified EXCEPT ![x.of] = "NONE"]
      /\ undone' = undone \cup {x.on}
      /\ torn' = (IF Overtaken(w) THEN torn \cup {x.of} ELSE torn)
      /\ lost' = lost \cup {u \in Members : d(u) > 0 /\ expires[u] # x.read[u]}
      /\ UNCHANGED <<situation, exchanges, answers, adjusted, spent>>
  BY DEF ReverseWrite, Cleared
<1>2. /\ rewards \in Seq(RewardRow) /\ points \in [Members -> Int] /\ expires \in [Members -> Int]
      /\ x \in Work /\ x.read \in [Members -> Int]
  BY DEF ReferralInv, ReferralTypeOK, Work
<1>3. /\ Holds(w) /\ x.on \in Payments /\ x.of \in Edges
      /\ \A i \in x.issued : i \in x.rows /\ i \in DOMAIN rewards /\ rewards[i].issued
  BY <1>1 DEF ReferralInv, AtWork, Holds, Reversing
<1>4. ASSUME NEW u \in Members
      PROVE  /\ p(u) \in Nat /\ d(u) \in Nat
             /\ p(u) > 0 => \E i \in x.issued : rewards[i].user = u
  BY <1>1, <1>2, <1>3, BackNat
<1>5. /\ rewards' \in Seq(RewardRow) /\ DOMAIN rewards' = DOMAIN rewards /\ RowsKept
      /\ \A i \in x.rows : i \in DOMAIN rewards => rewards'[i].revoked
  BY <1>2, WrittenRows
<1>6. EdgesInv'
  BY EdgesReversed DEF ReferralInv
<1>7. \A u, type : MovedTo(u, type)' = MovedTo(u, type) - Back(w, type, u)
  BY <1>2, <1>3, MovedBack
<1>8. AtWork' /\ pc' \in [Callers -> Steps] /\ work' \in [Callers -> Work]
  BY <1>1, <1>5, WorkDone DEF ReferralInv
<1> HIDE DEF x, p, d
<1>9. ReferralTypeOK'
  <2>1. points' \in [Members -> Int] /\ expires' \in [Members -> Int]
    BY <1>1, <1>2, <1>4
  <2>2. /\ qualified' \in [Edges -> Payments \cup {"NONE", "MANUAL"}]
        /\ undone' \subseteq Payments /\ torn' \subseteq Edges /\ lost' \subseteq Members
    BY <1>1, <1>3 DEF ReferralInv, ReferralTypeOK
  <2> QED
    BY <1>1, <1>5, <1>8, <2>1, <2>2 DEF ReferralInv, ReferralTypeOK
<1>10. \A u, types : Exchanged(u, types)' = Exchanged(u, types)
  BY <1>1 DEF Exchanged
<1>11. PointsMoved'
  <2> SUFFICES ASSUME NEW u \in Members
               PROVE  points'[u] = situation.points + MovedTo(u, "POINTS")'
                                     + adjusted[u].given - adjusted[u].taken
                                     - Cost * Exchanged(u, ExchangeTypes)
    BY <1>1, <1>10 DEF PointsMoved
  <2> DEFINE m == MovedTo(u, "POINTS")
             c == adjusted[u].given
             t == adjusted[u].taken
             y == Cost * Exchanged(u, ExchangeTypes)
             q == situation.points
  <2>1. points[u] = q + m + c - t - y
    BY DEF ReferralInv, PointsMoved
  <2>2. m \in Int /\ c \in Int /\ t \in Int /\ y \in Int /\ q \in Int
    BY MoneyTyped DEF ReferralInv
  <2>3. m' = m - p(u) /\ points'[u] = points[u] - p(u) /\ p(u) \in Int
    BY <1>1, <1>4, <1>7 DEF p
  <2> HIDE DEF m, c, t, y, q
  <2>4. points'[u] = q + m' + c - t - y
    BY <2>1, <2>2, <2>3
  <2> QED
    BY <2>4 DEF m, c, t, y, q
<1>12. DaysMoved'
  <2> SUFFICES ASSUME NEW u \in Members \ lost'
               PROVE  expires'[u] = Opening + MovedTo(u, "EXTRA_DAYS")'
                                      + Days * Exchanged(u, {"SUBSCRIPTION_DAYS"})
    BY <1>1, <1>10 DEF DaysMoved
  <2> DEFINE m == MovedTo(u, "EXTRA_DAYS")
             y == Days * Exchanged(u, {"SUBSCRIPTION_DAYS"})
  <2>1. u \notin lost /\ (d(u) > 0 => expires[u] = x.read[u])
    BY <1>1
  <2>2. expires[u] = Opening + m + y
    BY <2>1 DEF ReferralInv, DaysMoved
  <2>3. m \in Int /\ y \in Int /\ Opening \in Int
    BY MoneyTyped DEF ReferralInv
  <2>4. m' = m - d(u)
    BY <1>7 DEF d
  <2>5. expires'[u] = expires[u] - d(u) /\ d(u) \in Int
    BY <1>1, <1>2, <1>4, <2>1
  <2> HIDE DEF m, y
  <2>6. expires'[u] = Opening + m' + y
    BY <2>2, <2>3, <2>4, <2>5
  <2> QED
    BY <2>6 DEF m, y
<1>13. OnlyTakenBackOverdraws'
  <2> SUFFICES ASSUME NEW u \in Members, points'[u] < 0
               PROVE  \/ adjusted'[u].taken > 0
                      \/ \E j \in DOMAIN rewards' :
                           rewards'[j].user = u /\ rewards'[j].issued /\ rewards'[j].revoked
    BY DEF OnlyTakenBackOverdraws
  <2>1. CASE p(u) > 0
    <3>1. PICK i \in x.issued : rewards[i].user = u
      BY <1>4, <2>1
    <3>2. i \in DOMAIN rewards /\ rewards[i].issued /\ i \in x.rows
      BY <1>3
    <3> QED
      BY <1>5, <3>1, <3>2 DEF RowsKept
  <2>2. CASE ~(p(u) > 0)
    <3>1. points[u] < 0
      BY <1>1, <1>2, <1>4, <2>2
    <3> QED
      BY <1>1, <1>5, <3>1, Overdrawn DEF ReferralInv
  <2> QED
    BY <2>1, <2>2
<1>14. KeysInv'
  BY <1>1, KeysFrame DEF ReferralInv
<1> QED
  BY <1>6, <1>8, <1>9, <1>11, <1>12, <1>13, <1>14 DEF ReferralInv

\* An exchange is answered from the record, or begins.
LEMMA ExchangeBeginKeeps ==
  ASSUME ReferralInv, NEW w \in Callers, NEW u \in Members, NEW k \in Keys \cup {NoKey},
         NEW type \in ExchangeTypes, ExchangeBegin(w, u, k, type)
  PROVE  ReferralInv'
<1>1. UNCHANGED <<situation, qualified, rewards, points, expires, exchanges, adjusted, undone,
                  torn, lost>>
  BY DEF ExchangeBegin, programme
<1>2. rewards' = rewards /\ RowsKept /\ \A v, t : MovedTo(v, t)' = MovedTo(v, t)
  BY <1>1, RowsFrame
<1>3. CASE k # NoKey /\ MadeWith(u, k) # {}
  <2>1. /\ May("exchange") /\ UNCHANGED <<pc, work>>
        /\ answers' = answers \cup {<<u, k, i>> : i \in MadeWith(u, k)}
    BY <1>3 DEF ExchangeBegin, Answer
  <2>2. spent' \in [Handlers \cup {"faults"} -> Nat]
    BY <2>1, MayTyped DEF ReferralInv, Handlers
  <2>3. MadeWith(u, k) \subseteq DOMAIN exchanges /\ k \in Keys
    BY <1>3 DEF MadeWith
  <2>4. answers' \subseteq Members \X Keys \X (DOMAIN exchanges)
    BY <2>1, <2>3 DEF ReferralInv, ReferralTypeOK
  <2>5. ReferralTypeOK'
    BY <1>1, <2>1, <2>2, <2>4 DEF ReferralInv, ReferralTypeOK
  <2>6. AtWork'
    BY <1>2, <2>1, WorkFrame DEF ReferralInv
  <2>7. EdgesInv'
    BY <1>1, EdgesFrame DEF ReferralInv
  <2>8. PointsMoved' /\ DaysMoved'
    BY <1>1, <1>2, MoneyFrame DEF ReferralInv
  <2>9. OnlyTakenBackOverdraws'
    BY <1>1, <1>2, OverdrawsFrame DEF ReferralInv
  <2>10. KeysInv'
    BY <1>1, <2>1 DEF ReferralInv, KeysInv, MadeWith
  <2> QED
    BY <2>5, <2>6, <2>7, <2>8, <2>9, <2>10 DEF ReferralInv
<1>4. CASE ~(k # NoKey /\ MadeWith(u, k) # {})
  <2> DEFINE x == [Nothing EXCEPT !.on = u, !.of = k, !.type = type]
  <2>1. /\ pc' = [pc EXCEPT ![w] = "exchange"] /\ work' = [work EXCEPT ![w] = x]
        /\ May("exchange") /\ answers' = answers
    BY <1>4 DEF ExchangeBegin, Take, GoOn
  <2>2. x \in Work /\ x.on = u /\ x.of = k /\ x.type = type
    <3>1. Nothing \in Work
      BY DEF Nothing, Work
    <3>2. u \in Payments \cup Members \cup {"nothing"} /\ type \in ExchangeTypes \cup {"nothing"}
      OBVIOUS
    <3>3. k \in Edges \cup Keys \cup {NoKey, "nothing"}
      OBVIOUS
    <3> QED
      BY <3>1, <3>2, <3>3 DEF Work
  <2> HIDE DEF x
  <2>3. /\ pc' \in [Callers -> Steps] /\ work' \in [Callers -> Work]
        /\ pc'[w] = "exchange" /\ work'[w] = x
    BY <2>1, <2>2 DEF ReferralInv, ReferralTypeOK, Steps
  <2>4. Holds(w)'
    BY <2>2, <2>3 DEF Holds, Reversing
  <2>5. AtWork'
    BY <1>2, <2>1, <2>4, WorkStep DEF ReferralInv, Steps
  <2> QED
    BY <1>1, <2>1, <2>3, <2>5, MayTyped, QuietKeeps DEF ReferralInv, Handlers, programme, history
<1> QED
  BY <1>3, <1>4

\* An exchange is refused, answered from the record, or made.
LEMMA ExchangeCommitKeeps ==
  ASSUME ReferralInv, NEW w \in Callers, ExchangeCommit(w)
  PROVE  ReferralInv'
<1> DEFINE u == work[w].on
           k == work[w].of
           type == work[w].type
           made == [user |-> u, key |-> k, type |-> type]
<1>1. /\ pc[w] = "exchange" /\ Done(w)
      /\ UNCHANGED <<situation, qualified, rewards, adjusted, undone, torn, spent>>
      /\ \/ UNCHANGED <<points, expires, exchanges, answers, lost>>
         \/ /\ Collides(u, k) /\ Answer(u, k, MadeWith(u, k))
            /\ UNCHANGED <<points, expires, exchanges, lost>>
         \/ /\ Affords(u) /\ ~Collides(u, k)
            /\ points' = [points EXCEPT ![u] = @ - Cost]
            /\ IF type = "SUBSCRIPTION_DAYS"
               THEN expires' = [expires EXCEPT ![u] = Extended(u, Days)] /\ BeginsAnew(u)
               ELSE UNCHANGED <<expires, lost>>
            /\ exchanges' = Append(exchanges, made)
            /\ IF k = NoKey THEN UNCHANGED answers ELSE Answer(u, k, {Len(exchanges')})
  BY DEF ExchangeCommit, programme
<1>2. u \in Members /\ k \in Keys \cup {NoKey} /\ type \in ExchangeTypes
  BY <1>1 DEF ReferralInv, AtWork, Holds
<1>3. rewards' = rewards /\ RowsKept /\ \A v, t : MovedTo(v, t)' = MovedTo(v, t)
  BY <1>1, RowsFrame
<1>4. AtWork' /\ pc' \in [Callers -> Steps] /\ work' \in [Callers -> Work]
  BY <1>1, <1>3, WorkDone DEF ReferralInv
<1>5. EdgesInv'
  BY <1>1, EdgesFrame DEF ReferralInv
<1>6. /\ points \in [Members -> Int] /\ expires \in [Members -> Int] /\ lost \subseteq Members
      /\ answers \subseteq Members \X Keys \X (DOMAIN exchanges)
      /\ exchanges \in Seq([user : Members, key : Keys \cup {NoKey}, type : ExchangeTypes])
      /\ Cost \in Nat \ {0} /\ Days \in Nat \ {0}
  BY ReferralAssumption DEF ReferralInv, ReferralTypeOK
<1> HIDE DEF u, k, type, made
<1>7. CASE UNCHANGED <<points, expires, exchanges, answers, lost>>
  <2>1. ReferralTypeOK'
    BY <1>1, <1>4, <1>7 DEF ReferralInv, ReferralTypeOK
  <2>2. PointsMoved' /\ DaysMoved'
    BY <1>1, <1>3, <1>7, MoneyFrame DEF ReferralInv
  <2>3. OnlyTakenBackOverdraws'
    BY <1>1, <1>3, <1>7, OverdrawsFrame DEF ReferralInv
  <2>4. KeysInv'
    BY <1>7, KeysFrame DEF ReferralInv
  <2> QED
    BY <1>4, <1>5, <2>1, <2>2, <2>3, <2>4 DEF ReferralInv
<1>8. CASE /\ Collides(u, k) /\ Answer(u, k, MadeWith(u, k))
           /\ UNCHANGED <<points, expires, exchanges, lost>>
  <2>1. /\ answers' = answers \cup {<<u, k, i>> : i \in MadeWith(u, k)}
        /\ MadeWith(u, k) \subseteq DOMAIN exchanges /\ k \in Keys
    BY <1>2, <1>8 DEF Collides, Answer, MadeWith
  <2>2. answers' \subseteq Members \X Keys \X (DOMAIN exchanges)
    BY <1>2, <1>6, <2>1
  <2>3. ReferralTypeOK'
    BY <1>1, <1>4, <1>8, <2>2 DEF ReferralInv, ReferralTypeOK
  <2>4. PointsMoved' /\ DaysMoved'
    BY <1>1, <1>3, <1>8, MoneyFrame DEF ReferralInv
  <2>5. OnlyTakenBackOverdraws'
    BY <1>1, <1>3, <1>8, OverdrawsFrame DEF ReferralInv
  <2>6. KeysInv'
    BY <1>8, <2>1 DEF ReferralInv, KeysInv, MadeWith
  <2> QED
    BY <1>4, <1>5, <2>3, <2>4, <2>5, <2>6 DEF ReferralInv
<1>9. CASE /\ Affords(u) /\ ~Collides(u, k)
           /\ points' = [points EXCEPT ![u] = @ - Cost]
           /\ IF type = "SUBSCRIPTION_DAYS"
              THEN expires' = [expires EXCEPT ![u] = Extended(u, Days)] /\ BeginsAnew(u)
              ELSE UNCHANGED <<expires, lost>>
           /\ exchanges' = Append(exchanges, made)
           /\ IF k = NoKey THEN UNCHANGED answers ELSE Answer(u, k, {Len(exchanges')})
  <2> DEFINE n == Len(exchanges) + 1
  <2>1. /\ made \in [user : Members, key : Keys \cup {NoKey}, type : ExchangeTypes]
        /\ made.user = u /\ made.key = k /\ made.type = type
    BY <1>2 DEF made
  <2>2. /\ exchanges' \in Seq([user : Members, key : Keys \cup {NoKey}, type : ExchangeTypes])
        /\ Len(exchanges') = n /\ DOMAIN exchanges' = DOMAIN exchanges \cup {n}
        /\ n \notin DOMAIN exchanges /\ exchanges'[n] = made
        /\ \A i \in DOMAIN exchanges : exchanges'[i] = exchanges[i]
    BY <1>6, <1>9, <2>1
  <2>3. answers' = IF k = NoKey THEN answers ELSE answers \cup {<<u, k, n>>}
    BY <1>9, <2>2 DEF Answer
  <2>4. NoKey \notin Keys
    BY ReferralAssumption
  <2>5. answers' \subseteq Members \X Keys \X (DOMAIN exchanges')
    BY <1>2, <1>6, <2>2, <2>3
  <2>6. Affords(u) => points[u] >= Cost
    BY DEF Affords
  <2>7. expires' \in [Members -> Int] /\ lost' \subseteq Members
    <3>1. Extended(u, Days) \in Int
      BY <1>2, <1>6 DEF Extended, LaterOf
    <3> QED
      BY <1>2, <1>6, <1>9, <3>1 DEF BeginsAnew
  <2>8. points' \in [Members -> Int]
    BY <1>2, <1>6, <1>9
  <2>9. ReferralTypeOK'
    BY <1>1, <1>4, <2>2, <2>5, <2>7, <2>8 DEF ReferralInv, ReferralTypeOK
  <2>10. \A v, types : Exchanged(v, types)' =
             IF u = v /\ type \in types THEN Exchanged(v, types) + 1 ELSE Exchanged(v, types)
    BY <1>9, <2>1, ExchangedGrows DEF ReferralInv
  <2>11. \A c, i \in Int : c * (i + 1) = c * i + c
    OBVIOUS
  <2>12. PointsMoved'
    <3> SUFFICES ASSUME NEW v \in Members
                 PROVE  points'[v] = situation.points + MovedTo(v, "POINTS")
                                       + adjusted[v].given - adjusted[v].taken
                                       - Cost * Exchanged(v, ExchangeTypes)'
      BY <1>1, <1>3 DEF PointsMoved
    <3> DEFINE m == MovedTo(v, "POINTS")
               c == adjusted[v].given
               d == adjusted[v].taken
               e == Exchanged(v, ExchangeTypes)
               p == situation.points
    <3>1. points[v] = p + m + c - d - Cost * e
      BY DEF ReferralInv, PointsMoved
    <3>2. /\ m \in Int /\ c \in Int /\ d \in Int /\ e \in Int /\ p \in Int /\ Cost \in Int
          /\ Cost * e \in Int
      BY MoneyTyped DEF ReferralInv
    <3>3. e' = IF u = v THEN e + 1 ELSE e
      BY <1>2, <2>10
    <3>4. points'[v] = IF u = v THEN points[v] - Cost ELSE points[v]
      BY <1>6, <1>9
    <3> HIDE DEF m, c, d, e, p
    <3>5. Cost * e' = IF u = v THEN Cost * e + Cost ELSE Cost * e
      BY <2>11, <3>2, <3>3
    <3>6. points'[v] = p + m + c - d - Cost * e'
      <4> DEFINE y == Cost * e
                 z == Cost * e'
      <4>1. y \in Int /\ z = IF u = v THEN y + Cost ELSE y
        BY <3>2, <3>5
      <4>2. points[v] = p + m + c - d - y
        BY <3>1
      <4> HIDE DEF y, z
      <4>3. points'[v] = p + m + c - d - z
        BY <3>2, <3>4, <4>1, <4>2
      <4> QED
        BY <4>3 DEF z
    <3> QED
      BY <3>6 DEF m, c, d, e, p
  <2>13. DaysMoved'
    <3> SUFFICES ASSUME NEW v \in Members \ lost'
                 PROVE  expires'[v] = Opening + MovedTo(v, "EXTRA_DAYS")
                                        + Days * Exchanged(v, {"SUBSCRIPTION_DAYS"})'
      BY <1>1, <1>3 DEF DaysMoved
    <3> DEFINE m == MovedTo(v, "EXTRA_DAYS")
               e == Exchanged(v, {"SUBSCRIPTION_DAYS"})
               now == u = v /\ type = "SUBSCRIPTION_DAYS"
    <3>1. v \notin lost
      BY <1>9 DEF BeginsAnew
    <3>2. expires[v] = Opening + m + Days * e
      BY <3>1 DEF ReferralInv, DaysMoved
    <3>3. m \in Int /\ e \in Int /\ Opening \in Int /\ Days \in Int /\ Days * e \in Int
      BY MoneyTyped DEF ReferralInv
    <3>4. e' = IF now THEN e + 1 ELSE e
      BY <2>10
    <3>5. expires'[v] = IF now THEN expires[v] + Days ELSE expires[v]
      <4>1. CASE type = "SUBSCRIPTION_DAYS"
        <5>1. /\ expires' = [expires EXCEPT ![u] = Extended(u, Days)]
              /\ expires[u] < 0 => u \in lost'
          BY <1>9, <4>1 DEF BeginsAnew
        <5>2. CASE u = v
          <6>1. Extended(v, Days) = expires[v] + Days
            BY <1>6, <5>1, <5>2 DEF Extended, LaterOf
          <6> QED
            BY <1>6, <4>1, <5>1, <5>2, <6>1
        <5>3. CASE u # v
          BY <1>6, <5>1, <5>3
        <5> QED
          BY <5>2, <5>3
      <4>2. CASE type # "SUBSCRIPTION_DAYS"
        BY <1>9, <4>2
      <4> QED
        BY <4>1, <4>2
    <3> HIDE DEF m, e, now
    <3>6. Days * e' = IF now THEN Days * e + Days ELSE Days * e
      BY <2>11, <3>3, <3>4
    <3>7. expires'[v] = Opening + m + Days * e'
      <4> DEFINE y == Days * e
                 z == Days * e'
      <4>1. y \in Int /\ z = IF now THEN y + Days ELSE y
        BY <3>3, <3>6
      <4>2. expires[v] = Opening + m + y
        BY <3>2
      <4> HIDE DEF y, z
      <4>3. expires'[v] = Opening + m + z
        BY <3>3, <3>5, <4>1, <4>2
      <4> QED
        BY <4>3 DEF z
    <3> QED
      BY <3>7 DEF m, e
  <2>14. OnlyTakenBackOverdraws'
    <3> SUFFICES ASSUME NEW v \in Members, points'[v] < 0
                 PROVE  \/ adjusted'[v].taken > 0
                        \/ \E j \in DOMAIN rewards' :
                             rewards'[j].user = v /\ rewards'[j].issued /\ rewards'[j].revoked
      BY DEF OnlyTakenBackOverdraws
    <3>1. v # u
      BY <1>2, <1>6, <1>9, <2>6
    <3>2. points[v] < 0
      BY <1>6, <1>9, <3>1
    <3> QED
      BY <1>1, <1>3, <3>2, Overdrawn DEF ReferralInv
  <2>15. KeysInv'
    <3>1. ASSUME NEW i \in DOMAIN exchanges', NEW j \in DOMAIN exchanges',
                 exchanges'[i].user = exchanges'[j].user, exchanges'[i].key = exchanges'[j].key,
                 exchanges'[i].key # NoKey
          PROVE  i = j
      <4>1. CASE i \in DOMAIN exchanges /\ j \in DOMAIN exchanges
        BY <2>2, <3>1, <4>1 DEF ReferralInv, KeysInv
      <4>2. ASSUME NEW m \in DOMAIN exchanges, k # NoKey
            PROVE  ~(exchanges[m].user = u /\ exchanges[m].key = k)
        BY <1>9, <4>2 DEF Collides, MadeWith
      <4>3. CASE i \in DOMAIN exchanges /\ j = n
        BY <2>1, <2>2, <3>1, <4>2, <4>3
      <4>4. CASE i = n /\ j \in DOMAIN exchanges
        BY <2>1, <2>2, <3>1, <4>2, <4>4
      <4> QED
        BY <2>2, <4>1, <4>3, <4>4
    <3>2. ASSUME NEW v \in Members, NEW l \in Keys, NEW i \in DOMAIN exchanges',
                 <<v, l, i>> \in answers'
          PROVE  exchanges'[i].user = v /\ exchanges'[i].key = l
      <4>1. CASE <<v, l, i>> \in answers
        <5>1. i \in DOMAIN exchanges
          BY <1>6, <4>1
        <5> QED
          BY <2>2, <4>1, <5>1 DEF ReferralInv, KeysInv
      <4>2. CASE <<v, l, i>> \notin answers
        <5>1. v = u /\ l = k /\ i = n
          BY <2>3, <3>2, <4>2
        <5> QED
          BY <2>1, <2>2, <5>1
      <4> QED
        BY <4>1, <4>2
    <3> QED
      BY <3>1, <3>2 DEF KeysInv
  <2> QED
    BY <1>4, <1>5, <2>9, <2>12, <2>13, <2>14, <2>15 DEF ReferralInv
<1> QED
  BY <1>1, <1>7, <1>8, <1>9

\* A correction increments the balance, whatever it is by now.
LEMMA AdjustWriteKeeps ==
  ASSUME ReferralInv, NEW w \in Callers, AdjustWrite(w)
  PROVE  ReferralInv'
<1> DEFINE u == work[w].on
           by == work[w].read[u]
<1>1. /\ pc[w] = "adjust" /\ Done(w)
      /\ points' = [points EXCEPT ![u] = @ + by]
      /\ adjusted' = IF by >= 0 THEN [adjusted EXCEPT ![u].given = @ + by]
                     ELSE [adjusted EXCEPT ![u].taken = @ - by]
      /\ UNCHANGED <<situation, qualified, rewards, expires, exchanges, answers, undone, torn, lost,
                     spent>>
  BY DEF AdjustWrite, programme
<1>2. /\ u \in Members /\ by \in Int /\ points \in [Members -> Int]
      /\ adjusted \in [Members -> [given : Nat, taken : Nat]]
  <2>1. u \in Members
    BY <1>1 DEF ReferralInv, AtWork, Holds
  <2>2. work[w] \in Work
    BY DEF ReferralInv, ReferralTypeOK
  <2> QED
    BY <2>1, <2>2 DEF ReferralInv, ReferralTypeOK, Work
<1>3. rewards' = rewards /\ RowsKept /\ \A v, t : MovedTo(v, t)' = MovedTo(v, t)
  BY <1>1, RowsFrame
<1>4. AtWork' /\ pc' \in [Callers -> Steps] /\ work' \in [Callers -> Work]
  BY <1>1, <1>3, WorkDone DEF ReferralInv
<1>5. EdgesInv'
  BY <1>1, EdgesFrame DEF ReferralInv
<1> HIDE DEF u, by
<1>6. /\ adjusted' \in [Members -> [given : Nat, taken : Nat]]
      /\ \A v \in Members : v # u => adjusted'[v] = adjusted[v]
      /\ by >= 0 => /\ adjusted'[u].given = adjusted[u].given + by
                    /\ adjusted'[u].taken = adjusted[u].taken
      /\ by < 0 => /\ adjusted'[u].given = adjusted[u].given
                   /\ adjusted'[u].taken = adjusted[u].taken - by
  <2>1. adjusted[u] \in [given : Nat, taken : Nat]
    BY <1>2
  <2>2. CASE by >= 0
    <3> DEFINE a == [adjusted[u] EXCEPT !.given = @ + by]
    <3>1. a \in [given : Nat, taken : Nat] /\ a.given = adjusted[u].given + by
          /\ a.taken = adjusted[u].taken
      BY <1>2, <2>1, <2>2
    <3>2. adjusted' = [adjusted EXCEPT ![u] = a]
      BY <1>1, <2>2
    <3> HIDE DEF a
    <3> QED
      BY <1>2, <2>2, <3>1, <3>2
  <2>3. CASE by < 0
    <3> DEFINE a == [adjusted[u] EXCEPT !.taken = @ - by]
    <3>1. a \in [given : Nat, taken : Nat] /\ a.given = adjusted[u].given
          /\ a.taken = adjusted[u].taken - by
      BY <1>2, <2>1, <2>3
    <3>2. adjusted' = [adjusted EXCEPT ![u] = a]
      BY <1>1, <1>2, <2>3
    <3> HIDE DEF a
    <3> QED
      BY <1>2, <2>3, <3>1, <3>2
  <2> QED
    BY <1>2, <2>2, <2>3
<1>7. ReferralTypeOK'
  <2>1. points' \in [Members -> Int]
    BY <1>1, <1>2
  <2> QED
    BY <1>1, <1>4, <1>6, <2>1 DEF ReferralInv, ReferralTypeOK
<1>8. \A v, types : Exchanged(v, types)' = Exchanged(v, types)
  BY <1>1 DEF Exchanged
<1>9. PointsMoved'
  <2> SUFFICES ASSUME NEW v \in Members
               PROVE  points'[v] = situation.points + MovedTo(v, "POINTS")
                                     + adjusted'[v].given - adjusted'[v].taken
                                     - Cost * Exchanged(v, ExchangeTypes)
    BY <1>1, <1>3, <1>8 DEF PointsMoved
  <2> DEFINE m == MovedTo(v, "POINTS")
             y == Cost * Exchanged(v, ExchangeTypes)
             p == situation.points
  <2>1. points[v] = p + m + adjusted[v].given - adjusted[v].taken - y
    BY DEF ReferralInv, PointsMoved
  <2>2. /\ m \in Int /\ y \in Int /\ p \in Int
        /\ adjusted[v].given \in Int /\ adjusted[v].taken \in Int
    BY MoneyTyped DEF ReferralInv
  <2>3. points'[v] = IF v = u THEN points[v] + by ELSE points[v]
    BY <1>1, <1>2
  <2> HIDE DEF m, y, p
  <2>4. points'[v] = p + m + adjusted'[v].given - adjusted'[v].taken - y
    <3>1. CASE v = u /\ by >= 0
      BY <1>2, <1>6, <2>1, <2>2, <2>3, <3>1
    <3>2. CASE v = u /\ by < 0
      BY <1>2, <1>6, <2>1, <2>2, <2>3, <3>2
    <3>3. CASE v # u
      BY <1>6, <2>1, <2>3, <3>3
    <3> QED
      BY <1>2, <3>1, <3>2, <3>3
  <2> QED
    BY <2>4 DEF m, y, p
<1>10. DaysMoved'
  BY <1>1, <1>3, <1>8 DEF ReferralInv, DaysMoved
<1>11. OnlyTakenBackOverdraws'
  <2> SUFFICES ASSUME NEW v \in Members, points'[v] < 0
               PROVE  \/ adjusted'[v].taken > 0
                      \/ \E j \in DOMAIN rewards' :
                           rewards'[j].user = v /\ rewards'[j].issued /\ rewards'[j].revoked
    BY DEF OnlyTakenBackOverdraws
  <2>1. CASE v # u
    <3>1. points[v] < 0 /\ adjusted'[v] = adjusted[v]
      BY <1>1, <1>2, <1>6, <2>1
    <3> QED
      BY <1>3, <3>1, Overdrawn DEF ReferralInv
  <2>2. CASE v = u /\ by < 0
    <3>1. adjusted[u].taken \in Nat
      BY <1>2
    <3> QED
      BY <1>2, <1>6, <2>2, <3>1
  <2>3. CASE v = u /\ by >= 0
    <3>1. points[v] < 0
      BY <1>1, <1>2, <2>3
    <3>2. \/ adjusted[v].taken > 0
          \/ \E j \in DOMAIN rewards :
                rewards[j].user = v /\ rewards[j].issued /\ rewards[j].revoked
      BY <3>1 DEF ReferralInv, OnlyTakenBackOverdraws
    <3> QED
      BY <1>1, <1>6, <2>3, <3>2
  <2> QED
    BY <1>2, <2>1, <2>2, <2>3
<1>12. KeysInv'
  BY <1>1, KeysFrame DEF ReferralInv
<1> QED
  BY <1>4, <1>5, <1>7, <1>9, <1>10, <1>11, <1>12 DEF ReferralInv

\* At first nothing is qualified, rewarded, exchanged or under way.
LEMMA ReferralInitInv == ReferralInit => ReferralInv
<1> SUFFICES ASSUME ReferralInit PROVE ReferralInv
  OBVIOUS
<1>1. /\ situation \in Situations /\ qualified = [e \in Edges |-> "NONE"]
      /\ rewards = <<>> /\ exchanges = <<>> /\ answers = {}
      /\ points = [u \in Members |-> situation.points] /\ expires = [u \in Members |-> Opening]
      /\ adjusted = [u \in Members |-> [given |-> 0, taken |-> 0]]
      /\ undone = {} /\ torn = {} /\ lost = {}
      /\ pc = [w \in Callers |-> "idle"] /\ work = [w \in Callers |-> Nothing]
      /\ spent = [h \in Handlers \cup {"faults"} |-> 0]
  BY DEF ReferralInit
<1>2. DOMAIN rewards = {} /\ DOMAIN exchanges = {} /\ Len(exchanges) = 0
  BY <1>1
<1>3. Nothing \in Work
  BY DEF Nothing, Work
<1>4. situation.points \in Nat /\ Opening \in Nat
  BY <1>1, ReferralAssumption, ReferralScenarioAssumption
<1>5. ReferralTypeOK
  <2>1. /\ points \in [Members -> Int] /\ expires \in [Members -> Int]
        /\ adjusted \in [Members -> [given : Nat, taken : Nat]]
        /\ pc \in [Callers -> Steps] /\ work \in [Callers -> Work]
        /\ spent \in [Handlers \cup {"faults"} -> Nat]
    BY <1>1, <1>3, <1>4 DEF Steps
  <2> QED
    BY <1>1, <2>1 DEF ReferralTypeOK
<1>6. AtWork
  BY <1>1 DEF AtWork, Holds, Reversing
<1>7. EdgesInv
  <2>1. "NONE" \notin Payments
    BY ReferralAssumption
  <2> QED
    BY <1>1, <1>2, <2>1 DEF EdgesInv, QualifiedByPayer, RowsOfPayer, Settled, StandingAtMostOne,
                            ClearedIsClear, ReversalHolds
<1>8. \A u, type : MovedTo(u, type) = 0
  <2> SUFFICES ASSUME NEW u, NEW type PROVE MovedTo(u, type) = 0
    OBVIOUS
  <2>1. RowsOf(u, type) = {}
    BY <1>2 DEF RowsOf
  <2> QED
    BY <2>1, SumEmpty DEF MovedTo
<1>9. \A u, types : Exchanged(u, types) = 0
  <2> SUFFICES ASSUME NEW u, NEW types PROVE Exchanged(u, types) = 0
    OBVIOUS
  <2>1. {i \in DOMAIN exchanges : exchanges[i].user = u /\ exchanges[i].type \in types} = {}
    BY <1>2
  <2> QED
    BY <2>1, FS_EmptySet DEF Exchanged
<1>10. Cost * 0 = 0 /\ Days * 0 = 0
  BY ReferralAssumption
<1>11. PointsMoved
  BY <1>1, <1>4, <1>8, <1>9, <1>10 DEF PointsMoved
<1>12. DaysMoved
  BY <1>1, <1>4, <1>8, <1>9, <1>10 DEF DaysMoved
<1>13. OnlyTakenBackOverdraws
  BY <1>1, <1>4 DEF OnlyTakenBackOverdraws
<1>14. KeysInv
  BY <1>1, <1>2 DEF KeysInv
<1> QED
  BY <1>5, <1>6, <1>7, <1>11, <1>12, <1>13, <1>14 DEF ReferralInv

\* Every step keeps the invariant.
LEMMA ReferralNextInv == ReferralInv /\ [ReferralNext]_referralVars => ReferralInv'
<1> SUFFICES ASSUME ReferralInv, [ReferralNext]_referralVars PROVE ReferralInv'
  OBVIOUS
<1>1. CASE UNCHANGED referralVars
  <2>1. /\ UNCHANGED <<situation, programme, points, expires, exchanges, history, pc, work, spent>>
        /\ rewards' = rewards
    BY <1>1 DEF referralVars, programme, history
  <2>2. RowsKept
    BY <2>1, RowsFrame
  <2>3. AtWork'
    BY <2>1, <2>2, WorkFrame DEF ReferralInv
  <2> QED
    BY <2>1, <2>3, QuietKeeps DEF ReferralInv, ReferralTypeOK
<1>2. ASSUME NEW t \in Payments, Qualify(t) PROVE ReferralInv'
  BY <1>2, QualifyKeeps
<1>3. ASSUME NEW e \in Edges, QualifyManually(e) PROVE ReferralInv'
  BY <1>3, QualifyManuallyKeeps
<1>4. ASSUME NEW e \in Edges, NEW u \in Members, NEW type \in RewardTypes, GrantReward(e, u, type)
      PROVE  ReferralInv'
  BY <1>4, GrantKeeps
<1>5. ASSUME NEW i \in DOMAIN rewards, IssueReward(i) PROVE ReferralInv'
  BY <1>5, IssueKeeps
<1>6. ASSUME NEW i \in DOMAIN rewards, Revoke(i) PROVE ReferralInv'
  BY <1>6, RevokeKeeps
<1>7. ASSUME NEW w \in Callers, NEW t \in Payments, ReverseBegin(w, t) PROVE ReferralInv'
  BY <1>7, ReverseBeginKeeps
<1>8. ASSUME NEW w \in Callers, ReverseRead(w) PROVE ReferralInv'
  BY <1>8, ReverseReadKeeps
<1>9. ASSUME NEW w \in Callers, ReverseWrite(w) PROVE ReferralInv'
  BY <1>9, ReverseWriteKeeps
<1>10. ASSUME NEW w \in Callers, ReverseFail(w) PROVE ReferralInv'
  BY <1>10, ReverseFailKeeps
<1>11. ASSUME NEW w \in Callers, NEW u \in Members, NEW k \in Keys \cup {NoKey},
              NEW type \in ExchangeTypes, ExchangeBegin(w, u, k, type)
       PROVE  ReferralInv'
  BY <1>11, ExchangeBeginKeeps
<1>12. ASSUME NEW w \in Callers, ExchangeCommit(w) PROVE ReferralInv'
  BY <1>12, ExchangeCommitKeeps
<1>13. ASSUME NEW w \in Callers, NEW u \in Members, NEW by \in {-Cost, Cost}, AdjustBegin(w, u, by)
       PROVE  ReferralInv'
  BY <1>13, AdjustBeginKeeps
<1>14. ASSUME NEW w \in Callers, AdjustWrite(w) PROVE ReferralInv'
  BY <1>14, AdjustWriteKeeps
<1> QED
  BY <1>1, <1>2, <1>3, <1>4, <1>5, <1>6, <1>7, <1>8, <1>9, <1>10, <1>11, <1>12, <1>13, <1>14
     DEF ReferralNext

-----------------------------------------------------------------------------
(* The results                                                             *)

\* The inductive invariant holds: what each worker has read and may still rely on,
\* that untorn edges are settled and safe to qualify again, and that the balances
\* are what the rows have moved.
THEOREM Inductive == ReferralSpec => []ReferralInv
<1>1. ReferralInit => ReferralInv
  BY ReferralInitInv
<1>2. ReferralInv /\ [ReferralNext]_referralVars => ReferralInv'
  BY ReferralNextInv
<1> QED
  BY <1>1, <1>2, PTL DEF ReferralSpec

\* A set of which any two members are one has at most one.
LEMMA AtMostOne ==
  ASSUME NEW S, \A i, j \in S : i = j
  PROVE  Cardinality(S) <= 1
<1>1. CASE S = {}
  BY <1>1, FS_EmptySet
<1>2. CASE S # {}
  <2>1. PICK i \in S : TRUE
    BY <1>2
  <2>2. S = {i}
    BY <2>1
  <2>3. Cardinality({i}) = 1
    BY FS_Singleton
  <2> QED
    BY <2>2, <2>3
<1> QED
  BY <1>1, <1>2

\* However often hooks run and whoever else qualifies, issues, revokes or reverses,
\* an edge has at most one standing reward of its own, unless a reversal cleared a
\* qualification it had not read; and no exchange overdraws a balance.
THEOREM EdgesAreConsistent == ReferralSpec => []EdgesConsistent
<1>1. ReferralInv => EdgesConsistent
  <2> SUFFICES ASSUME ReferralInv PROVE EdgesConsistent
    OBVIOUS
  <2>1. OneStandingReward
    <3> SUFFICES ASSUME NEW e \in Edges \ torn
                 PROVE  Cardinality({i \in OwnRewards(e) : ~rewards[i].revoked}) <= 1
      BY DEF OneStandingReward
    <3>1. \A i, j \in {i \in OwnRewards(e) : ~rewards[i].revoked} : i = j
      BY DEF ReferralInv, EdgesInv, StandingAtMostOne, OwnRewards, Own
    <3> QED
      BY <3>1, AtMostOne
  <2> QED
    BY <2>1 DEF ReferralInv, EdgesConsistent
<1> QED
  BY <1>1, Inductive, PTL

\* Points are what is issued and not taken back, less what was exchanged, and days
\* are so too unless they were written over or began anew, for any number of
\* overlapping reversals, exchanges and corrections.
THEOREM BalancesAlwaysAddUp == ReferralSpec => []BalancesAddUp
<1>1. ReferralInv => BalancesAddUp
  <2> SUFFICES ASSUME ReferralInv PROVE BalancesAddUp
    OBVIOUS
  <2>1. \A u, type : DueTo(u, type) = MovedTo(u, type)
    BY DueIsMoved DEF ReferralInv, EdgesInv
  <2>2. PointsAddUp
    BY <2>1 DEF ReferralInv, PointsMoved, PointsAddUp
  <2>3. DaysAddUp
    BY <2>1 DEF ReferralInv, DaysMoved, DaysAddUp
  <2> QED
    BY <2>2, <2>3 DEF BalancesAddUp
<1> QED
  BY <1>1, Inductive, PTL

\* A key buys one exchange and is answered with that exchange, however its requests
\* interleave.
THEOREM KeysBuyOnce == ReferralSpec => []ExchangedOnce
<1>1. ReferralInv => ExchangedOnce
  <2> SUFFICES ASSUME ReferralInv, NEW u \in Members, NEW k \in Keys
               PROVE  /\ Cardinality(MadeWith(u, k)) <= 1
                      /\ \A i \in DOMAIN exchanges : <<u, k, i>> \in answers => i \in MadeWith(u, k)
    BY DEF ExchangedOnce
  <2>1. k # NoKey
    BY ReferralAssumption
  <2>2. \A i, j \in MadeWith(u, k) : i = j
    BY <2>1 DEF ReferralInv, KeysInv, MadeWith
  <2>3. \A i \in DOMAIN exchanges : <<u, k, i>> \in answers => i \in MadeWith(u, k)
    BY DEF ReferralInv, KeysInv, MadeWith
  <2> QED
    BY <2>2, <2>3, AtMostOne
<1> QED
  BY <1>1, Inductive, PTL

\* What a reversal took back stays taken back, until the payment's own hook qualifies
\* its edge again.
THEOREM ReversalsHold == ReferralSpec => []ReversalHolds
<1>1. ReferralInv => ReversalHolds
  BY DEF ReferralInv, EdgesInv
<1> QED
  BY <1>1, Inductive, PTL
=============================================================================
