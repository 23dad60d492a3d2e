---------------------------- MODULE MCPartnerBalance ----------------------------
(* Small instances of PartnerBalance for TLC. *)
EXTENDS PartnerBalance, TLC

CONSTANTS p1, p2, x1, u1, u2

MCEarn == (p1 :> 2) @@ (p2 :> 1)
MCAmount == (x1 :> 2) @@ (u1 :> 1) @@ (u2 :> 2)
MCOwner == (x1 :> p1) @@ (u1 :> p1) @@ (u2 :> p1)

Starts(e, r, q, v, a, y) ==
    ("earn" :> e) @@ ("reverse" :> r) @@ ("request" :> q) @@ ("process" :> v)
        @@ ("adjust" :> a) @@ ("pay" :> y)

Scenario(o, n, s, f, c) ==
    [opening |-> o, workers |-> n, starts |-> s, faults |-> f, crashes |-> c]

\* Hooks that are repeated, two reversals, a withdrawal and its verdict, two at a time.
Accruals == Scenario(0, 2, Starts(2, 2, 1, 1, 0, 0), 1, 0)

\* Two purchases from one balance beside an accrual and its reversal.
TwoPurchases == Scenario(2, 2, Starts(1, 1, 0, 0, 0, 2), 3, 0)

\* Every handler, one at a time.
OneAtATime == Scenario(2, 1, Starts(2, 1, 1, 1, 1, 1), 1, 0)

\* A purchase, and another handler, of which one may die.
DyingPurchase == Scenario(2, 1, Starts(1, 1, 1, 1, 0, 1), 1, 1)

\* Corrections that write back what they read, beside a purchase and its restore.
Corrections == Scenario(1, 2, Starts(1, 0, 0, 0, 2, 1), 1, 0)

PartnerScenarios == {Accruals, TwoPurchases, OneAtATime, DyingPurchase, Corrections}

Symmetry == Permutations(Workers)
=============================================================================
