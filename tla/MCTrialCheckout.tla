----------------------------- MODULE MCTrialCheckout -----------------------------
(* Small instances of TrialCheckout for TLC. *)
EXTENDS TrialCheckout, TLC

Scenario(m, b, a, g, c) ==
    [maxClaims |-> m, abandons |-> b,
     bound |-> ("asks" :> a) @@ ("grants" :> g) @@ ("crashes" :> c)]

\* One unit: two checkouts, a grant and the buyer's own abandoning.
Race == Scenario(1, TRUE, 2, 1, 0)

\* One unit: a checkout that dies and is asked for again.
Replayed == Scenario(1, FALSE, 3, 0, 1)

\* Two units: a checkout beside grants.
TwoUnits == Scenario(2, TRUE, 1, 2, 1)

TrialScenarios == {Race, Replayed, TwoUnits}
=============================================================================
