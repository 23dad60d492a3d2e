---------------------------- MODULE MCReferralRewards ----------------------------
(* Small instances of ReferralRewards for TLC. *)
EXTENDS ReferralRewards, TLC

CONSTANTS a, b, c, t1, t2, t3

\* c referred b, who referred a.
MCReferrer == (a :> b) @@ (b :> c)
MCPayer == (t1 :> a) @@ (t2 :> a) @@ (t3 :> b)

Scenario(n, type, p, f, s) ==
    [workers |-> n, type |-> type, points |-> p, faults |-> f,
     starts |-> [h \in Handlers |-> IF h \in DOMAIN s THEN s[h] ELSE 0]]

\* Two reversals at a time beside repeated hooks and the operators' verdicts.
Reversals == Scenario(2, "POINTS", 0, 0,
    ("qualify" :> 2) @@ ("issue" :> 2) @@ ("revoke" :> 1) @@ ("reverse" :> 2))

\* Extra days taken back while an exchange extends the same subscription.
ExtraDays == Scenario(2, "EXTRA_DAYS", 2, 0,
    ("qualify" :> 2) @@ ("issue" :> 2) @@ ("reverse" :> 1) @@ ("exchange" :> 2))

\* A client that repeats itself, an operator who corrects, points taken back.
Exchanges == Scenario(2, "POINTS", 2, 0,
    ("qualify" :> 1) @@ ("issue" :> 1) @@ ("reverse" :> 1) @@ ("exchange" :> 3) @@ ("adjust" :> 1))

\* Rewards and qualifications by hand, and a reversal that fails, one at a time.
Grants == Scenario(1, "POINTS", 0, 1,
    ("qualify" :> 1) @@ ("manual" :> 1) @@ ("grant" :> 1) @@ ("issue" :> 2) @@ ("revoke" :> 1)
        @@ ("reverse" :> 2))

ReferralScenarios == {Reversals, ExtraDays, Exchanges, Grants}

Symmetry == Permutations(Callers)
=============================================================================
