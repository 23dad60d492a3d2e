------------------------- MODULE MCPaymentReconciliation -------------------------
(* Small instances of PaymentReconciliation for TLC. *)
EXTENDS PaymentReconciliation, TLC

CONSTANTS e1, e2, e3

Says(a, b, c) == (e1 :> a) @@ (e2 :> b) @@ (e3 :> c)

Scenario(k, g, h, says, n, f, r) ==
    [kind |-> k, gateway |-> g, history |-> h, says |-> says,
     handlers |-> n, faults |-> f, replays |-> r]

\* Two notifications of one capture under different event ids, two handlers.
TwoPaid ==
    {Scenario(k, "OTHER", "draft", Says("paid", "paid", "nothing"), 2, 2, 0) :
        k \in {"NEW", "RENEW", "ADDON"}}

\* A capture that a worker and the poll of the expiry sweep both find.
Polled ==
    {Scenario("NEW", "YOOKASSA", "draft", Says("paid", "nothing", "nothing"), 2, 2, 0)}

\* Two notifications of the refund of a delivered payment, two handlers.
TwoRefunds ==
    {Scenario(k, g, "fulfilled", Says("refund", "refund", "nothing"), 2, 2, 1) :
        k \in {"NEW", "RENEW"}, g \in {"YOOKASSA", "OTHER"}}

\* One handler at a time: a short payment, the rest of it and its refund, and a
\* payment given up, with the statuses delivered in any order.
OneAtATime ==
    {Scenario("NEW", g, "draft", says, 1, 1, 1) :
        g \in {"YOOKASSA", "OTHER"},
        says \in {Says("underpaid", "paid", "refund"),
                  Says("paid", "canceled", "waiting")}}

PaymentScenarios == TwoPaid \cup Polled \cup TwoRefunds \cup OneAtATime

\* One capture, one failure or crash.
OneFailure ==
    {Scenario("NEW", "OTHER", "draft", Says("paid", "nothing", "nothing"), 2, 1, 0)}

\* The same for a renewal.
OneFailedRenewal ==
    {Scenario("RENEW", "OTHER", "draft", Says("paid", "nothing", "nothing"), 1, 1, 0)}

Symmetry == Permutations(Procs)
=============================================================================
