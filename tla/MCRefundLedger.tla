------------------------------ MODULE MCRefundLedger ------------------------------
(* Small instances of RefundLedger for TLC. *)
EXTENDS RefundLedger, TLC

CONSTANTS r1, r2, r3

\* Two halves and one refund of everything: a payment of two units can be
\* given back in one piece or in two.
HalvesAndWhole == (r1 :> 1) @@ (r2 :> 1) @@ (r3 :> 2)

=============================================================================
