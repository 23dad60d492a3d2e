------------------------- MODULE MCFulfilmentClaim -------------------------
(* Small instances of FulfilmentClaim for TLC. *)
EXTENDS FulfilmentClaim, TLC

Symmetry == Permutations(Claimants)
=============================================================================
