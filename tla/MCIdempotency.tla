--------------------------- MODULE MCIdempotency ---------------------------
(* Finite instances of Idempotency for TLC.                                  *)
EXTENDS Idempotency, TLC

Symmetric == Permutations(Attempts)
=============================================================================
