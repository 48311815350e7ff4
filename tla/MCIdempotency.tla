---------------------------- MODULE MCIdempotency ----------------------------
(* Idempotency with small sets of keys and attempts.                         *)
EXTENDS Idempotency
=============================================================================
