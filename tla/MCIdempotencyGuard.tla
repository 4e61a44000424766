-------------------------- MODULE MCIdempotencyGuard --------------------------
(* Small instances of IdempotencyGuard for TLC. *)
EXTENDS IdempotencyGuard
=============================================================================
