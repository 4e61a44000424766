----------------------------- MODULE MCDailyLimit -----------------------------
(* Small instances of DailyLimit for TLC. *)
EXTENDS DailyLimit, TLC

Symmetry == Permutations(Handlers) \cup Permutations(Refs)
=============================================================================
