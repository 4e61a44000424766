---------------------------- MODULE MCCustomerApi ----------------------------
(* Requests, currencies and addresses are interchangeable. *)
EXTENDS CustomerApi, TLC

Symmetry ==
  Permutations(Requests) \cup Permutations(Currencies) \cup Permutations(Emails)
=============================================================================
