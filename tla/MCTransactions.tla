---------------------------- MODULE MCTransactions ----------------------------
(* Small instances of Transactions for TLC. *)
EXTENDS Transactions, TLC

CONSTANTS alice, bob, r1, r2, r3, ref1, ref2

MCCustomers == {alice, bob}
MCReferences == {ref1, ref2}
MCAccounts == {1, 2}
MCOwnerOf == 1 :> alice @@ 2 :> bob
MCOpening == 1 :> 2 @@ 2 :> 1
MCEmptyOpening == 1 :> 1 @@ 2 :> 0
RequestSymmetry == Permutations(Requests)

deposit(u, ref, a, n) ==
  [type |-> "DEPOSIT", user |-> u, ref |-> ref, from |-> None, to |-> a, amount |-> n]
withdraw(u, ref, a, n) ==
  [type |-> "WITHDRAW", user |-> u, ref |-> ref, from |-> a, to |-> None, amount |-> n]
transfer(u, ref, a, b, n) ==
  [type |-> "TRANSFER", user |-> u, ref |-> ref, from |-> a, to |-> b, amount |-> n]

\* Two transfers in opposite directions, a second transfer and a withdrawal that compete for
\* the same money, and a retry is any command sent twice.
CrossCommands ==
  {transfer(alice, ref1, 1, 2, 2), transfer(bob, ref1, 2, 1, 1), transfer(alice, ref2, 1, 2, 1)}

\* Every type, a foreign source account, a transfer to oneself, and a withdrawal that leaves
\* an account empty, so that it can be closed before the deposit arrives.
MixedCommands ==
  {deposit(alice, ref1, 1, 1), withdraw(alice, ref1, 1, 2), transfer(bob, ref1, 1, 2, 1),
   transfer(alice, ref2, 1, 1, 1), transfer(alice, ref1, 1, 2, 1)}

\* Money arriving at, and leaving, an account that may be closed.
ClosingCommands == {deposit(bob, ref1, 2, 1), transfer(alice, ref1, 1, 2, 1)}
=============================================================================
