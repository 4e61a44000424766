------------------------------ MODULE BankTypes ------------------------------
(***************************************************************************)
(* The money commands a customer can send (deposit, withdraw, transfer)    *)
(* and what each of them touches.  Account ids are UUID strings in the     *)
(* code and only ever compared (transactions.service.ts:516): natural      *)
(* numbers stand for them.                                                 *)
(***************************************************************************)
EXTENDS Integers, FiniteSets

CONSTANTS
  Customers,      \* authenticated users (actorCustomerId)
  Accounts,       \* account ids
  OwnerOf,        \* the customer each account belongs to
  References,     \* client-chosen reference ids
  Commands,       \* the commands the clients may send
  None            \* the null of from_account / to_account

Command ==
  [type: {"DEPOSIT", "WITHDRAW", "TRANSFER"}, user: Customers, ref: References,
   from: Accounts \cup {None}, to: Accounts \cup {None}, amount: Nat \ {0}]

\* A deposit names only a destination, a withdrawal only a source, a transfer both.
WellFormed(c) ==
  /\ (c.from # None) <=> (c.type # "DEPOSIT")
  /\ (c.to # None) <=> (c.type # "WITHDRAW")

ASSUME AccountsAssumption == Accounts \subseteq Nat /\ None \notin Accounts
ASSUME FiniteAssumption == IsFiniteSet(Accounts)
ASSUME OwnerAssumption == OwnerOf \in [Accounts -> Customers]
ASSUME CommandsAssumption ==
  Commands \subseteq Command /\ \A c \in Commands : WellFormed(c)

\* The unique index on transactions: (actor_customer_id, type, reference_id).
Key(c) == <<c.user, c.type, c.ref>>

\* The account rows the command writes.
Touched(c) == {c.from, c.to} \ {None}

\* What the command adds to the balance of account a.
Delta(c, a) ==
  IF a = c.from THEN 0 - c.amount ELSE IF a = c.to THEN c.amount ELSE 0

\* The account whose owner must be the actor: the source, or the destination of a deposit.
OwnedAccount(c) == IF c.from = None THEN c.to ELSE c.from
Authorized(c) == OwnerOf[OwnedAccount(c)] = c.user
=============================================================================
