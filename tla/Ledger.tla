-------------------------------- MODULE Ledger --------------------------------
(***************************************************************************)
(* What the transaction service promises: a book in which every            *)
(* (customer, type, reference) is entered at most once, either posted,     *)
(* moving the money of its command in one step from an account that        *)
(* belongs to the actor and covers the amount, or refused, moving nothing. *)
(***************************************************************************)
EXTENDS BankTypes

CONSTANT OpeningBalance

VARIABLES
  balance,     \* the committed balance of every account
  entries      \* the committed book entries

ledgerVars == <<balance, entries>>

Fresh(c) == \A e \in entries : Key(e.cmd) # Key(c)

Covered(c) == c.from # None => balance[c.from] >= c.amount

LedgerInit == balance = OpeningBalance /\ entries = {}

Post(c) ==
  /\ Fresh(c) /\ Covered(c) /\ Authorized(c)
  /\ c.from # c.to
  /\ balance' = [a \in Accounts |-> balance[a] + Delta(c, a)]
  /\ entries' = entries \cup {[cmd |-> c, status |-> "COMPLETED"]}

Refuse(c) ==
  /\ Fresh(c)
  /\ entries' = entries \cup {[cmd |-> c, status |-> "REJECTED"]}
  /\ UNCHANGED balance

LedgerNext == \E c \in Commands : Post(c) \/ Refuse(c)

LedgerSpec == LedgerInit /\ [][LedgerNext]_ledgerVars
=============================================================================
