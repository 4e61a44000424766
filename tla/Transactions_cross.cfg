SPECIFICATION Spec
CONSTANTS
  alice = alice
  bob = bob
  r1 = r1
  r2 = r2
  r3 = r3
  ref1 = ref1
  ref2 = ref2
  None = None
  Customers <- MCCustomers
  References <- MCReferences
  Accounts <- MCAccounts
  OwnerOf <- MCOwnerOf
  OpeningBalance <- MCOpening
  Requests = {r1, r2, r3}
  Commands <- CrossCommands
  MaxAttempts = 2
INVARIANTS
  NoOverdraft
  OneRowPerKey
  BalanceExplained
  NoDeadlock
SYMMETRY RequestSymmetry
CHECK_DEADLOCK FALSE
