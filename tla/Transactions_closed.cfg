SPECIFICATION Spec
CONSTANTS
  alice = alice
  bob = bob
  r1 = r1
  r2 = r2
  r3 = r3
  ref1 = ref1
  ref2 = ref2
  None = None
  Customers <- MCCustomers
  References <- MCReferences
  Accounts <- MCAccounts
  OwnerOf <- MCOwnerOf
  OpeningBalance <- MCEmptyOpening
  Requests = {r1, r2}
  Commands <- ClosingCommands
  MaxAttempts = 2
INVARIANT ClosedAccountIsEmpty
CHECK_DEADLOCK FALSE
