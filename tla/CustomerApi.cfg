CONSTANTS
  Requests = {r1, r2, r3}
  Earlier = Earlier
  None = None
  Threshold = 2
  Emails = {e1, e2}
  Currencies = {c1, c2}
SPECIFICATION Spec
INVARIANTS
  TwoSessionsOverlapped
  OldSessionsOverlapped
  ChainNeverForks
  OneCustomerPerEmail
  ProfileAsAsked
  OneOpenPerCurrency
  LastAuditTells
PROPERTIES
  RevokedForGood
  LockLiftedOnlyByEarlier
SYMMETRY Symmetry
CHECK_DEADLOCK FALSE
