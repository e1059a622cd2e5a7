SPECIFICATION Spec
CONSTANTS
  NumAccounts = 1
  MaxTx = 2
  MaxBlock = 4
INVARIANT CanceledAfterSubmission
CHECK_DEADLOCK FALSE
