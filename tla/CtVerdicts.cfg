SPECIFICATION Spec
CONSTANTS
  NumAccounts = 1
  MaxTx = 2
  MaxBlock = 4
INVARIANT IInv
INVARIANT CancelJustified
INVARIANT NeverNotSequenced
PROPERTY VerdictOnce
PROPERTY ImplementsLedger
CHECK_DEADLOCK FALSE
