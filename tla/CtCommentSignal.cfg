SPECIFICATION FairSpec
CONSTANTS
  NumAccounts = 1
  MaxTx = 2
  MaxBlock = 4
PROPERTY SignalReaches
CHECK_DEADLOCK FALSE
