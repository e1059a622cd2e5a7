SPECIFICATION FairSpec
CONSTANTS
  NumAccounts = 2
  MaxTx = 3
  MaxBlock = 3
INVARIANT TypeOK
INVARIANT LedgerComplete
INVARIANT RoundRobin
PROPERTY WatcherEnds
PROPERTY FinishedRetires
CHECK_DEADLOCK FALSE
