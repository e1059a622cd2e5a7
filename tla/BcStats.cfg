SPECIFICATION FairSpec
CONSTANTS
  MaxBlock = 5
  Trigger = {1, 2}
INVARIANT CacheInv
INVARIANT Contiguous
INVARIANT FailedHasCause
PROPERTY SuccessKept
PROPERTY CollectEnds
CHECK_DEADLOCK FALSE
