SPECIFICATION FairSpec
CONSTANTS
  Mode = "standard"
  Validator = {v1, v2}
  Matching = {}
  MaxSlot = 5
  MaxFlips = 1
  v1 = v1
  v2 = v2
INVARIANT TypeOK
INVARIANT TriggersIncrease
INVARIANT NoneSkipped
PROPERTY Triggered
PROPERTY BlameStays
CHECK_DEADLOCK FALSE
