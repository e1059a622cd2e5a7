SPECIFICATION FairSpec
CONSTANTS
  Mode = "standard"
  Validator = {v1, v2}
  Matching = {}
  MaxSlot = 5
  MaxFlips = 0
  v1 = v1
  v2 = v2
PROPERTY EachShutterBlock
CHECK_DEADLOCK FALSE
