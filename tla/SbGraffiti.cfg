SPECIFICATION Spec
CONSTANTS
  Mode = "graffiti"
  Validator = {v1, v2}
  Matching = {v1}
  MaxSlot = 6
  MaxFlips = 0
  v1 = v1
  v2 = v2
INVARIANT TriggersIncrease
INVARIANT TargetsApart
INVARIANT BlameAgreesWithTarget
CHECK_DEADLOCK FALSE
