SPECIFICATION MainSpec
CONSTANTS
  Prices = {1}
  MaxSends = 1
PROPERTY ModesSend
CHECK_DEADLOCK FALSE
