SPECIFICATION Spec
CONSTANTS
  MaxBlock = 4
  Trigger = {1, 2}
PROPERTY FileWritten
CHECK_DEADLOCK FALSE
