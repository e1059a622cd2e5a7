SPECIFICATION RepairSpec
CONSTANTS
  Prices = {1, 2}
  MaxSends = 2
INVARIANT TypeOK
INVARIANT OneAfterAnother
INVARIANT TimeoutsSurvived
INVARIANT ConfirmedHasCause
INVARIANT RepairKeepsNonces
PROPERTY AttemptEnds
PROPERTY FixEnds
CHECK_DEADLOCK FALSE
