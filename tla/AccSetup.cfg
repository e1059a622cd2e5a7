SPECIFICATION FairSpec
CONSTANTS
  NumFundedAccounts = 2
  Target = 2
  Int64 = 4
  Prices = {1, 2}
  InitialKeys = {0, 3}
  InitialBalance = {0, 7}
  MaxRuns = 2
  MaxSubmissions = 2
INVARIANT TypeOK
INVARIANT NeverOverfunded
INVARIANT FundedIsRecoverable
INVARIANT AccountsReused
INVARIANT FundingAccepted
INVARIANT SubmitNonceUsable
INVARIANT InnerNonceFresh
PROPERTY SetupEnds
PROPERTY DrainEnds
CHECK_DEADLOCK FALSE
