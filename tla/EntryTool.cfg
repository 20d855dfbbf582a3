SPECIFICATION Spec
CONSTANTS
  RawConfigs <- MCRawConfigs
  Width = 10
  Amounts <- MCAmounts
  MIN_ENTRY_AMOUNT_SOMPI = 4
  MAX_REASONABLE_SOMPI = 6
  Change = {0, 5}
  Fallbacks = 3
INVARIANTS
  TypeOK
  ExitTellsOutcome
  LockedWithinFallbacks
CHECK_DEADLOCK FALSE
