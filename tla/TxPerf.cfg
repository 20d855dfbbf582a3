SPECIFICATION Spec
CONSTANTS
  Lines <- MCLines
  MaxLines = 3
  Buffer = 1
  Window = 1
  MaxClock = 2
  TopSlowest = 2
  HistMax = 4
INVARIANT SummariesHold
PROPERTY EndsUnlessStuck
CHECK_DEADLOCK FALSE
