\* Two handlers that call again and again, an entry that lives one tick, fetches of up
\* to two, and base fees on both sides of the floor.
SPECIFICATION Spec
CONSTANTS
  Handlers = {h1, h2}
  NetworkFees = {1, 3}
  GasFloor = 2
  Lifetime = 1
  MaxFetch = 2
  MaxTime = 4
INVARIANTS
  TypeOK
  FeeIsRecent
  AdviceIsAccepted
CHECK_DEADLOCK FALSE
