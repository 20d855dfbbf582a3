\* No restart, but a daemon answer whose decoding panics.
SPECIFICATION Spec
CONSTANTS
  r1 = r1
  r2 = r2
  r3 = r3
  r4 = r4
  igra = igra
  native = native
  NoRequest = NoRequest
  Requests = {r1, r2}
  TxOf <- TwoTxs
  NetworkFees = {1, 3}
  GasFloor = 2
  QueueCapacity = 1
  MaxAttempts = 2
  Enforced = TRUE
  Lane = igra
  Subnets <- AllSubnets
  Batches <- Unwinding
  MaxCrashes = 0
INVARIANTS
  NeverSilent
CHECK_DEADLOCK FALSE
