\* Fair handlers and worker, lane enforcement off, transactions of every kind against
\* base fees around the floor, retries, a dying worker and one restart.
SPECIFICATION FairSpec
CONSTANTS
  r1 = r1
  r2 = r2
  r3 = r3
  r4 = r4
  igra = igra
  native = native
  NoRequest = NoRequest
  Requests = {r1, r2, r3, r4}
  TxOf <- FourTxs
  NetworkFees = {1, 3}
  GasFloor = 2
  QueueCapacity = 1
  MaxAttempts = 2
  Enforced = FALSE
  Lane = igra
  Subnets <- AllSubnets
  Batches <- Unwinding
  MaxCrashes = 1
INVARIANTS
  FeeSafety
PROPERTIES
  AcceptedSettles
CHECK_DEADLOCK FALSE
