\* Four submissions, a queue of two, a daemon that
\* answers anything (even an answer that kills the worker), and one restart.
SPECIFICATION Spec
CONSTANTS
  r1 = r1
  r2 = r2
  r3 = r3
  r4 = r4
  igra = igra
  native = native
  NoRequest = NoRequest
  Requests = {r1, r2, r3, r4}
  TxOf <- SameTx
  NetworkFees = {1, 4}
  GasFloor = 2
  QueueCapacity = 2
  MaxAttempts = 2
  Enforced = TRUE
  Lane = igra
  Subnets <- AllSubnets
  Batches <- AnyAnswer
  MaxCrashes = 1
SYMMETRY AnyRequest
INVARIANTS
  TypeOK
  Accounted
  LossNeedsOutage
  FailureIsFinal
  AtMostOnce
  LaneSafety
PROPERTIES
  ImplementsContract
CHECK_DEADLOCK FALSE
