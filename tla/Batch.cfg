\* Batches of up to six requests over HTTP and over a WebSocket with a window of
\* up to three, with requests that complete in any order.
SPECIFICATION Spec
CONSTANTS
  MaxLen = 6
  MaxInFlight = 3
INVARIANTS
  TypeOK
  WindowFull
  AnswerInPlace
  ExecutedOnce
CHECK_DEADLOCK FALSE
