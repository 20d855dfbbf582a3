\* A client that stops reading while it has bad frames answered.
SPECIFICATION FairSpec
CONSTANTS
  batch = batch
  call = call
  sub = sub
  bad = bad
  NoMessage = NoMessage
  Messages = {call, bad}
  Kind <- KindOf
  Size <- SizeOf
  Buffer = 1
  MaxInFlight = 1
  MaxEvents = 1
PROPERTIES
  IdleClientIsClosed
CHECK_DEADLOCK FALSE
