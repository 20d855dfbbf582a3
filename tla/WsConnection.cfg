\* An oversized batch and a call that compete for two permits, a bad frame, a
\* subscription, two messages of reth, a channel with room for one, and a client
\* that may stop reading.
SPECIFICATION FairSpec
CONSTANTS
  batch = batch
  call = call
  sub = sub
  bad = bad
  NoMessage = NoMessage
  Messages = {batch, call, sub, bad}
  Kind <- KindOf
  Size <- SizeOf
  Buffer = 1
  MaxInFlight = 2
  MaxEvents = 2
INVARIANTS
  TypeOK
  PermitsConserved
  RepliesAccounted
  OutputBounded
PROPERTIES
  ImplementsContract
  TasksEnd
  MainLoopAdvances
  ClosingEnds
  IdleReaderIsClosed
CHECK_DEADLOCK FALSE
