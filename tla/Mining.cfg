\* Two calls over a pool of one thread, three nonces, the code's three fallbacks: the
\* second call starts while the search of the first, timed out, may hold the thread.
SPECIFICATION FairSpec
CONSTANTS
  Calls = 2
  MaxNonce = 2
  Fallbacks = 3
  PoolSize = 1
  OutputLists <- MCOutputLists
INVARIANTS
  TypeOK
  ExhaustedMeansAll
  SpendsOnlyIfItMust
PROPERTIES
  CallIsAnswered
  AbandonedSearchEnds
CHECK_DEADLOCK FALSE
