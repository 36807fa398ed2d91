SPECIFICATION FairSpec
CONSTANTS
  Mails = {m1, m2}
  BatchSize = 1
  MaxHandles = 2
  MaxWorkflows = 3
  MaxRetries = 2
INVARIANTS
  TypeOK
  OnePlace
  ActiveExact
  EachMailHandled
  NothingOutlivesSession
PROPERTIES
  ShutdownEnds
  QueuedRuns
CHECK_DEADLOCK FALSE
