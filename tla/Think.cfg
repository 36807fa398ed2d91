\* Three callers of an agent; a breaker that opens after two failures.
SPECIFICATION FairSpec
CONSTANTS
  Callers = {c1, c2, c3}
  MaxAttempts = 2
  MaxWait = 1
  Rate = 1
  Capacity = 2
  FailureThreshold = 2
  RecoveryTime = 2
  HalfOpenMax = 2
INVARIANTS
  TypeOK
  BreakerAddsUp
PROPERTIES
  OpenKeepsCallsAway
  EveryThinkEnds
