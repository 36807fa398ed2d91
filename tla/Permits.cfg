\* Short executions and loops over them that compete for two permits.
SPECIFICATION Spec
CONSTANTS
  Flows <- PermitFlows
  NodeIds <- AllNodeIds
  NoNode = "none"
  MaxConcurrent = 2
  DepthLimit = 1
  MaxExec = 4
  MaxTops = 4
  MaxCancels = 1
INVARIANTS
  PermitConservation
  NoLostWakeup
  QueueMatchesWaiters
  NobodyStuck
PROPERTIES
  CancelledInQueueNeverRuns
CHECK_DEADLOCK FALSE
