\* Two loops that may hold both permits, and the iterations that wait for one.
SPECIFICATION FairSpec
CONSTANTS
  Flows <- LiveFlows
  NodeIds <- AllNodeIds
  NoNode = "none"
  MaxConcurrent = 2
  DepthLimit = 1
  MaxExec = 4
  MaxTops = 2
  MaxCancels = 0
INVARIANTS
  MetricsAddUp
  RegistryExact
PROPERTIES
  EveryExecutionEnds
CHECK_DEADLOCK FALSE
