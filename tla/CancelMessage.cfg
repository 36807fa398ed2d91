SPECIFICATION Spec
CONSTANTS
  Flows <- LiveFlows
  NodeIds <- AllNodeIds
  NoNode = "none"
  MaxConcurrent = 2
  DepthLimit = 1
  MaxExec = 2
  MaxTops = 1
  MaxCancels = 0
INVARIANTS
  CancelledByUser
CHECK_DEADLOCK FALSE
