SPECIFICATION Spec
CONSTANTS
  Flows <- TightFlows
  NodeIds <- AllNodeIds
  NoNode = "none"
  MaxConcurrent = 2
  DepthLimit = 1
  MaxExec = 1
  MaxTops = 1
  MaxCancels = 0
INVARIANTS
  MaxIterationsMeansUnfinished
CHECK_DEADLOCK FALSE
