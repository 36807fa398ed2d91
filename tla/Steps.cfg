\* Two executions over one graph with every node kind but loops.
SPECIFICATION Spec
CONSTANTS
  Flows <- StepFlows
  NodeIds <- AllNodeIds
  NoNode = "none"
  MaxConcurrent = 1
  DepthLimit = 1
  MaxExec = 2
  MaxTops = 2
  MaxCancels = 2
INVARIANTS
  TypeOK
  CompletedRanThrough
CHECK_DEADLOCK FALSE
