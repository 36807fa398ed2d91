\* A loop node that retries, and its iterations.
SPECIFICATION Spec
CONSTANTS
  Flows <- LoopFlows
  NodeIds <- AllNodeIds
  NoNode = "none"
  MaxConcurrent = 2
  DepthLimit = 1
  MaxExec = 4
  MaxTops = 1
  MaxCancels = 2
INVARIANTS
  IterationsDoNotOverlap
  OrphansComeFromCancels
PROPERTIES
  CancelHonoured
  ImplementsLifecycle
CHECK_DEADLOCK FALSE
