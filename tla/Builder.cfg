SPECIFICATION Spec
CONSTANTS
  a = a
  b = b
  Temps = {a, b}
  Definitions <- MCDefinitions
  Tests <- MCTests
  None = None
  Nowhere = Nowhere
  MaxIterations = 4
INVARIANT ConditionsSeeTexts
PROPERTY ImplementsDefinitionRun
CHECK_DEADLOCK FALSE
