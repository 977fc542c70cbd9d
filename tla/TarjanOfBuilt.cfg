SPECIFICATION Spec
CONSTANTS
  MaxBlocks = 7
  MaxInstrs = 0
  NumVars = 0
  InstrCost = 0
  Budget = 7
INVARIANTS
  StackIsChained
PROPERTIES
  FindsTheComponents
CHECK_DEADLOCK FALSE
