SPECIFICATION Spec
CONSTANTS
  MaxBlocks = 4
  MaxInstrs = 6
  NumVars = 1
  InstrCost = 0
  Budget = 4
INVARIANTS
  PhiOperandsLiveOut
CHECK_DEADLOCK FALSE
