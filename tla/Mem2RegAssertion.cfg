SPECIFICATION Spec
CONSTANTS
  MaxBlocks = 4
  MaxInstrs = 1
  NumVars = 1
  InstrCost = 0
  Budget = 4
  Options = {{"mem2reg"}}
  AloneBlocks = 0
INVARIANTS
  PhiParameterAssertion
CHECK_DEADLOCK FALSE
