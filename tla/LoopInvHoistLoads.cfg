SPECIFICATION Spec
CONSTANTS
  MaxBlocks = 4
  MaxInstrs = 2
  NumVars = 1
  InstrCost = 0
  Budget = 4
  WithMem2Reg = {FALSE}
  Mem2RegBlocks = 0
INVARIANTS
  LoadsStillDominate
CHECK_DEADLOCK FALSE
