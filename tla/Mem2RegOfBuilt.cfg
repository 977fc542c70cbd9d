SPECIFICATION Spec
CONSTANTS
  MaxBlocks = 7
  MaxInstrs = 4
  NumVars = 1
  InstrCost = 3
  Budget = 15
  Options = {{"mem2reg", "const_propagation"}, {"const_propagation"}}
  AloneBlocks = 4
INVARIANTS
  Mem2RegTypeOK
  StacksBalanced
  EdgesMatchAfterFolding
  PhiPairsOfBranches
  SameValuesUsed
  LoadsLeftReadNothing
  
CHECK_DEADLOCK FALSE
