SPECIFICATION Spec
CONSTANTS
  MaxBlocks = 10
  MaxInstrs = 3
  NumVars = 1
  InstrCost = 2
  Budget = 10
  WithMem2Reg = {FALSE, TRUE}
  Mem2RegBlocks = 7
INVARIANTS
  LoopTypeOK
  BasesAreGone
  EveryLoopHasBase
  LoopsAreNatural
  InnerLoopIsInnermost
  ParentLoopIsAround
  HoistKeepsInstructions
  DefinitionsStillDominate
  NothingMovableLeft
  HoistedUpwards
PROPERTIES
  SearchEnds
CHECK_DEADLOCK FALSE
