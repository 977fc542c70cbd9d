SPECIFICATION Spec
CONSTANTS
  MaxBlocks = 7
  MaxInstrs = 3
  NumVars = 1
  InstrCost = 3
  Budget = 16
INVARIANTS
  LiveOutIsLiveness
  NothingLiveAtEntry
PROPERTIES
  AnalysisEnds
CHECK_DEADLOCK FALSE
