SPECIFICATION Spec
CONSTANTS
  MaxBlocks = 9
  MaxInstrs = 0
  NumVars = 0
  InstrCost = 0
  Budget = 9
INVARIANTS
  AssertionsHold
  IdomCorrect
  FrontierCorrect
  DomTreeSpansReachable
PROPERTIES
  IdomOnlyMovesUp
  TerminatesWithoutHalfDeadJoin
CHECK_DEADLOCK FALSE
