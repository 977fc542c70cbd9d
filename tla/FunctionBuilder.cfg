\* Every body with up to ten blocks (three branching statements nested or in
\* sequence, or two and a checked array access), and with up to three blocks
\* when it holds a load, store, call or array.
SPECIFICATION BuilderSpec
CONSTANTS
  MaxBlocks = 10
  MaxInstrs = 1
  NumVars = 1
  InstrCost = 7
  Budget = 10
INVARIANTS
  BuilderTypeOK
  NoCodeAfterTerminator
  EdgesMatchBranches
  OpenStatementsApart
  OpenBlocksAwaited
  ReducibleWhenDone
CHECK_DEADLOCK FALSE
