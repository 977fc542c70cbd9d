SPECIFICATION Spec
CONSTANTS
  Names = {x}
  VarTypes = {"i32*", "float*"}
  ParamTypes = {"i32**"}
  ReturnTypes = {"i32", "float"}
  Size = 2
  IntLiterals = {1}
  FloatLiterals = {10}
  Ops = {"+", "-", "*", "/"}
  Depth = 2
  Width = 3
INVARIANT FoldKeepsOutcome
CHECK_DEADLOCK FALSE
