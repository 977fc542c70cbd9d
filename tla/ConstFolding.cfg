SPECIFICATION Spec
CONSTANTS
  Names = {x}
  VarTypes = {"i32*", "float*", "[i32]*"}
  ParamTypes = {"i32**"}
  ReturnTypes = {"i32", "float"}
  Size = 4
  IntLiterals = {1}
  FloatLiterals = {10}
  Ops = {"<=", "/"}
  Depth = 2
  Width = 3
INVARIANTS
  FoundIsLexical
  OperandsTyped
  ValueAsWritten
  NoUseOfDeleted
  FoldKeepsOutcomeOfWhole
CHECK_DEADLOCK FALSE
