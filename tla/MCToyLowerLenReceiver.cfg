SPECIFICATION Spec
CONSTANTS
  Names <- MCNames
  Exprs <- MCExprs
  Functions <- LenFunctions
  I32Card = 8
  MaxStmts = 2
INVARIANT LenReceiverIsRef
CHECK_DEADLOCK FALSE
