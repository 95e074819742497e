SPECIFICATION CompileSpec
CONSTANTS
  Names <- MCNames
  Exprs <- MCExprs
  Functions <- MCFunctions
  ArgValues <- MCArgValues
  I32Card = 16
  MaxStmts = 2
  Shadowing = TRUE
INVARIANT NeverUndefined
CHECK_DEADLOCK FALSE
