SPECIFICATION CompileSpec
CONSTANTS
  Names <- MCNames
  Exprs <- MCExprs
  Functions <- MCFunctions
  ArgValues <- MCArgValues
  I32Card = 16
  MaxStmts = 2
  Shadowing = FALSE
INVARIANTS NeverUndefined BodiesPassChecks
PROPERTIES ImplementsMeaning CallReturns
CHECK_DEADLOCK FALSE
