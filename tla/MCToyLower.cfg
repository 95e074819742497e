SPECIFICATION Spec
CONSTANTS
  Names <- MCNames
  Exprs <- MCExprs
  Functions <- MCFunctions
  I32Card = 8
  MaxStmts = 2
INVARIANTS
  TypeOK
  BlocksChained
  StorageLiveOnce
  UsedWhileStored
  TemporariesDie
  DeclaredTypeHolds
PROPERTY Terminates
CHECK_DEADLOCK FALSE
