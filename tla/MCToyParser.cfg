CONSTANTS
  Inputs <- MCInputs
  Programs <- MCPrograms
SPECIFICATION ReadSpec
INVARIANT TypeOK
PROPERTIES ReadsTheGrammar ParseEnds
CHECK_DEADLOCK FALSE
