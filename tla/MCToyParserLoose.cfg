CONSTANTS
  Inputs <- LooseInputs
  Programs <- NoPrograms
SPECIFICATION ReadSpec
INVARIANT AcceptsOnlyTheGrammar
CHECK_DEADLOCK FALSE
