SPECIFICATION Spec
CONSTANTS
  Unset = Unset
  Threads = {t1, t2}
  Files <- MCFiles
  Misfits <- MCMisfits
  Items <- MCItems
  Keys <- MCKeys
  Roots <- MCRoots
  Needs <- MCNeeds
  CommandLines <- MCCommandLines
  Namesake = FALSE
INVARIANTS
  TypeOK
  SameOwner
  PanicsOnlyOnBadInput
PROPERTIES
  KeepsContract
  EveryDemandAnswered
CHECK_DEADLOCK FALSE
