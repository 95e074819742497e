SPECIFICATION Spec
CONSTANTS
  Unset = Unset
  Threads = {t1}
  Files <- MCFiles
  Misfits <- MCMisfits
  Items <- MCItems
  Keys <- MCKeys
  Roots <- MCRoots
  Needs <- MCNeeds
  CommandLines <- MCCommandLines
  Namesake = TRUE
INVARIANT OthersDelegated
CHECK_DEADLOCK FALSE
