CONSTANTS
  Crates <- MirTestOnly
  MaxVecs = 0
  MaxLen = 0
SPECIFICATION HostSpec
INVARIANT ArgCountMatches
