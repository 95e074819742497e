CONSTANTS
  Crates <- MCCrates
  MaxVecs = 2
  MaxLen = 3
SPECIFICATION HostSpec
INVARIANTS NeverUndefined DestroyedOnce
PROPERTY CallsReturn
