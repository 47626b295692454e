CONSTANTS
  StackSize = 12
  MaxDyn = 12
  MaxStatic = 6
  PoolSize = 48
  WordexpSize = 24
  Sizes <- MCSizes
  Errors <- MCErrors
  Errnos <- MCErrnos
  MaxDefers = 8
  MaxNames = 3
  MaxCalls = 2
SPECIFICATION Spec
INVARIANTS LenIsTracked
