CONSTANTS
  StackSize = 3
  MaxDyn = 2
  MaxStatic = 2
  PoolSize = 4
  Sizes <- MCSizes
  Errors <- MCErrors
  Errnos <- MCErrnos
  MaxDefers = 4
SPECIFICATION Spec
INVARIANTS TypeOK EachOnce ArgsDisjoint ErrorIsOwn
PROPERTIES LatestFirst
\* abort() ends the program
CHECK_DEADLOCK FALSE
