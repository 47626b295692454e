CONSTANTS
  Kinds <- MCKinds
  Lead = "O"
  BufCap = 4
  PtyCap = 3
  MaxKeys = 4
  MaxExtras = 1
SPECIFICATION Spec
INVARIANTS TypeOK KeysInOrder LostOnlyIfFull
PROPERTIES KeysPassedOn
\* the user stops typing
CHECK_DEADLOCK FALSE
