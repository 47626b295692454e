CONSTANTS
  Rows <- MCRows
  PtyCap = 2
  MaxResizes = 2
  MaxWrites = 2
  MaxKeys = 1
SPECIFICATION Spec
INVARIANTS TypeOK SizeStaleOnlyIf TerminalRestored
PROPERTIES OutputShown CallsResumed EndsWithChild SizeSettles
\* prom ends
CHECK_DEADLOCK FALSE
