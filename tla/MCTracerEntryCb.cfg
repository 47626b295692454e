SPECIFICATION Spec
CONSTANTS
  a = a
  b = b
  none = none
  Root <- MCRoot
  NoPath <- MCNoPath
  OtherCalls <- MCOther
  Procs <- MCTwo
  Paths <- MCOnePath
  AccModes <- MCReadOnly
  Signals <- MCNone
  Cbs <- MCCbs
  DenyRead <- MCNone
  DenyWrite <- MCNone
  Faults <- MCNone
  MaxCalls = 2
INVARIANTS
  SyscallCbBeforeEntry
\* every process may have exited, or made all its calls
CHECK_DEADLOCK FALSE
