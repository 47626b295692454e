SPECIFICATION FairSpec
CONSTANTS
  a = a
  b = b
  none = none
  Root <- MCRoot
  NoPath <- MCNoPath
  OtherCalls <- MCOther
  Procs <- MCTwo
  Paths <- MCOnePath
  AccModes <- MCReadOnly
  Signals <- MCNone
  Cbs <- MCFileCbs
  DenyRead <- MCDeny
  DenyWrite <- MCNone
  Faults <- MCFaults
  MaxCalls = 1
PROPERTIES
  StopsResumed
  ShellStarts
\* every process may have exited, or made all its calls
CHECK_DEADLOCK FALSE
