SPECIFICATION Spec
CONSTANTS
  a = a
  b = b
  none = none
  Root <- MCRoot
  NoPath <- MCNoPath
  OtherCalls <- MCOther
  Procs <- MCOne
  Paths <- MCPaths
  AccModes <- MCAllModes
  Signals <- MCSignals
  Cbs <- MCCbs
  DenyRead <- MCDeny
  DenyWrite <- MCNone
  Faults <- MCRare
  MaxCalls = 3
INVARIANTS
  SingleReportedOnce
PROPERTIES
  ImplementsMonitor
\* every process may have exited, or made all its calls
CHECK_DEADLOCK FALSE
