SPECIFICATION Spec
CONSTANTS
  a = a
  b = b
  none = none
  Root <- MCRoot
  NoPath <- MCNoPath
  OtherCalls <- MCOther
  Procs <- MCTwo
  Paths <- MCOnePath
  AccModes <- MCReadOnly
  Signals <- MCTtySignals
  Cbs <- MCFileCbs
  DenyRead <- MCDeny
  DenyWrite <- MCNone
  Faults <- MCEintr
  MaxCalls = 1
PROPERTIES
  SignalsReinjected
\* every process may have exited, or made all its calls
CHECK_DEADLOCK FALSE
