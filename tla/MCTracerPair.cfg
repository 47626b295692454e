SPECIFICATION Spec
CONSTANTS
  a = a
  b = b
  none = none
  Root <- MCRoot
  NoPath <- MCNoPath
  OtherCalls <- MCOther
  Procs <- MCTwo
  Paths <- MCPaths
  AccModes <- MCReadWrite
  Signals <- MCNone
  Cbs <- MCCbs
  DenyRead <- MCDeny
  DenyWrite <- MCDeny
  Faults <- MCPairFaults
  MaxCalls = 2
INVARIANTS
  TypeOK
  NoForgottenStop
  DeniedSeesEPERM
  UndeniedUntouched
  CleanReportedOnce
  CleanDenialsDecided
\* every process may have exited, or made all its calls
CHECK_DEADLOCK FALSE
