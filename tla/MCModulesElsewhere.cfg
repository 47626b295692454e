CONSTANTS
  p1 = p1  p2 = p2
  n1 = n1  n2 = n2  dot = dot
  f1 = f1  f2 = f2
  Procs <- MCProcs
  Names <- MCNames
  Hidden <- MCHidden
  Files <- MCFiles
  None = None
  Broken = Broken
  Cwd = "elsewhere"
  MaxBuilds = 1
SYMMETRY MCSymmetry
SPECIFICATION Spec
INVARIANTS AddedIsLinked
\* the commands end
CHECK_DEADLOCK FALSE
