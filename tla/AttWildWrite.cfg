CONSTANTS
  Width = 2
  StackCap = 2
  MallocMayFail = FALSE
SPECIFICATION Spec
INVARIANT NoWildWrite
