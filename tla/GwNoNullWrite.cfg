\* Checks NoNullWrite against what the wrappers do.
CONSTANTS
  Ops <- MCOps
  Counts <- MCCounts
  StackBuf = 2
  StackCap = 4
  MaxCalls = 3

SPECIFICATION Spec
INVARIANT NoNullWrite
