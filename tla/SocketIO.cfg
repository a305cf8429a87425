CONSTANTS
  Ops <- MCOps
  Counts <- MCCounts
  Lens <- MCLens
  UIntWidth = 3
  StackBuf = 2
  StackCap = 5
  MaxCalls = 2
SPECIFICATION Spec
INVARIANTS TypeOK UstackReset HeapReleased RecvOutputsBounded RecvCopiesFromHost
