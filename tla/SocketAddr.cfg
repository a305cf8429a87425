CONSTANTS
  Ops <- MCOps
  Lens <- MCLens
  HostLens <- MCHostLens
  StackBuf = 2
  StackCap = 3
  MaxCalls = 2
SPECIFICATION Spec
INVARIANTS TypeOK AddrLenBounded UstackReset
