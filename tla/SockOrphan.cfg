CONSTANTS
  Ops <- MCAcceptOps
  Lens <- MCAcceptLens
  HostLens <- MCKernelLens
  StackBuf = 2
  StackCap = 3
  MaxCalls = 2
SPECIFICATION Spec
INVARIANT NoOrphanSocket
