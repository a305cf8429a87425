\* Every wrapper under a hostile host, with or without an RPC queue: stack
\* hygiene, heap release, copy-out results, input isolation, termination.
CONSTANTS
  Ops <- MCOps
  Counts <- MCCounts
  StackBuf = 2
  StackCap = 4
  MaxCalls = 3

SPECIFICATION FairSpec
INVARIANT TypeOK
INVARIANT WrappersResetUstack
INVARIANT HeapReleased
INVARIANT CopyOutMatchesReturn
INVARIANT InputsFromEnclave
INVARIANT ArgsLive
INVARIANT CopiesFromHost
PROPERTY WrapperReturns
