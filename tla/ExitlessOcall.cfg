\* Exitless path with a well-behaved futex and two RPC workers: safety and liveness.
CONSTANTS
  Threads = {t1, t2}
  Workers = {w1, w2}
  QueueSize = 1
  SpinBound = 2
  MaxCalls = 2
  Results <- MCResults
  Exitless = TRUE
  FutexMayFail = FALSE

SPECIFICATION Spec
INVARIANT TypeOK
INVARIANT FreshResult
INVARIANT NoAliasAfterReturn
PROPERTY OcallReturns
