\* The host may fail the futex OCALL: every OCALL must still return.
CONSTANTS
  Threads = {t1, t2}
  Workers = {w1}
  QueueSize = 1
  SpinBound = 2
  MaxCalls = 2
  Results <- MCResults
  Exitless = TRUE
  FutexMayFail = TRUE

SPECIFICATION Spec

PROPERTY OcallReturns
