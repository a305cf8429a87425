\* A futex OCALL that fails (EINTR or a hostile host) makes sgx_exitless_ocall
\* return -EPERM while a worker still owns the RD: is the next result fresh?
CONSTANTS
  Threads = {t1, t2}
  Workers = {w1}
  QueueSize = 1
  SpinBound = 2
  MaxCalls = 2
  Results <- MCResults
  Exitless = TRUE
  FutexMayFail = TRUE

SPECIFICATION Spec
INVARIANT FreshResult
