\* With a well-behaved futex the exitless path refines OcallService.
CONSTANTS
  Threads = {t1, t2}
  Workers = {w1}
  QueueSize = 1
  SpinBound = 2
  MaxCalls = 2
  Results <- MCResults
  Exitless = TRUE
  FutexMayFail = FALSE
SPECIFICATION Spec
PROPERTY ImplementsService
