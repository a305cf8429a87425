\* Checks UstackReset (spec I2) against ocall_resume_thread / ocall_clone_thread.
CONSTANTS
  Ops <- MCLeakOps
  Counts <- MCCounts
  StackBuf = 2
  StackCap = 4
  MaxCalls = 3

SPECIFICATION Spec
INVARIANT UstackReset
