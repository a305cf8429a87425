CONSTANTS
  Width = 2
  StackCap = 2
  MallocMayFail = TRUE
SPECIFICATION Spec
INVARIANTS TypeOK SuccessFieldsInEnclave NoLeakOnFailure
