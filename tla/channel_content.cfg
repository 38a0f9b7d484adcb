SPECIFICATION ContentSpec
CONSTANTS
  MaxAttempts = 2
  MaxCalls = 1
  MaxRows = 10
CHECK_DEADLOCK FALSE
PROPERTIES ResetEmpties NothingWithoutRun
