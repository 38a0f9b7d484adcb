SPECIFICATION MCSpec
CONSTANTS
  Runs = {r1, r2}
  Topics = {tp1}
  NoRun = NoRun
  MaxRetries = 2
  Faults = {"transient", "permanent", "db", "ack", "crash"}
  MaxFaults = 4
CHECK_DEADLOCK FALSE
INVARIANTS CompleteHasUpload OneUploadPerRun RetryBudget
PROPERTIES ImplementsRunLifecycle RunningEnds
