SPECIFICATION ContentSpec
CONSTANTS
  MaxAttempts = 1
  MaxCalls = 1
  MaxRows = 10
CHECK_DEADLOCK FALSE
INVARIANT PublishedIsLive
