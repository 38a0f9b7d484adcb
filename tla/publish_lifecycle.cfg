SPECIFICATION FairSpec
CONSTANTS
  Uploads = {u1, u2}
  MaxRetries = 1
  MaxCopies = 6
  MaxRows = 1
  Ticks = {t1}
  Triggers = {}
  Editors = {e1}
  NoOne = NoOne
  AutoPublish = FALSE
  Faults = {"transient", "refused", "config", "llm", "db"}
  MaxFaults = 2
PROPERTIES ImplementsLifecycle DueIsSettled
CHECK_DEADLOCK FALSE
