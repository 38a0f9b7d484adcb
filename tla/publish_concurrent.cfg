SPECIFICATION Spec
CONSTANTS
  Uploads = {u1}
  MaxRetries = 1
  MaxCopies = 6
  MaxRows = 1
  Ticks = {t1, t2}
  Triggers = {m1}
  Editors = {e1}
  NoOne = NoOne
  AutoPublish = TRUE
  Faults = {"transient", "lost", "refused", "garbled", "config", "llm", "db", "commit", "crash", "ytdelete"}
  MaxFaults = 2
INVARIANTS AtMostOneTransmit
PROPERTIES DecisionKept
CHECK_DEADLOCK FALSE
