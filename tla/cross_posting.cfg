SPECIFICATION FairSpec
CONSTANTS
  Films = {f1}
  Ticks = {job, trigger}
  Retention = 1
  Delay = 1
  Cap = 2
  Life = 2
  Warn = 1
  Faults = {"instagram", "answer", "db", "ack", "refresh", "revoke", "crash", "torn", "overlap"}
  MaxFaults = 2
CHECK_DEADLOCK FALSE
INVARIANTS FilesNeeded TokenAlive ReelOnce
PROPERTIES CrossPostSettles
