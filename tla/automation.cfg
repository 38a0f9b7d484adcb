SPECIFICATION FairSpec
CONSTANTS
  Channels = {c1, c2}
  Schedulers = {main}
  Main = main
  Operators = {o1}
  Slots = 1
  ShortsOnly = 1
  Interval = 1
  LowRam = FALSE
  Faults = {"topic", "db", "ack", "crash"}
  MaxFaults = 1
  MaxRequests = 2
  MaxRuns = 1
  MaxWaiting = 1
  Tallied = {c1}
CHECK_DEADLOCK FALSE
INVARIANTS OncePerDay
PROPERTIES StopKept EveryActiveServed LongComes
