SPECIFICATION FairSpec
CONSTANTS
  Zones <- MCZones
  Configs <- MCConfigs
  Floors <- MCFloors
  ChunkSize = 2
  MaxSize = 5
  Faults = {"token", "refused", "timeout", "partial", "crash"}
  MaxFaults = 2
  MaxCalls = 3
CHECK_DEADLOCK FALSE
INVARIANTS EarliestPeak
PROPERTIES ImplementsUploadCall
