SPECIFICATION PumpSpec
CONSTANTS
  MaxUid = 3
  BatchSize = 2
  FetchBufferSize = 2
  OutCap = 1
  UpdCap = 1
  DisableDeletions = FALSE
  MaxFaults = 0
  OtherUpdates = FALSE
  IngestCap = 1
  MaxCrashes = 0
  MayStop = FALSE
INVARIANT NoWaitCycle
CHECK_DEADLOCK FALSE
