SPECIFICATION FairPumpSpec
CONSTANTS
  MaxUid = 2
  BatchSize = 2
  FetchBufferSize = 1
  OutCap = 1
  UpdCap = 1
  DisableDeletions = FALSE
  MaxFaults = 0
  OtherUpdates = FALSE
  IngestCap = 1
  MaxCrashes = 0
  MayStop = TRUE
PROPERTY ShutdownCompletes
CHECK_DEADLOCK FALSE
