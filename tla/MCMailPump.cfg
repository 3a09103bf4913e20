SPECIFICATION PumpSpec
CONSTANTS
  MaxUid = 2
  BatchSize = 2
  FetchBufferSize = 1
  OutCap = 1
  UpdCap = 1
  DisableDeletions = FALSE
  MaxFaults = 1
  OtherUpdates = FALSE
  IngestCap = 1
  MaxCrashes = 1
  MayStop = FALSE
INVARIANTS PumpTypeOK NoMailLost CopiedOnce
PROPERTY MovesMail
CHECK_DEADLOCK FALSE
