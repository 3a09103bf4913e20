SPECIFICATION MoveSpec
CONSTANTS
  MaxUid = 1
  BatchSize = 2
  FetchBufferSize = 1
  OutCap = 1
  UpdCap = 1
  DisableDeletions = FALSE
  MaxFaults = 0
  OtherUpdates = FALSE
  IngestCap = 1
  MaxCrashes = 1
  MayStop = TRUE
PROPERTY MessagesMove
CHECK_DEADLOCK FALSE
