SPECIFICATION FairSpec
CONSTANTS
  MaxUid = 2
  BatchSize = 2
  FetchBufferSize = 1
  OutCap = 1
  UpdCap = 1
  DisableDeletions = FALSE
  MaxFaults = 1
  OtherUpdates = FALSE
PROPERTY ArrivalDelivered
