SPECIFICATION FairSpec
CONSTANTS
  MaxUid = 2
  BatchSize = 2
  FetchBufferSize = 1
  OutCap = 1
  UpdCap = 1
  DisableDeletions = FALSE
  MaxFaults = 0
  OtherUpdates = FALSE
PROPERTIES ArrivalDelivered AckedEventuallyExpunged CloseReturns
