SPECIFICATION Spec
CONSTANTS
  MaxUid = 2
  BatchSize = 2
  FetchBufferSize = 2
  OutCap = 1
  UpdCap = 1
  DisableDeletions = FALSE
  MaxFaults = 1
  OtherUpdates = TRUE
INVARIANTS
  TypeOK NoPanic SignalNeverBlocks StopChannelFresh RemovedOnlyAcked
  NoDuplicateDelivery AckedIsQueued QueuedIsRequested ExitQuiescent
PROPERTIES OneGoroutineAtATime KeepsPromise
