SPECIFICATION Spec
CONSTANTS
  yahoo = yahoo
  gmail = gmail
  INBOX = INBOX
  Junk = Junk
  Sources = {yahoo, gmail}
  Target <- TwoTargets
  Backlog <- TwoAndOne
  FetchBufferSize = 2
  OutCap = 1
  IngestCap = 1
  MaxFaults = 1
INVARIANT GoesToItsTarget
CHECK_DEADLOCK FALSE
