SPECIFICATION FairSpec
CONSTANTS
  yahoo = yahoo
  gmail = gmail
  INBOX = INBOX
  Junk = Junk
  Sources = {yahoo, gmail}
  Target <- OneTarget
  Backlog <- TwoAndOne
  FetchBufferSize = 1
  OutCap = 1
  IngestCap = 1
  MaxFaults = 1
INVARIANTS MultiTypeOK NoSendOnClosed NothingLeftOpen NoSourceLosesMail
PROPERTIES MovesEachSource MovesOrEnds
CHECK_DEADLOCK FALSE
