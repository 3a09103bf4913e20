SPECIFICATION FairSpec
CONSTANTS
  Quitters = {q1, q2}
  Calls = {"idle", "mailbox", "fetch", "uidStore", "expunge", "append"}
  Second = 2
  CfgMaxDelay = 5
PROPERTY ShutdownReleases
CHECK_DEADLOCK FALSE
