SPECIFICATION FairSpec
CONSTANTS
  Quitters = {q1, q2}
  Calls = {"idle", "mailbox", "fetch", "uidStore", "expunge", "append"}
  Second = 2
  CfgMaxDelay = 5
INVARIANTS TypeOK AnswersAwaited DelayInRange HurriedBounded OneLogout
PROPERTIES IdleCancellable LogoutReturns
CHECK_DEADLOCK FALSE
