SPECIFICATION Spec
CONSTANTS
  Settings <- MCSettings
  Arguments <- MCArguments
  Sizes <- MCSizes
  Url <- MCUrl
INVARIANT MailboxSelected
CHECK_DEADLOCK FALSE
