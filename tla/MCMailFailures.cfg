SPECIFICATION Spec
CONSTANTS
  MaxMails = 4
  MaxFailures = 1
  MaxRestarts = 1
INVARIANT FailedMailStays
CHECK_DEADLOCK FALSE
