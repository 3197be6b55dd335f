SPECIFICATION FairSpec
CONSTANTS
  MaxMails = 4
  MaxFailures = 1
  MaxRestarts = 1
INVARIANTS TypeOK NothingIsLost SentOnce
PROPERTY EveryMailGoesOut
CHECK_DEADLOCK FALSE
