SPECIFICATION Spec
CONSTANTS
  Candles = {"red", "bullish"}
  MaxLevel = 1
  MaxFaults = 1
  MaxRejects = 1
  MaxRestarts = 1
  MaxOrders = 0
  MaxAlarms = 0
  Checked = FALSE
  LossAlarms = FALSE
INVARIANTS ShortHasCause EntriesAreBounded StopFollowsRow
PROPERTY FollowsDay
CHECK_DEADLOCK FALSE
