SPECIFICATION Spec
CONSTANTS
  Candles = {"red", "bullish"}
  MaxLevel = 1
  MaxFaults = 0
  MaxRejects = 0
  MaxRestarts = 0
  MaxOrders = 0
  MaxAlarms = 1
  Checked = TRUE
  LossAlarms = TRUE
INVARIANTS TypeOK ShortHasCause EntriesAreBounded StopFollowsRow
PROPERTY FollowsDay
