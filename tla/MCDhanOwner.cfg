SPECIFICATION FairSpec
CONSTANTS
  Candles = {"bullish"}
  MaxLevel = 1
  MaxFaults = 1
  MaxRejects = 0
  MaxRestarts = 0
  MaxOrders = 2
  MaxAlarms = 3
  Checked = TRUE
  LossAlarms = TRUE
PROPERTY OrphanIsSquared
