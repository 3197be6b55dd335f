SPECIFICATION FairSpec
CONSTANTS
  Candles = {"red"}
  MaxLevel = 1
  MaxFaults = 0
  MaxRejects = 1
  MaxRestarts = 0
  MaxOrders = 0
  MaxAlarms = 0
  Checked = TRUE
  LossAlarms = FALSE
PROPERTY OrphanIsNoticed
PROPERTY StopEndsTrade
