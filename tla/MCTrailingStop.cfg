SPECIFICATION Spec
CONSTANTS
  Entries = {7, 25, 50, 70}
  Discounts = {60, 100}
  MaxPrice = 280
  HalfUp <- MixedHalfUp
  Meets <- MixedMeets
INVARIANTS TypeOK StopOfPeak StopBelowPeak TwoLevels
