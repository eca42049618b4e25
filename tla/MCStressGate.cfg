\* Limits below, at and above two batches; a request, a look or the emulator lost.
SPECIFICATION StressSpec
CONSTANTS
  Limits = {1, 3, 4, 5}
  BatchCap = 2
  Percent <- Loads
  CascadeLimit = 2
  NormalShare = 8
  ThresholdShare = 4
  PhaseTime = 4
  RecoveryTime = 4
  MaxLost = 2
INVARIANTS LargeLimitsPass 
PROPERTIES EndsWithVerdict
CHECK_DEADLOCK FALSE
