CONSTANTS
  NumFrames = 2
  MaxSsn = 4
  FirstSsn = 2
  W = 2
  MaxAggr = 2
  RetryMax = 2
  MaxRun = 8
  MaxSlots = 2
  FcUpper = 2
  FcLower = 0
  AckHigh = 2
  AckLow = 1
  Faults = {"air"}
  MaxFaults = 1
SPECIFICATION FairSpec
PROPERTY EventuallyReleased
