CONSTANTS
  NumFrames = 3
  MaxSsn = 6
  FirstSsn = 4
  W = 3
  MaxAggr = 2
  RetryMax = 2
  MaxRun = 8
  MaxSlots = 2
  FcUpper = 2
  FcLower = 0
  AckHigh = 2
  AckLow = 1
  Faults = {}
  MaxFaults = 0
SPECIFICATION Spec
CONSTRAINT Bounded
INVARIANTS
  WindowShape
  InOrder
PROPERTY AckedIsFinal
