CONSTANTS
  NumFrames = 2
  MaxSsn = 4
  FirstSsn = 2
  W = 2
  MaxAggr = 2
  RetryMax = 2
  MaxRun = 3
  MaxSlots = 2
  FcUpper = 2
  FcLower = 0
  AckHigh = 2
  AckLow = 1
  Faults = {"noba", "air", "stop", "refuse", "bypass", "alloc", "bus"}
  MaxFaults = 1
SPECIFICATION Spec
CONSTRAINT Bounded
INVARIANTS
  TypeOK
  Accounting
  GivenBackOnce
  OneRetry
  StoppedForBacklog
  EarlyCount
CHECK_DEADLOCK FALSE
