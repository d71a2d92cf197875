CONSTANTS
  MaxSsn = 12
  W = 4
  WordLen = 2
  MaxLen = 3
  CpWorkers = 2
  CpPackets = 4
  CpKind <- MCKind
  CpStation = {3, 4}
  CpFaults = {"strange", "fail", "timeout"}
  CpMaxFaults = 1
  UxCount = 2
  UxMaxData = 3
  UxMaxEvents = 2
  UxMaxSuspends = 1
  UcSequence = 3
  UcMaxCmds = 8
  UcFaults = {"send", "recv", "short"}
  UcMaxFaults = 4
  FwBlocks = 2
  FwAttempts = 3
  FwFaults = {"file", "memory", "mcu", "load", "corrupt"}
  FwMaxFaults = 2
  AbMaxQueue = 2
  AbBurst = 2
  AbMaxBlocked = 1
  AbFrames = 4
  AbMaxAps = 2
  AbMaxRefused = 1
  AbMaxNotes = 3
  RxHeader = 2
  RxLens = {3, 4, 5}
  RxMaxFrame = 4
  RxMaxLen = 3
  RxTails <- MCTails
  RxNoise = {0, 1, 3}
  RxMaxNext = 6
SPECIFICATION PartsSpec
INVARIANTS
  PartsTypeOK
  WalkIsExact
  IndexInMap
  CpInOrder
  CpFreedInHand
  UxDelivery
  UcReadCurrent
  FwLoadedRight
  FwRetryWorks
  AbTold
  RxExact
PROPERTIES
  CpAllLeave
  UxListens
  AbNoneStuck
CHECK_DEADLOCK FALSE
