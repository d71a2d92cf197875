SPECIFICATION PtFairSpec
CONSTANTS
  HpQueues = 2
  HpFrames = {1,2,3}
  HpQueueOf <- MCQueueOf
  HpMaxSize = 2
  HpResume = 1
  HpChipSize = 1
  HpMaxErrors = 0
  HpFaults = {"bus","gone","read"}
  HpMaxFaults = 1
  HpPauses = {{0,1}}
  HpMaxOps = 1
  PtAmpdu = {1}
  PtWindow = 1
  PtUpper = 1
  PtLower = 0
CHECK_DEADLOCK FALSE
INVARIANTS
  PtTypeOK
  FcStopNeeded
PROPERTIES
  HpImplementsTxQueues
  PtEventuallySent
