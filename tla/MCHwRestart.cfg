SPECIFICATION RsSpec
CONSTANTS
  RsSlots <- MCSlots
  RsStations <- MCStations
  RsGroupIdx = {1, 2}
  RsMaxOps = 5
  RsMaxAtOnce = 2
  RsMaxRestarts = 1
INVARIANTS
  RsTypeOK
  RsChipAgrees
CHECK_DEADLOCK FALSE
