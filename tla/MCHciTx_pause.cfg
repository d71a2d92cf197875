SPECIFICATION Spec
CONSTANTS
  NumQueues = 2
  Frames = {1, 2, 3}
  QueueOf <- MCQueueOf
  Pages <- MCPages
  PageMax = 3
  IdMax = 2
  OutMax <- MCOutMax
  InMax = 2
  LowTrigger = 1
  HasTrigger = TRUE
  Callers = {"tx", "cfg", "dpd"}
  MayDo <- MCMayDo
  MaxOps = 3
  Events = {}
  MaxEvents = 0
CHECK_DEADLOCK FALSE
INVARIANTS
  StatusSeen
  PauseAgrees
  PauseHolds
