SPECIFICATION Spec
CONSTANTS
  NumQueues = 2
  Frames = {2, 3, 4}
  QueueOf <- MCQueueOf
  Pages <- MCPages
  PageMax = 3
  IdMax = 2
  OutMax <- MCOutMax
  InMax = 2
  LowTrigger = 1
  HasTrigger = FALSE
  Callers = {"tx", "cfg"}
  MayDo <- MCMayDo
  MaxOps = 3
  Events = {"rx"}
  MaxEvents = 1
CHECK_DEADLOCK FALSE
INVARIANTS
  TypeOK
  MaskWritten
  ChipFits
