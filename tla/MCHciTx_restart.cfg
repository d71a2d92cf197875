SPECIFICATION Spec
CONSTANTS
  NumQueues = 2
  Frames = {1, 2}
  QueueOf <- MCQueueOf
  Pages <- MCPages
  PageMax = 3
  IdMax = 2
  OutMax <- MCOutMax
  InMax = 2
  LowTrigger = 1
  HasTrigger = FALSE
  Callers = {"tx", "mac"}
  MayDo <- MCMayDo
  MaxOps = 3
  Events = {"bus", "rx", "rxfail", "read"}
  MaxEvents = 2
CHECK_DEADLOCK FALSE
INVARIANT Armed
PROPERTY ImplementsTxQueues
