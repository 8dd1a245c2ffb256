SPECIFICATION Spec
CONSTANTS
  idle = idle
  lo = lo
  mid = mid
  hi = hi
  r1 = r1
  r2 = r2
  rs = rs
  none = none
  e1 = e1
  e2 = e2
  Task <- Tasks
  OsIdle = idle
  Resource = {r1, r2, rs}
  Event = {}
  RES_SCHEDULER = rs
  OS_RES_SCHEDULER_PRIO = 32
  NO_TASK_OWNER = none
  prio <- Prios
  scheduling <- AllFull
  proc_type <- AllBasic
  activationLimit <- ResLimit
  autostart = {idle}
  resourceAccess <- ResAccess
  resourceInt <- None
  MaxNest = 2
  MaxSuspend = 1
  MayActivate <- ResActivate
  MayChain <- NoChain
  MaySetEvent <- Nobody
  MaySuspend = {}
  MayTerminate = {lo, mid, hi}
  MayReturn = {}
INVARIANTS
  ReadyQueueOK
  HighestPriorityRuns
  ActivationsOK
  CeilingOK
  NeverBlocked
PROPERTIES
  ImplementsTaskModel
