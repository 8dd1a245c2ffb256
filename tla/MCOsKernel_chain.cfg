SPECIFICATION Spec
CONSTANTS
  idle = idle
  lo = lo
  mid = mid
  hi = hi
  r1 = r1
  r2 = r2
  rs = rs
  none = none
  e1 = e1
  e2 = e2
  Task <- Tasks
  OsIdle = idle
  Resource = {rs}
  Event = {}
  RES_SCHEDULER = rs
  OS_RES_SCHEDULER_PRIO = 32
  NO_TASK_OWNER = none
  prio <- Prios
  scheduling <- AllFull
  proc_type <- AllBasic
  activationLimit <- ChLimit
  autostart = {idle}
  resourceAccess <- NoAccess
  resourceInt <- None
  MaxNest = 1
  MaxSuspend = 1
  MayActivate <- ChActivate
  MayChain <- ChChain
  MaySetEvent <- Nobody
  MaySuspend = {lo}
  MayTerminate = {lo, mid, hi}
  MayReturn = {hi}
PROPERTIES
  ImplementsTaskModel
  ResumesWhereLeft
  ResumesSavedContext
