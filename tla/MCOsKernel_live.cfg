SPECIFICATION FairSpec
CONSTANTS
  idle = idle
  lo = lo
  mid = mid
  hi = hi
  r1 = r1
  r2 = r2
  rs = rs
  none = none
  e1 = e1
  e2 = e2
  Task <- Tasks
  OsIdle = idle
  Resource = {r1, rs}
  Event = {e1}
  RES_SCHEDULER = rs
  OS_RES_SCHEDULER_PRIO = 32
  NO_TASK_OWNER = none
  prio <- Prios
  scheduling <- LiveSched
  proc_type <- LiveTypes
  activationLimit <- One
  autostart = {idle, lo, hi}
  resourceAccess <- LiveAccess
  resourceInt <- None
  MaxNest = 1
  MaxSuspend = 1
  MayActivate <- LiveActivate
  MayChain <- NoChain
  MaySetEvent <- LiveSet
  MaySuspend = {}
  MayTerminate = {mid}
  MayReturn = {}
PROPERTIES
  MostUrgentRuns
