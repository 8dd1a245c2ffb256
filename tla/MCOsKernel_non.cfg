SPECIFICATION Spec
CONSTANTS
  idle = idle
  lo = lo
  mid = mid
  hi = hi
  r1 = r1
  r2 = r2
  rs = rs
  none = none
  e1 = e1
  e2 = e2
  Task <- Tasks
  OsIdle = idle
  Resource = {r1, r2, rs}
  Event = {e1}
  RES_SCHEDULER = rs
  OS_RES_SCHEDULER_PRIO = 32
  NO_TASK_OWNER = none
  prio <- Prios
  scheduling <- NonSched
  proc_type <- NonTypes
  activationLimit <- One
  autostart = {idle}
  resourceAccess <- NonAccess
  resourceInt <- NonInternal
  MaxNest = 1
  MaxSuspend = 1
  MayActivate <- NonActivate
  MayChain <- NonChain
  MaySetEvent <- NonSet
  MaySuspend = {lo}
  MayTerminate = {lo, mid, hi}
  MayReturn = {}
INVARIANTS
  NoAssertFailure
PROPERTIES
  GroupExclusive
  NonPreemptable
