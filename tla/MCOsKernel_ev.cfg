SPECIFICATION Spec
CONSTANTS
  idle = idle
  lo = lo
  mid = mid
  hi = hi
  r1 = r1
  r2 = r2
  rs = rs
  none = none
  e1 = e1
  e2 = e2
  Task <- Tasks
  OsIdle = idle
  Resource = {rs}
  Event = {e1, e2}
  RES_SCHEDULER = rs
  OS_RES_SCHEDULER_PRIO = 32
  NO_TASK_OWNER = none
  prio <- Prios
  scheduling <- AllFull
  proc_type <- EvTypes
  activationLimit <- One
  autostart = {idle, lo, hi}
  resourceAccess <- NoAccess
  resourceInt <- None
  MaxNest = 1
  MaxSuspend = 1
  MayActivate <- EvActivate
  MayChain <- NoChain
  MaySetEvent <- EvSet
  MaySuspend = {"ISR"}
  MayTerminate = {mid}
  MayReturn = {}
INVARIANTS
  TypeOK
  NoLostWakeup
  NoAssertFailure
SYMMETRY EvSymmetry
