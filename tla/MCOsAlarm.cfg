SPECIFICATION Spec
CONSTANTS
  tick = tick
  div = div
  sw = sw
  t1 = t1
  d1 = d1
  s1 = s1
  s2 = s2
  none = none
  Counter <- Counters
  maxallowedvalue <- Max
  mincycle <- MinCycle
  soft = {div, sw}
  Os_Arc_OsTickCounter = tick
  alarm_list <- Alarms
  counter <- CounterOf
  action <- Actions
  autostart <- Autostart
  schtbl_counter = none
  MaxWalks = 3
  MayIncrement = {sw}
  MaySet = {s1, s2}
  Increments = {1, 2}
  Starts = {0}
  Cycles = {0, 1, 2}
  Disturb = {}
PROPERTIES
  SettingKept
  SetForTicks
  ImplementsAlarmModel
