SPECIFICATION Spec
CONSTANTS
  n1 = n1
  n2 = n2
  Node = {n1, n2}
  Configuration <- Configs
  MaxLost = 1
  MainFunctionPeriod = 1
  TimeoutTime = 4
  RepeatMessageTime = 1
  WaitBusSleepTime = 1
  MessageCycleTime = 1
  MessageCycleOffsetTime = 0
  ImmediateNmTransmissions = 2
  ImmediateNmCycleTime = 1
INVARIANTS
  TypeOK
  RequestedOK
PROPERTIES
  KeptAwake
  AwakeWhenRequested
  AsleepWhenReleased
