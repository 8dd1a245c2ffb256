SPECIFICATION Spec
CONSTANTS
  Controller = {c1}
  Configuration <- Configs
  User = {"u1"}
  Inhibitions = {"ECU"}
  CanSMModeRequestRepetitionMax = 1
  CanSMModeRequestRepetitionTime = 1
  CanSMBorCounterL1ToL2 = 1
  CanSMBorTimeL1 = 1
  CanSMBorTimeL2 = 1
  CanSMBorTimeTxEnsured = 1
  MainFunctionPeriod = 1
  TimeoutTime = 1
  RepeatMessageTime = 0
  WaitBusSleepTime = 1
  MessageCycleTime = 1
  MessageCycleOffsetTime = 0
  ImmediateNmTransmissions = 0
  ImmediateNmCycleTime = 1
  COMM_T_MIN_FULL_COM_MODE_DURATION = 2
  LightTimeout = 1
INVARIANTS
  NoComOK
  
PROPERTIES
  
  WakeUpKept
  UpWhenWanted
  DownWhenNotWanted
