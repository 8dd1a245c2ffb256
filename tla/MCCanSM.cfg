SPECIFICATION SMSpec
CONSTANTS
  Controller = {c1, c2}
  CanSMModeRequestRepetitionMax = 1
  CanSMModeRequestRepetitionTime = 1
  CanSMBorCounterL1ToL2 = 2
  CanSMBorTimeL1 = 1
  CanSMBorTimeL2 = 2
  CanSMBorTimeTxEnsured = 1
  Kinds = {"none", "pn", "CanTrcv"}
  MayBusOff = {"none"}
  Modes = {"NO", "SILENT", "FULL"}
INVARIANTS
  OnlineOK
  AsleepOK
  StartedOK
PROPERTIES
  ModeSteps
  GoesToSleep
  ComesUp
