CONSTANTS
  BlockSize <- Sizes
  BankLength = 16
  BeyondSize = 0
  MAX_NOF_FAILED_WRITE_ATTEMPTS = 5
  MAX_NOF_FAILED_GC_ATTEMPTS = 5
  MAX_NOF_FAILED_STARTUP_ATTEMPTS = 2
  Value = {v1, v2}
  v1 = v1
  v2 = v2
  SectorSize = 8
  Formatted <- Filled
  MaxJobs = 3
  MaxLoss = 1
  MaxFaults = 0
  MayFail <- Faulty
SPECIFICATION Spec
CHECK_DEADLOCK FALSE
PROPERTY InvalidationsEnd
