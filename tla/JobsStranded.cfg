SPECIFICATION FairSpec
CONSTANTS
  Jobs = {j, k}
  Stubborn = {j}
  Immortal = {j}
  NoJob = none
  Host = host
  Budget = 1
  MaxWorkers = 2
PROPERTIES FreeGpuDrains
CHECK_DEADLOCK FALSE
