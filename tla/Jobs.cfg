SPECIFICATION FairSpec
CONSTANTS
  Jobs = {j, k}
  Stubborn = {j}
  Immortal = {}
  NoJob = none
  Host = host
  Budget = 1
  MaxWorkers = 2
INVARIANTS OneChildAtATime StoppedIsGone LeasesOwned
PROPERTIES RowsFinal JobsEnd RespawnWaits
CHECK_DEADLOCK FALSE
