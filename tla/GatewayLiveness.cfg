SPECIFICATION FairSpec
CONSTANTS
  Requests = {p, q}
  Large = none
  Other = none
  Tasks = {t}
  Leasers = {x, y}
  Background = {y}
  Driver = driver
  Capacity = 2
  Key <- TwoKeys
  Need <- Needs
  KvBudget = 2
  Chunks = 2
  Tokens = 1
  Aborting = {p, t}
  DriverFails = FALSE
  Closes = TRUE
  NoKey = none
INVARIANTS ExclusiveIsAlone
PROPERTIES WorkEnds CloseEnds
CHECK_DEADLOCK FALSE
