SPECIFICATION Spec
CONSTANTS
  Requests = {p, q, large, other}
  Large = large
  Other = other
  Tasks = {}
  Leasers = {x, y}
  Background = {}
  Driver = driver
  Capacity = 2
  Key <- TwoKeys
  Need <- Needs
  KvBudget = 2
  Chunks = 1
  Tokens = 1
  Aborting = {p, q, x}
  DriverFails = TRUE
  Closes = FALSE
  NoKey = none
INVARIANTS CountsAreSound ExclusiveIsAlone RowsAccounted NoLostWakeup BatchIsSound
PROPERTIES LeasesInOrder
SYMMETRY EqualRequests
CHECK_DEADLOCK FALSE
