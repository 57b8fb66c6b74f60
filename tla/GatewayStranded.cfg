SPECIFICATION FairSpec
CONSTANTS
  Requests = {p, q, other}
  Large = none
  Other = other
  Tasks = {}
  Leasers = {}
  Background = {}
  Driver = driver
  Capacity = 3
  Key <- TwoKeys
  Need <- Needs
  KvBudget = 3
  Chunks = 1
  Tokens = 2
  Aborting = {}
  DriverFails = TRUE
  Closes = FALSE
  NoKey = none
PROPERTIES SubmittedSettles
CHECK_DEADLOCK FALSE
