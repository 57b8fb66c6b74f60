SPECIFICATION Spec
CONSTANTS
  Models = {1, 2, 3}
  Requests = {r1, r2, r3}
  Rooms = {}
  Pausers = {}
  Unloaders = {u1}
  TheHost = host
  Forcing = {}
  Aborting = {r1}
  Growth = 1
  RoomBytes = 2
  Budget = 3
  Measured = 0
  Adopted = {1}
  InitiallyPinned = {}
  Pinnable = {}
  Failing = {2}
  Breakable = {2}
  Growable = {}
  Closing = FALSE
  NoOne = none
  Size <- ThreeSizes
INVARIANTS OneUnitPerModel LeasesCounted WaitHasReason LeasedStays WithinBudget
PROPERTIES ImplementsLifecycle
