SPECIFICATION Spec
CONSTANTS
  Models = {1, 2}
  Requests = {r1}
  Rooms = {}
  Pausers = {q1}
  Unloaders = {}
  TheHost = host
  Forcing = {}
  Aborting = {}
  Growth = 1
  RoomBytes = 2
  Budget = 3
  Measured = 0
  Adopted = {1}
  InitiallyPinned = {}
  Pinnable = {}
  Failing = {}
  Breakable = {}
  Growable = {}
  Closing = FALSE
  NoOne = none
  Size <- SmallSizes
INVARIANTS PausedMeansStopped
