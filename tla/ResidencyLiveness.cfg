SPECIFICATION FairSpec
CONSTANTS
  Models = {1, 2}
  Requests = {r1, r2}
  Rooms = {c1}
  Pausers = {q1}
  Unloaders = {}
  TheHost = host
  Forcing = {}
  Aborting = {}
  Growth = 1
  RoomBytes = 2
  Budget = 3
  Measured = 0
  Adopted = {1}
  InitiallyPinned = {}
  Pinnable = {}
  Failing = {}
  Breakable = {}
  Growable = {}
  Closing = TRUE
  NoOne = none
  Size <- SmallSizes
PROPERTIES CallsEnd
