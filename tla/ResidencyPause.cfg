SPECIFICATION Spec
CONSTANTS
  Models = {1, 2}
  Requests = {r1, r2}
  Rooms = {}
  Pausers = {q1, q2}
  Unloaders = {u1}
  TheHost = host
  Forcing = {u1}
  Aborting = {q1}
  Growth = 1
  RoomBytes = 2
  Budget = 3
  Measured = 0
  Adopted = {1}
  InitiallyPinned = {}
  Pinnable = {2}
  Failing = {}
  Breakable = {}
  Growable = {1}
  Closing = TRUE
  NoOne = none
  Size <- SmallSizes
INVARIANTS PausesCounted
PROPERTIES NoLoadWhilePaused ClosedForGood
SYMMETRY EqualRequests
