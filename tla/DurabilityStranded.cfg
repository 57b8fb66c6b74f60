SPECIFICATION RecoveringSpec
CONSTANTS
  KeptPrefixes = {1, 2}
  Longer <- Extends
  MaxPuts = 2
  MaxFlushes = 0
PROPERTIES KeptIsWritten
CHECK_DEADLOCK FALSE
