SPECIFICATION ServicesSpec
CONSTANTS
  Clients = {a, b, c, d, e}
  Watched = a
  MaxQueued = 3
  Capacity = 2
  Attempts = {1, 2, 3}
  KeyOf <- Keyed
  Cap = 1
  Versions <- Few
  MaxCrashes = 1
  NoAttempt = none
  KeptPrefixes = {1, 2}
  Longer <- Extends
  MaxPuts = 2
  MaxFlushes = 1
  Takers = {a, b}
  Preloaders = {p}
  Keeping = {a}
  Impatient = {a, b}
INVARIANTS MutualExclusion HeadMustWait CompletedIsIneligible DurableIsStored PriorPointStays HostSound
PROPERTIES NoOvertaking CleanMeansDurable ServicesAnswer
CHECK_DEADLOCK FALSE
