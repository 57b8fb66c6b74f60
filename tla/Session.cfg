SPECIFICATION FairSpec
CONSTANTS
  Sessions = {1, 2}
  Modes <- FirstInAnyMode
  Limit <- Limits
  MaxEvents = 2
  MaxTokens = 2
  Capacity = 5
  Pieces = {0, 1, 3}
  NoCause = none
INVARIANTS EndIsTheEnd QueueBounded IdleTimerRight TerminalHoldsNothing
PROPERTIES ImplementsStream SessionsEnd
CHECK_DEADLOCK FALSE
