SPECIFICATION Spec
CONSTANTS
  Kinds = {"stateful"}
  Asks = {FALSE}
  Rounds = 2
  MaxCheckpoints = 12
  MaxTokens = 4
  MaxEdits = 2
  MaxCrashes = 0
CHECK_DEADLOCK FALSE
INVARIANT ReplayCannotReadFutureChildState
