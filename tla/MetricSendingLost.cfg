SPECIFICATION SafeSpec
CONSTANTS
  InitialDelay = FALSE
  MaxEvals = 2
  MaxTime = 0
  MaxFaults = 0
  MaxStarts = 1
INVARIANTS
  NothingLost
CHECK_DEADLOCK FALSE
