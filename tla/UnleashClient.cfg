SPECIFICATION Spec
CONSTANTS
  Cached = FALSE
  maxEventQueueSize = 1
  MaxEvents = 2
  MaxStarts = 2
INVARIANTS
  TypeOK
  StoppedIsQuiet
  ServiceComplete
  ReadyHeardFirst
PROPERTIES
  ReadyHeard
  StopReturns
  StopApproaches
  WorkersSafe
CHECK_DEADLOCK FALSE
