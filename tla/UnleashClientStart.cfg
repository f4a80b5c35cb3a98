SPECIFICATION Spec
CONSTANTS
  Cached = TRUE
  maxEventQueueSize = 4
  MaxEvents = 2
  MaxStarts = 1
PROPERTIES
  StartHeard
CHECK_DEADLOCK FALSE
