SPECIFICATION Spec
CONSTANTS
  InitialDelay = TRUE
  MaxEvals = 3
  MaxTime = 2
  MaxFaults = 2
  MaxStarts = 2
INVARIANTS
  TypeOK
  PayloadPresent
  NoDoubleReport
  WindowsSound
PROPERTIES
  LossesKnown
  CountersEmptied
  WorkerSpec
CHECK_DEADLOCK FALSE
