SPECIFICATION Spec
CONSTANTS
  c1 = c1
  c2 = c2
  a = a
  b = b
  none = none
  empty = empty
  u1 = u1
  Contexts <- MCContexts
  InitialContext <- MCInitial
  Bodies <- MCBodies
  Empty <- MCEmpty
  Nothing <- MCNothing
  Bootstraps <- MCBootstraps
  Updaters <- MCUpdaters
  Untagged = FALSE
  MaxChanges = 1
  MaxUpdates = 2
  MaxFaults = 1
  MaxCrashes = 1
  MaxStarts = 2
INVARIANTS
  TypeOK
  CacheCoherent
  UpdateNotForgotten
  NoLostWakeup
  DurableBeforeVisible
  ReadyMeansToggles
  EventsEmitted
  AnswerTakesEffect
PROPERTIES
  Converges
  WorkerSpec
CHECK_DEADLOCK FALSE
