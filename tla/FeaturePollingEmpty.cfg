SPECIFICATION Spec
CONSTANTS
  c1 = c1
  c2 = c2
  a = a
  b = b
  none = none
  empty = empty
  u1 = u1
  Contexts <- MCOneContext
  InitialContext <- MCInitial
  Bodies <- MCWithEmpty
  Empty <- MCEmpty
  Nothing <- MCNothing
  Bootstraps <- MCNoBootstrap
  Updaters <- MCUpdaters
  Untagged = FALSE
  MaxChanges = 1
  MaxUpdates = 0
  MaxFaults = 0
  MaxCrashes = 0
  MaxStarts = 1
PROPERTIES
  StaleTogglesVanish
CHECK_DEADLOCK FALSE
