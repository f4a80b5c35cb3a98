SPECIFICATION SafeSpec
CONSTANTS
  app = app
  dispatcher = dispatcher
  owner = owner
  f = f
  none = none
  Emitters <- MCAppOnly
  Owners <- MCReentrantOwners
  Dispatcher <- MCDispatcher
  NumKinds = 1
  Callbacks <- MCCallbacks
  NoCallback <- MCNoCallback
  maxEventQueueSize = 1
  MaxEvents = 2
  MaxStarts = 1
INVARIANTS
  SilentAfterStop
