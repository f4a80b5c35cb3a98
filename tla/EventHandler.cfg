SPECIFICATION Spec
CONSTANTS
  app = app
  dispatcher = dispatcher
  owner = owner
  f = f
  none = none
  Emitters <- MCEmitters
  Owners <- MCOwners
  Dispatcher <- MCDispatcher
  NumKinds = 2
  Callbacks <- MCCallbacks
  NoCallback <- MCNoCallback
  maxEventQueueSize = 2
  MaxEvents = 3
  MaxStarts = 2
INVARIANTS
  TypeOK
  QueueSound
  SilentAfterStop
  NoTerminate
  NoLostWakeup
PROPERTIES
  StopReturns
  EndApproaches
  DispatchSpec
