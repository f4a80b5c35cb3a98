SPECIFICATION SafeSpec
CONSTANTS
  userId = userId
  properties = properties
  w1 = w1
  w2 = w2
  poller = poller
  caller = caller
  Fields <- MCFields
  Writers <- MCWriters
  Readers <- MCReaders
  Callers <- MCCallers
  MaxUpdates = 4
INVARIANTS
  CopiesWhole
