SPECIFICATION Spec
CONSTANTS
  t1 = t1
  t2 = t2
  f = f
  g = g
  v = v
  w = w
  blank = blank
  off = off
  missing = missing
  other = other
  Strings <- MCStrings
  Blank = blank
  disabled = off
  Missing = missing
  Other = other
  Threads <- MCThreads
  Flags <- MCFlags
  Documents <- MCDocuments
  impressionDataAll = FALSE
  MaxCalls = 3
  MaxReplaces = 2
SYMMETRY Symmetry
INVARIANTS
  TypeOK
  RecordsMatchAnswers
  VariantsOnlyOfEnabled
  BackupFaithful
PROPERTIES
  AtomicSpec
CHECK_DEADLOCK FALSE
