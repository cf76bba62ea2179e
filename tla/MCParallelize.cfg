CONSTANTS
  Threads = {t1, t2, t3}
  Main = t1
  Shared = Shared
  None = None
  Programs <- MCPrograms
SPECIFICATION Spec
CHECK_DEADLOCK FALSE
INVARIANTS
  ResultMatchesSequential
  NoInsertAfterMerge
  ReadersAfterWriters
PROPERTIES
  QueryFinishes
