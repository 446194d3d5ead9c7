SPECIFICATION Spec
CONSTANTS
  NumKeys = 2
  NumLevels = 3
  MaxFlush = 3
  MaxFile = 6
  MaxSortedRuns = 1
  Ratio = 20
  Options = {}
CHECK_DEADLOCK FALSE
INVARIANT ReferencedFilesLive
INVARIANT UnreferencedFilesDeleted
INVARIANT AssertsHold
