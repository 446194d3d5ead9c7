SPECIFICATION Spec
CONSTANTS
  Sst = {11,12,13}
  Blob = {1}
  MaxLevel = 1
  MaxKey = 3
  MaxRanges = 1
  MaxCalls = 2
  Merging = {TRUE}
  RDFaults = {}
INVARIANT EmptiedHaveNoLiveData
CHECK_DEADLOCK FALSE
