SPECIFICATION Spec
CONSTANTS
  k1 = k1
  k2 = k2
  r1 = r1
  j1 = j1
  j2 = j2
  Key <- OneKey
  Reader <- OneReader
  Job <- TwoJobs
  MaxSeq = 3
  MaxFile = 4
  Faults = {"restart"}
SYMMETRY Symmetry
INVARIANTS LatestResolves AssertsHold IInv
PROPERTIES FileNumbersNotReused SnapshotStaysReadable
