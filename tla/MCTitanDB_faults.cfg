SPECIFICATION FairSpec
CONSTANTS
  k1 = k1
  k2 = k2
  r1 = r1
  j1 = j1
  j2 = j2
  Key <- OneKey
  Reader <- OneReader
  Job <- OneJob
  MaxSeq = 3
  MaxFile = 3
  Faults = {"error", "finish"}

PROPERTY ObsoleteFilesPurged
