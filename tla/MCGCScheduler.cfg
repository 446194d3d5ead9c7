SPECIFICATION FairSpec
CONSTANTS
  c1 = c1
  c2 = c2
  w1 = w1
  w2 = w2
  d1 = d1
  d2 = d2
  Closer = Closer
  ColumnFamily <- Families
  Worker <- Workers
  Dropper <- Droppers
  MaxBackgroundGC = 2
  MaxAdded = 3
  Faults = {"redrop", "manifest"}
CHECK_DEADLOCK FALSE
INVARIANTS IInv NoGCAfterClose
PROPERTY NobodyWaitsForEver
