SPECIFICATION FairSpec
CONSTANTS
  k1 = k1
  k2 = k2
  w1 = w1
  w2 = w2
  r1 = r1
  Key <- OneKey
  Writer <- Writers
  Reader = {}
  NumBuilders = 1
  Hash <- OneBuilder
  TargetSize = 2
  MaxPut = 3
  MaxFile = 6
  Options = {"gc", "restart"}
CHECK_DEADLOCK FALSE
PROPERTY PutReturns
PROPERTY SealReturns
