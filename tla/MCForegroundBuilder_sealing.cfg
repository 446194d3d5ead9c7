SPECIFICATION Spec
CONSTANTS
  k1 = k1
  k2 = k2
  w1 = w1
  w2 = w2
  r1 = r1
  Key <- Keys
  Writer <- Writers
  Reader = {r1}
  NumBuilders = 2
  Hash <- TwoBuilders
  TargetSize = 2
  MaxPut = 3
  MaxFile = 4
  Options = {"newfile", "inline", "buffer"}
CHECK_DEADLOCK FALSE
SYMMETRY Symmetry
INVARIANT SealedFilesLogged
 
