SPECIFICATION Spec
CONSTANTS
  ColumnFamily = {c0, c1}
  DefaultCF = c0
  MaxFile = 4
  MaxLog = 4
  Options = {"destroy"}
CHECK_DEADLOCK FALSE
INVARIANTS CanRecover MemoryAgrees
PROPERTY ImplementsCatalog
