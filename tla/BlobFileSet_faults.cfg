SPECIFICATION Spec
CONSTANTS
  ColumnFamily = {c0, c1}
  DefaultCF = c0
  MaxFile = 4
  MaxLog = 3
  Options = {"destroy", "ranges", "manifest"}
CHECK_DEADLOCK FALSE
INVARIANT LiveFilesOnDisk
PROPERTIES HandleKeepsFiles ObsoleteFilesHandedOver
