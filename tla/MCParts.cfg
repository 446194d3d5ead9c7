SPECIFICATION Spec
CONSTANTS
  RecordKey = {1, 2}
  Value = {21}
  Packed = {4}
  MaxRecords = 3
  PageSize = 16
  MinReadahead = 16
  MaxReadahead = 64
  MinBlobSize = 2
  IOFaults = {"append", "read"}
  Input = {"i1", "i2"}
  GCKey = {1, 2}
  MaxLen = 2
  TargetSize = 2
  GCFaults = {"open", "read", "lsm", "create", "shutdown"}
  NumEntries = 3
  BlobFiles = {4, 5}
  Kind = {"inline", "blob"}
  FreshVectors = TRUE
  MaxPrefetch = 4
  IterFaults = {"base", "open", "read"}
  EditNumber = {7, 9}
  EditKey = {"a", "bb"}
  MaxFiles = 1
  Sst = {11, 12}
  Blob = {1, 2}
  MaxLevel = 2
  MaxKey = 2
  MaxRanges = 2
  MaxCalls = 1
  Merging = {TRUE, FALSE}
  RDFaults = {"props", "compaction"}
  NumFiles = 3
  NumKeys = 3
  MaxSortedRuns = 2
  Writer = {"w1", "w2"}
  BlockWriteSize = 1
  MaxSize = 3
  Worker = {"t1", "t2"}
  OpsPerThread = 6
  NumReopens = 1
  MaxBatch = 2
  HoldOps = 1
  StressFaults = {"mismatch"}
  Tester = {0, 1}
  CF = {1}
  StressKeys = 3
  KeysPerLock = 2
  Width = 2
  ValueBase = {"v1"}
  MaxOps = 2
  Slot = {0, 1}
  BatchKey = {1, 2}
  BatchValue = {"a", "b"}
  MaxBatches = 2
  BatchFaults = {"torn", "partial"}
  Replies = {"int", "bulk", "status", "nil", "flat", "nested", "deep", "other"}
  NumReplies = 2
  MaxFeed = 4
  MaxDepth = 2
  TrimAt = 6
  Channel = {"a", "b"}
  CommandKind = {"get", "sub", "unsub", "monitor"}
  MaxCommands = 2
  MaxPushed = 1
  NetFaults = {"connect", "eof", "protocol"}
  Descriptor = {3, 4}
  MaxAddresses = 2
  ConnectRetries = 2
  MaxReconnects = 1
  MaxAppended = 3
  MaxReconnect = 1
  ContextFaults = {"error", "timeout", "format"}
  Items = {"char", "space", "s", "s_empty", "b_long", "end", "unknown"}
  MaxItems = 4
  DictKey = {0, 1, 2, 4}
  DictVal = {"f", "g"}
  InitialSize = 2
  Char = {"a", "bs", "dq", "sq", "nl", "bin"}
  MaxChars = 2
  Separator = {"one"}
  SdsByte = {0, 1}
  MaxSds = 4
  MaxPrealloc = 4
  Client = {"c1", "c2"}
  RecordCount = 2
  OperationCount = 2
  RequestDist = "uniform"
  Proportion = {"INSERT", "READ", "UPDATE", "SCAN", "READMODIFYWRITE"}
  Decades = 2
  Scale = 2
  Latency = {3, 19, 40, 199, 240, 2000}
  MaxAdded = 2
  TableThread = {"t1", "t2"}
  RecordName = {"r", "s"}
  NumFields = 2
  TableOp = {"read", "scan", "update", "insert", "delete"}
  MaxTableCalls = 3
  NumBenchThreads = 2
  Benchmark = {"readrandom", "readwhilewriting", "readwhilescanning", "timeseries"}
  BenchOps = 2
  BenchSeconds = {0, 1}
  BetweenChecks = 3
  FinishAfterWrites = {TRUE, FALSE}
  MaxBenchOps = 2
  MaxClock = 1
  MaxRows = 1
  FillThread = {"f1", "f2"}
  NumFamilies = 4
  NumHot = {1, 2}
  FirstShare = {3}
  Percent = 4
  FillMode = {"SEQUENTIAL", "UNIQUE_RANDOM"}
  FillNum = 4
  FillWrites = {3, 4}
  EntriesPerBatch = {1, 2}
  WritesBefore = 1
  WritesPer = 1
  TombstoneWidth = 2
  MaxTombstones = 1
  ByteBase = 3
  KeyBytes = 2
  DataBench = {"verify", "replace", "timeseries", "update", "xor", "append"}
  DataThread = {"d1", "d2"}
  DataKey = {1, 2}
  ValueBits = 1
  MaxVersions = 2
  GetWeight = 1
  PutWeight = 1
  DeleteWeight = 1
  TimeRange = 1
  SingleDeletes = {TRUE}
  MaxDataOps = 2
  BenchName = {"fillseq", "fillsync", "readmissing", "readwhilewriting", "verify", "stats"}
  MaxNames = 2
  FlagThreads = 2
  Thousandth = 2
  FlagNum = 4
  UseExisting = {TRUE, FALSE}
  Warmups = {1}
  Repeats = {2}
  Throughput = {1, 2}
  EntryKey = {1, 2}
  EntryValue = {"v", "w"}
  MixThread = {"m1", "m2"}
  MixBench = {"readrandomwriterandom", "mergerandom", "readrandommergerandom", "deleteseq", "deleterandom", "fillseekseq", "txn"}
  MixNum = 2
  MixSeekNum = 4
  MaxTxns = 1
  MixOps = 3
  GetShare = 1
  PutShare = 1
  MixBatch = {1, 2, 3}
  SeekNexts = {0, 2}
  SeekBackward = {FALSE, TRUE}
  TxnKind = {"none", "optimistic", "pessimistic"}
  TxnSets = 2
  MaxIncr = 1
  Recorded = {2, 3}
  Requested = 2
  Parts = 3
  RequestDists = {"uniform", "zipfian", "latest"}
  LengthDists = {"constant", "uniform", "zipfian", "ratio"}
  MaxLength = 3
  SmallSize = 1
  MidSize = 2
  InsertStarts = {0, 1}
CHECK_DEADLOCK FALSE
INVARIANTS
  BlobFileReadsBack
  
  
  
  GarbageNotOvercounted
  MarksOverlappingFiles
  NotStuck
  VerdictRight
  ReportRight
  RepliesMatched
  SocketsReturned
  LibraryDataRight
  
  MemoryManaged
  
  
PROPERTIES
  ClearWakesAll
  ReopenAlone
