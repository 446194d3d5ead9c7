------------------------------ MODULE MCParts ------------------------------
(***************************************************************************)
(* Components that share no state, side by side for TLC: a behaviour of    *)
(* this module is a behaviour of one of them. The blob file code, GC's     *)
(* merge, iterators, encodings, range deletions and the write stall of     *)
(* Titan; its stress test and db_bench; the YCSB client and its library.   *)
(***************************************************************************)
EXTENDS Naturals

CONSTANTS
  RecordKey, Value, Packed, MaxRecords, PageSize, MinReadahead, MaxReadahead,
  MinBlobSize, IOFaults, Input, GCKey, MaxLen, TargetSize, GCFaults,
  NumEntries, BlobFiles, Kind, FreshVectors, MaxPrefetch, IterFaults,
  EditNumber, EditKey, MaxFiles, Sst, Blob, MaxLevel, MaxKey, MaxRanges,
  MaxCalls, Merging, RDFaults, NumFiles, NumKeys, MaxSortedRuns, Writer,
  BlockWriteSize, MaxSize, Worker, OpsPerThread, NumReopens, MaxBatch,
  HoldOps, StressFaults, Tester, CF, StressKeys, KeysPerLock, Width,
  ValueBase, MaxOps, Slot, BatchKey, BatchValue, MaxBatches, BatchFaults,
  Replies, NumReplies, MaxFeed, MaxDepth, TrimAt, Channel, CommandKind,
  MaxCommands, MaxPushed, NetFaults, Descriptor, MaxAddresses,
  ConnectRetries, MaxReconnects, MaxAppended, MaxReconnect, ContextFaults,
  Items, MaxItems, DictKey, DictVal, InitialSize, Char, MaxChars, Separator,
  SdsByte, MaxSds, MaxPrealloc, Client, RecordCount, OperationCount,
  RequestDist, Proportion, Decades, Scale, Latency, MaxAdded, TableThread,
  RecordName, NumFields, TableOp, MaxTableCalls, NumBenchThreads, Benchmark,
  BenchOps, BenchSeconds, BetweenChecks, FinishAfterWrites, MaxBenchOps,
  MaxClock, MaxRows, FillThread, NumFamilies, NumHot, FirstShare, Percent,
  FillMode, FillNum, FillWrites, EntriesPerBatch, WritesBefore, WritesPer,
  TombstoneWidth, MaxTombstones, ByteBase, KeyBytes, DataBench, DataThread,
  DataKey, ValueBits, MaxVersions, GetWeight, PutWeight, DeleteWeight,
  TimeRange, SingleDeletes, MaxDataOps, BenchName, MaxNames, FlagThreads,
  Thousandth, FlagNum, UseExisting, Warmups, Repeats, Throughput, EntryKey,
  EntryValue, MixThread, MixBench, MixNum, MixSeekNum, MixOps, MaxTxns,
  GetShare, PutShare, MixBatch, SeekNexts, SeekBackward, TxnKind, TxnSets,
  MaxIncr, Recorded, Requested, Parts, RequestDists, LengthDists, MaxLength,
  SmallSize, MidSize, InsertStarts

VARIABLES
  part,           \* the component this behaviour is of
  only_value, file, file_size, builder, range, added, iter, at, blob_cache,
  reader, got, contents, live, pos, istatus, min_heap, current, merge_status,
  outputs, output, opened, out_size, gc_pc, gc_status, entry, key_only,
  base_pos, base_status, status_, record_, files_, keys, vals, len, scanned,
  edit, src, cut, decoded, dec_status, sst, blob_size, blob_range,
  discardable, live_blobs, emptied, level_merge, ranges, include_end, calls,
  props, refs, raced, rd_pc, rd_status, smallest, largest, blob_ends, sorted,
  i, cur_add, cur_remove, tmp, marked, missed, pc, total, block_for_size,
  size_mutex, mutex, gc_queued, closed, worker, op_i, batch_size,
  snapshot_queue, main_pc, bg_pc, cv_sleepers, num_initialized,
  num_populated, num_done, vote_reopen, should_stop_bg_thread,
  verification_failure, num_times_reopened, flags, expected, stored, act,
  held, need, phase, verified, num_ops, alarm, crashed, unlocked_op, lost,
  test, versions, flushed, check, report, sent, wire, rbuf, rpos, rstack,
  objs, rerr, replies, rd_call, net, connected, disconnecting, freeing,
  subscribed, monitoring, callbacks, invalid, channels, obuf, parsed,
  reading, writing, at_pc, cur_cb, cerr, server, served, server_subs, pushed,
  issued, ran, stray, mixed, c_kind, c_blocking, c_reuse, c_source, c_fd,
  c_err, fd_table, n_pc, addresses, reuses, reconnects, foreign, unmade,
  ctx_err, ctx_obuf, ctx_reader, ctx_pc, to_server, to_client, appended, due,
  given, reconnected, format, at_item, curarg, touched, argv, totlen,
  format_pc, command, table, used, dict_iter, given_keys, iter_over,
  dict_map, job, parts, line, p_at, quote, current_tok, vector, split_start,
  text_pc, mem, sh_len, sh_free, sds_text, y_phase, y_pc, y_left, y_type,
  y_did, y_key, y_tmp, key_counter, y_store, ops_cnt, histogram, hist_lock,
  y_performed, y_missed, y_wrong, hists, latencies, key_table, field_tables,
  strings, th, table_calls, unmanaged, dangling, freed_twice, read_freed,
  clk, bench, main, common, thread, reporter, merged, opts, families, fill,
  content, run, kv, puts, time, actor, written, left, cur, params, db, truth,
  combined, mix, records, client, config, load, work, picked

BF == INSTANCE BlobFile
GM == INSTANCE GCMerge
TI == INSTANCE TitanIter
VE == INSTANCE VersionEditCodec
RD == INSTANCE RangeDelete
SR == INSTANCE SortedRuns
SB == INSTANCE SizeBlock
ST == INSTANCE StressThreads
SV == INSTANCE StressValues
BO == INSTANCE StressBatches
HR == INSTANCE HiredisReader
HA == INSTANCE HiredisAsync
HN == INSTANCE HiredisNet
HX == INSTANCE HiredisContext
HF == INSTANCE HiredisFormat
HD == INSTANCE HiredisDict
TX == INSTANCE SdsText
SD == INSTANCE SdsBuffer
YC == INSTANCE YcsbClient
YH == INSTANCE YcsbHistogram
YT == INSTANCE YcsbTable
BT == INSTANCE BenchThreads
BW == INSTANCE BenchWrites
BD == INSTANCE BenchData
BR == INSTANCE BenchRun
BM == INSTANCE BenchMix
YW == INSTANCE YcsbWorkload

\* The variables of a component that does not run.
Off == "off"

BFOff ==
  /\ only_value = Off /\ file = Off /\ file_size = Off /\ builder = Off
  /\ range = Off /\ added = Off /\ iter = Off /\ at = Off
  /\ blob_cache = Off /\ reader = Off /\ got = Off

GMOff ==
  /\ contents = Off /\ live = Off /\ pos = Off /\ istatus = Off
  /\ min_heap = Off /\ current = Off /\ merge_status = Off /\ outputs = Off
  /\ output = Off /\ opened = Off /\ out_size = Off /\ gc_pc = Off
  /\ gc_status = Off

TIOff ==
  /\ entry = Off /\ key_only = Off /\ base_pos = Off /\ base_status = Off
  /\ status_ = Off /\ record_ = Off /\ files_ = Off /\ keys = Off
  /\ vals = Off /\ len = Off /\ scanned = Off

VEOff ==
  /\ edit = Off /\ src = Off /\ cut = Off /\ decoded = Off
  /\ dec_status = Off

RDOff ==
  /\ sst = Off /\ blob_size = Off /\ blob_range = Off /\ discardable = Off
  /\ live_blobs = Off /\ emptied = Off /\ level_merge = Off /\ ranges = Off
  /\ include_end = Off /\ calls = Off /\ props = Off /\ refs = Off
  /\ raced = Off /\ rd_pc = Off /\ rd_status = Off

SROff ==
  /\ smallest = Off /\ largest = Off /\ blob_ends = Off /\ sorted = Off
  /\ i = Off /\ cur_add = Off /\ cur_remove = Off /\ tmp = Off
  /\ marked = Off /\ missed = Off

SBOff ==
  /\ pc = Off /\ total = Off /\ block_for_size = Off /\ size_mutex = Off
  /\ mutex = Off /\ gc_queued = Off /\ closed = Off

STOff ==
  /\ worker = Off /\ op_i = Off /\ batch_size = Off /\ snapshot_queue = Off
  /\ main_pc = Off /\ bg_pc = Off /\ cv_sleepers = Off /\ num_initialized = Off
  /\ num_populated = Off /\ num_done = Off /\ vote_reopen = Off /\ should_stop_bg_thread = Off
  /\ verification_failure = Off /\ num_times_reopened = Off

SVOff ==
  /\ flags = Off /\ expected = Off /\ stored = Off /\ act = Off
  /\ held = Off /\ need = Off /\ phase = Off /\ verified = Off
  /\ num_ops = Off /\ alarm = Off /\ crashed = Off /\ unlocked_op = Off
  /\ lost = Off

BOOff ==
  /\ test = Off /\ versions = Off /\ flushed = Off /\ check = Off
  /\ report = Off

HROff ==
  /\ sent = Off /\ wire = Off /\ rbuf = Off /\ rpos = Off
  /\ rstack = Off /\ objs = Off /\ rerr = Off /\ replies = Off
  /\ rd_call = Off

HAOff ==
  /\ net = Off /\ connected = Off /\ disconnecting = Off /\ freeing = Off
  /\ subscribed = Off /\ monitoring = Off /\ callbacks = Off /\ invalid = Off
  /\ channels = Off /\ obuf = Off /\ parsed = Off /\ reading = Off
  /\ writing = Off /\ at_pc = Off /\ cur_cb = Off /\ cerr = Off
  /\ server = Off /\ served = Off /\ server_subs = Off /\ pushed = Off
  /\ issued = Off /\ ran = Off /\ stray = Off /\ mixed = Off

HNOff ==
  /\ c_kind = Off /\ c_blocking = Off /\ c_reuse = Off /\ c_source = Off
  /\ c_fd = Off /\ c_err = Off /\ fd_table = Off /\ n_pc = Off
  /\ addresses = Off /\ reuses = Off /\ reconnects = Off /\ foreign = Off
  /\ unmade = Off

HXOff ==
  /\ ctx_err = Off /\ ctx_obuf = Off /\ ctx_reader = Off /\ ctx_pc = Off
  /\ to_server = Off /\ to_client = Off /\ appended = Off /\ due = Off
  /\ given = Off /\ reconnected = Off

HFOff ==
  /\ format = Off /\ at_item = Off /\ curarg = Off /\ touched = Off
  /\ argv = Off /\ totlen = Off /\ format_pc = Off /\ command = Off

HDOff ==
  /\ table = Off /\ used = Off /\ dict_iter = Off /\ given_keys = Off
  /\ iter_over = Off /\ dict_map = Off

TXOff ==
  /\ job = Off /\ parts = Off /\ line = Off /\ p_at = Off
  /\ quote = Off /\ current_tok = Off /\ vector = Off /\ split_start = Off
  /\ text_pc = Off

SDOff ==
  /\ mem = Off /\ sh_len = Off /\ sh_free = Off /\ sds_text = Off

YCOff ==
  /\ y_phase = Off /\ y_pc = Off /\ y_left = Off /\ y_type = Off
  /\ y_did = Off /\ y_key = Off /\ y_tmp = Off /\ key_counter = Off
  /\ y_store = Off /\ ops_cnt = Off /\ histogram = Off /\ hist_lock = Off
  /\ y_performed = Off /\ y_missed = Off /\ y_wrong = Off

YHOff ==
  /\ hists = Off /\ latencies = Off

YTOff ==
  /\ key_table = Off /\ field_tables = Off /\ strings = Off /\ th = Off
  /\ table_calls = Off /\ unmanaged = Off /\ dangling = Off /\ freed_twice = Off
  /\ read_freed = Off

BTOff ==
  /\ clk = Off /\ bench = Off /\ main = Off /\ common = Off
  /\ thread = Off /\ reporter = Off /\ merged = Off

BWOff ==
  /\ opts = Off /\ families = Off /\ fill = Off /\ content = Off

BDOff ==
  /\ run = Off /\ kv = Off /\ puts = Off /\ time = Off
  /\ actor = Off /\ written = Off

BROff ==
  /\ left = Off /\ cur = Off /\ params = Off /\ db = Off
  /\ truth = Off /\ combined = Off

BMOff ==
  /\ mix = Off /\ records = Off /\ client = Off

YWOff ==
  /\ config = Off /\ load = Off /\ work = Off /\ picked = Off

BFVars ==
  <<only_value, file, file_size, builder, range, added, iter, at, blob_cache,
    reader, got>>
GMVars ==
  <<contents, live, pos, istatus, min_heap, current, merge_status, outputs,
    output, opened, out_size, gc_pc, gc_status>>
TIVars ==
  <<entry, key_only, base_pos, base_status, status_, record_, files_, keys,
    vals, len, scanned>>
VEVars ==
  <<edit, src, cut, decoded, dec_status>>
RDVars ==
  <<sst, blob_size, blob_range, discardable, live_blobs, emptied,
    level_merge, ranges, include_end, calls, props, refs, raced, rd_pc,
    rd_status>>
SRVars ==
  <<smallest, largest, blob_ends, sorted, i, cur_add, cur_remove, tmp,
    marked, missed>>
SBVars ==
  <<pc, total, block_for_size, size_mutex, mutex, gc_queued, closed>>
STVars ==
  <<worker, op_i, batch_size, snapshot_queue, main_pc, bg_pc, cv_sleepers,
    num_initialized, num_populated, num_done, vote_reopen,
    should_stop_bg_thread, verification_failure, num_times_reopened>>
SVVars ==
  <<flags, expected, stored, act, held, need, phase, verified, num_ops,
    alarm, crashed, unlocked_op, lost>>
BOVars ==
  <<test, versions, flushed, check, report>>
HRVars ==
  <<sent, wire, rbuf, rpos, rstack, objs, rerr, replies, rd_call>>
HAVars ==
  <<net, connected, disconnecting, freeing, subscribed, monitoring,
    callbacks, invalid, channels, obuf, parsed, reading, writing, at_pc,
    cur_cb, cerr, server, served, server_subs, pushed, issued, ran, stray,
    mixed>>
HNVars ==
  <<c_kind, c_blocking, c_reuse, c_source, c_fd, c_err, fd_table, n_pc,
    addresses, reuses, reconnects, foreign, unmade>>
HXVars ==
  <<ctx_err, ctx_obuf, ctx_reader, ctx_pc, to_server, to_client, appended,
    due, given, reconnected>>
HFVars ==
  <<format, at_item, curarg, touched, argv, totlen, format_pc, command>>
HDVars ==
  <<table, used, dict_iter, given_keys, iter_over, dict_map>>
TXVars ==
  <<job, parts, line, p_at, quote, current_tok, vector, split_start, text_pc>>
SDVars ==
  <<mem, sh_len, sh_free, sds_text>>
YCVars ==
  <<y_phase, y_pc, y_left, y_type, y_did, y_key, y_tmp, key_counter, y_store,
    ops_cnt, histogram, hist_lock, y_performed, y_missed, y_wrong>>
YHVars ==
  <<hists, latencies>>
YTVars ==
  <<key_table, field_tables, strings, th, table_calls, unmanaged, dangling,
    freed_twice, read_freed>>
BTVars ==
  <<clk, bench, main, common, thread, reporter, merged>>
BWVars ==
  <<opts, families, fill, content>>
BDVars ==
  <<run, kv, puts, time, actor, written>>
BRVars ==
  <<left, cur, params, db, truth, combined>>
BMVars ==
  <<mix, records, client>>
YWVars ==
  <<config, load, work, picked>>

vars ==
  <<part, BFVars, GMVars, TIVars, VEVars, RDVars, SRVars, SBVars, STVars,
    SVVars, BOVars, HRVars, HAVars, HNVars, HXVars, HFVars, HDVars, TXVars,
    SDVars, YCVars, YHVars, YTVars, BTVars, BWVars, BDVars, BRVars, BMVars,
    YWVars>>

Init ==
  \/ /\ part = "blob_file" /\ BF!Init
     /\ GMOff /\ TIOff /\ VEOff /\ RDOff /\ SROff /\ SBOff /\ STOff /\ SVOff
     /\ BOOff /\ HROff /\ HAOff /\ HNOff /\ HXOff /\ HFOff /\ HDOff /\ TXOff
     /\ SDOff /\ YCOff /\ YHOff /\ YTOff /\ BTOff /\ BWOff /\ BDOff /\ BROff
     /\ BMOff /\ YWOff
  \/ /\ part = "gc_merge" /\ GM!Init
     /\ BFOff /\ TIOff /\ VEOff /\ RDOff /\ SROff /\ SBOff /\ STOff /\ SVOff
     /\ BOOff /\ HROff /\ HAOff /\ HNOff /\ HXOff /\ HFOff /\ HDOff /\ TXOff
     /\ SDOff /\ YCOff /\ YHOff /\ YTOff /\ BTOff /\ BWOff /\ BDOff /\ BROff
     /\ BMOff /\ YWOff
  \/ /\ part = "iterator" /\ TI!Init
     /\ BFOff /\ GMOff /\ VEOff /\ RDOff /\ SROff /\ SBOff /\ STOff /\ SVOff
     /\ BOOff /\ HROff /\ HAOff /\ HNOff /\ HXOff /\ HFOff /\ HDOff /\ TXOff
     /\ SDOff /\ YCOff /\ YHOff /\ YTOff /\ BTOff /\ BWOff /\ BDOff /\ BROff
     /\ BMOff /\ YWOff
  \/ /\ part = "edit" /\ VE!Init
     /\ BFOff /\ GMOff /\ TIOff /\ RDOff /\ SROff /\ SBOff /\ STOff /\ SVOff
     /\ BOOff /\ HROff /\ HAOff /\ HNOff /\ HXOff /\ HFOff /\ HDOff /\ TXOff
     /\ SDOff /\ YCOff /\ YHOff /\ YTOff /\ BTOff /\ BWOff /\ BDOff /\ BROff
     /\ BMOff /\ YWOff
  \/ /\ part = "range_delete" /\ RD!Init
     /\ BFOff /\ GMOff /\ TIOff /\ VEOff /\ SROff /\ SBOff /\ STOff /\ SVOff
     /\ BOOff /\ HROff /\ HAOff /\ HNOff /\ HXOff /\ HFOff /\ HDOff /\ TXOff
     /\ SDOff /\ YCOff /\ YHOff /\ YTOff /\ BTOff /\ BWOff /\ BDOff /\ BROff
     /\ BMOff /\ YWOff
  \/ /\ part = "sorted_runs" /\ SR!Init
     /\ BFOff /\ GMOff /\ TIOff /\ VEOff /\ RDOff /\ SBOff /\ STOff /\ SVOff
     /\ BOOff /\ HROff /\ HAOff /\ HNOff /\ HXOff /\ HFOff /\ HDOff /\ TXOff
     /\ SDOff /\ YCOff /\ YHOff /\ YTOff /\ BTOff /\ BWOff /\ BDOff /\ BROff
     /\ BMOff /\ YWOff
  \/ /\ part = "size_block" /\ SB!Init
     /\ BFOff /\ GMOff /\ TIOff /\ VEOff /\ RDOff /\ SROff /\ STOff /\ SVOff
     /\ BOOff /\ HROff /\ HAOff /\ HNOff /\ HXOff /\ HFOff /\ HDOff /\ TXOff
     /\ SDOff /\ YCOff /\ YHOff /\ YTOff /\ BTOff /\ BWOff /\ BDOff /\ BROff
     /\ BMOff /\ YWOff
  \/ /\ part = "stress_threads" /\ ST!Init
     /\ BFOff /\ GMOff /\ TIOff /\ VEOff /\ RDOff /\ SROff /\ SBOff /\ SVOff
     /\ BOOff /\ HROff /\ HAOff /\ HNOff /\ HXOff /\ HFOff /\ HDOff /\ TXOff
     /\ SDOff /\ YCOff /\ YHOff /\ YTOff /\ BTOff /\ BWOff /\ BDOff /\ BROff
     /\ BMOff /\ YWOff
  \/ /\ part = "stress_values" /\ SV!Init
     /\ BFOff /\ GMOff /\ TIOff /\ VEOff /\ RDOff /\ SROff /\ SBOff /\ STOff
     /\ BOOff /\ HROff /\ HAOff /\ HNOff /\ HXOff /\ HFOff /\ HDOff /\ TXOff
     /\ SDOff /\ YCOff /\ YHOff /\ YTOff /\ BTOff /\ BWOff /\ BDOff /\ BROff
     /\ BMOff /\ YWOff
  \/ /\ part = "stress_batches" /\ BO!Init
     /\ BFOff /\ GMOff /\ TIOff /\ VEOff /\ RDOff /\ SROff /\ SBOff /\ STOff
     /\ SVOff /\ HROff /\ HAOff /\ HNOff /\ HXOff /\ HFOff /\ HDOff /\ TXOff
     /\ SDOff /\ YCOff /\ YHOff /\ YTOff /\ BTOff /\ BWOff /\ BDOff /\ BROff
     /\ BMOff /\ YWOff
  \/ /\ part = "reader" /\ HR!Init
     /\ BFOff /\ GMOff /\ TIOff /\ VEOff /\ RDOff /\ SROff /\ SBOff /\ STOff
     /\ SVOff /\ BOOff /\ HAOff /\ HNOff /\ HXOff /\ HFOff /\ HDOff /\ TXOff
     /\ SDOff /\ YCOff /\ YHOff /\ YTOff /\ BTOff /\ BWOff /\ BDOff /\ BROff
     /\ BMOff /\ YWOff
  \/ /\ part = "async" /\ HA!Init
     /\ BFOff /\ GMOff /\ TIOff /\ VEOff /\ RDOff /\ SROff /\ SBOff /\ STOff
     /\ SVOff /\ BOOff /\ HROff /\ HNOff /\ HXOff /\ HFOff /\ HDOff /\ TXOff
     /\ SDOff /\ YCOff /\ YHOff /\ YTOff /\ BTOff /\ BWOff /\ BDOff /\ BROff
     /\ BMOff /\ YWOff
  \/ /\ part = "net" /\ HN!Init
     /\ BFOff /\ GMOff /\ TIOff /\ VEOff /\ RDOff /\ SROff /\ SBOff /\ STOff
     /\ SVOff /\ BOOff /\ HROff /\ HAOff /\ HXOff /\ HFOff /\ HDOff /\ TXOff
     /\ SDOff /\ YCOff /\ YHOff /\ YTOff /\ BTOff /\ BWOff /\ BDOff /\ BROff
     /\ BMOff /\ YWOff
  \/ /\ part = "context" /\ HX!Init
     /\ BFOff /\ GMOff /\ TIOff /\ VEOff /\ RDOff /\ SROff /\ SBOff /\ STOff
     /\ SVOff /\ BOOff /\ HROff /\ HAOff /\ HNOff /\ HFOff /\ HDOff /\ TXOff
     /\ SDOff /\ YCOff /\ YHOff /\ YTOff /\ BTOff /\ BWOff /\ BDOff /\ BROff
     /\ BMOff /\ YWOff
  \/ /\ part = "format" /\ HF!Init
     /\ BFOff /\ GMOff /\ TIOff /\ VEOff /\ RDOff /\ SROff /\ SBOff /\ STOff
     /\ SVOff /\ BOOff /\ HROff /\ HAOff /\ HNOff /\ HXOff /\ HDOff /\ TXOff
     /\ SDOff /\ YCOff /\ YHOff /\ YTOff /\ BTOff /\ BWOff /\ BDOff /\ BROff
     /\ BMOff /\ YWOff
  \/ /\ part = "dict" /\ HD!Init
     /\ BFOff /\ GMOff /\ TIOff /\ VEOff /\ RDOff /\ SROff /\ SBOff /\ STOff
     /\ SVOff /\ BOOff /\ HROff /\ HAOff /\ HNOff /\ HXOff /\ HFOff /\ TXOff
     /\ SDOff /\ YCOff /\ YHOff /\ YTOff /\ BTOff /\ BWOff /\ BDOff /\ BROff
     /\ BMOff /\ YWOff
  \/ /\ part = "sds_text" /\ TX!Init
     /\ BFOff /\ GMOff /\ TIOff /\ VEOff /\ RDOff /\ SROff /\ SBOff /\ STOff
     /\ SVOff /\ BOOff /\ HROff /\ HAOff /\ HNOff /\ HXOff /\ HFOff /\ HDOff
     /\ SDOff /\ YCOff /\ YHOff /\ YTOff /\ BTOff /\ BWOff /\ BDOff /\ BROff
     /\ BMOff /\ YWOff
  \/ /\ part = "sds_buffer" /\ SD!Init
     /\ BFOff /\ GMOff /\ TIOff /\ VEOff /\ RDOff /\ SROff /\ SBOff /\ STOff
     /\ SVOff /\ BOOff /\ HROff /\ HAOff /\ HNOff /\ HXOff /\ HFOff /\ HDOff
     /\ TXOff /\ YCOff /\ YHOff /\ YTOff /\ BTOff /\ BWOff /\ BDOff /\ BROff
     /\ BMOff /\ YWOff
  \/ /\ part = "client" /\ YC!Init
     /\ BFOff /\ GMOff /\ TIOff /\ VEOff /\ RDOff /\ SROff /\ SBOff /\ STOff
     /\ SVOff /\ BOOff /\ HROff /\ HAOff /\ HNOff /\ HXOff /\ HFOff /\ HDOff
     /\ TXOff /\ SDOff /\ YHOff /\ YTOff /\ BTOff /\ BWOff /\ BDOff /\ BROff
     /\ BMOff /\ YWOff
  \/ /\ part = "histogram" /\ YH!Init
     /\ BFOff /\ GMOff /\ TIOff /\ VEOff /\ RDOff /\ SROff /\ SBOff /\ STOff
     /\ SVOff /\ BOOff /\ HROff /\ HAOff /\ HNOff /\ HXOff /\ HFOff /\ HDOff
     /\ TXOff /\ SDOff /\ YCOff /\ YTOff /\ BTOff /\ BWOff /\ BDOff /\ BROff
     /\ BMOff /\ YWOff
  \/ /\ part = "table" /\ YT!Init
     /\ BFOff /\ GMOff /\ TIOff /\ VEOff /\ RDOff /\ SROff /\ SBOff /\ STOff
     /\ SVOff /\ BOOff /\ HROff /\ HAOff /\ HNOff /\ HXOff /\ HFOff /\ HDOff
     /\ TXOff /\ SDOff /\ YCOff /\ YHOff /\ BTOff /\ BWOff /\ BDOff /\ BROff
     /\ BMOff /\ YWOff
  \/ /\ part = "bench_threads" /\ BT!Init
     /\ BFOff /\ GMOff /\ TIOff /\ VEOff /\ RDOff /\ SROff /\ SBOff /\ STOff
     /\ SVOff /\ BOOff /\ HROff /\ HAOff /\ HNOff /\ HXOff /\ HFOff /\ HDOff
     /\ TXOff /\ SDOff /\ YCOff /\ YHOff /\ YTOff /\ BWOff /\ BDOff /\ BROff
     /\ BMOff /\ YWOff
  \/ /\ part = "bench_writes" /\ BW!Init
     /\ BFOff /\ GMOff /\ TIOff /\ VEOff /\ RDOff /\ SROff /\ SBOff /\ STOff
     /\ SVOff /\ BOOff /\ HROff /\ HAOff /\ HNOff /\ HXOff /\ HFOff /\ HDOff
     /\ TXOff /\ SDOff /\ YCOff /\ YHOff /\ YTOff /\ BTOff /\ BDOff /\ BROff
     /\ BMOff /\ YWOff
  \/ /\ part = "bench_data" /\ BD!Init
     /\ BFOff /\ GMOff /\ TIOff /\ VEOff /\ RDOff /\ SROff /\ SBOff /\ STOff
     /\ SVOff /\ BOOff /\ HROff /\ HAOff /\ HNOff /\ HXOff /\ HFOff /\ HDOff
     /\ TXOff /\ SDOff /\ YCOff /\ YHOff /\ YTOff /\ BTOff /\ BWOff /\ BROff
     /\ BMOff /\ YWOff
  \/ /\ part = "bench_run" /\ BR!Init
     /\ BFOff /\ GMOff /\ TIOff /\ VEOff /\ RDOff /\ SROff /\ SBOff /\ STOff
     /\ SVOff /\ BOOff /\ HROff /\ HAOff /\ HNOff /\ HXOff /\ HFOff /\ HDOff
     /\ TXOff /\ SDOff /\ YCOff /\ YHOff /\ YTOff /\ BTOff /\ BWOff /\ BDOff
     /\ BMOff /\ YWOff
  \/ /\ part = "bench_mix" /\ BM!Init
     /\ BFOff /\ GMOff /\ TIOff /\ VEOff /\ RDOff /\ SROff /\ SBOff /\ STOff
     /\ SVOff /\ BOOff /\ HROff /\ HAOff /\ HNOff /\ HXOff /\ HFOff /\ HDOff
     /\ TXOff /\ SDOff /\ YCOff /\ YHOff /\ YTOff /\ BTOff /\ BWOff /\ BDOff
     /\ BROff /\ YWOff
  \/ /\ part = "workload" /\ YW!Init
     /\ BFOff /\ GMOff /\ TIOff /\ VEOff /\ RDOff /\ SROff /\ SBOff /\ STOff
     /\ SVOff /\ BOOff /\ HROff /\ HAOff /\ HNOff /\ HXOff /\ HFOff /\ HDOff
     /\ TXOff /\ SDOff /\ YCOff /\ YHOff /\ YTOff /\ BTOff /\ BWOff /\ BDOff
     /\ BROff /\ BMOff

Next ==
  \/ /\ part = "blob_file" /\ BF!Next
     /\ UNCHANGED <<part, GMVars, TIVars, VEVars, RDVars, SRVars, SBVars,
                    STVars, SVVars, BOVars, HRVars, HAVars, HNVars, HXVars,
                    HFVars, HDVars, TXVars, SDVars, YCVars, YHVars, YTVars,
                    BTVars, BWVars, BDVars, BRVars, BMVars, YWVars>>
  \/ /\ part = "gc_merge" /\ GM!Next
     /\ UNCHANGED <<part, BFVars, TIVars, VEVars, RDVars, SRVars, SBVars,
                    STVars, SVVars, BOVars, HRVars, HAVars, HNVars, HXVars,
                    HFVars, HDVars, TXVars, SDVars, YCVars, YHVars, YTVars,
                    BTVars, BWVars, BDVars, BRVars, BMVars, YWVars>>
  \/ /\ part = "iterator" /\ TI!Next
     /\ UNCHANGED <<part, BFVars, GMVars, VEVars, RDVars, SRVars, SBVars,
                    STVars, SVVars, BOVars, HRVars, HAVars, HNVars, HXVars,
                    HFVars, HDVars, TXVars, SDVars, YCVars, YHVars, YTVars,
                    BTVars, BWVars, BDVars, BRVars, BMVars, YWVars>>
  \/ /\ part = "edit" /\ VE!Next
     /\ UNCHANGED <<part, BFVars, GMVars, TIVars, RDVars, SRVars, SBVars,
                    STVars, SVVars, BOVars, HRVars, HAVars, HNVars, HXVars,
                    HFVars, HDVars, TXVars, SDVars, YCVars, YHVars, YTVars,
                    BTVars, BWVars, BDVars, BRVars, BMVars, YWVars>>
  \/ /\ part = "range_delete" /\ RD!Next
     /\ UNCHANGED <<part, BFVars, GMVars, TIVars, VEVars, SRVars, SBVars,
                    STVars, SVVars, BOVars, HRVars, HAVars, HNVars, HXVars,
                    HFVars, HDVars, TXVars, SDVars, YCVars, YHVars, YTVars,
                    BTVars, BWVars, BDVars, BRVars, BMVars, YWVars>>
  \/ /\ part = "sorted_runs" /\ SR!Next
     /\ UNCHANGED <<part, BFVars, GMVars, TIVars, VEVars, RDVars, SBVars,
                    STVars, SVVars, BOVars, HRVars, HAVars, HNVars, HXVars,
                    HFVars, HDVars, TXVars, SDVars, YCVars, YHVars, YTVars,
                    BTVars, BWVars, BDVars, BRVars, BMVars, YWVars>>
  \/ /\ part = "size_block" /\ SB!Next
     /\ UNCHANGED <<part, BFVars, GMVars, TIVars, VEVars, RDVars, SRVars,
                    STVars, SVVars, BOVars, HRVars, HAVars, HNVars, HXVars,
                    HFVars, HDVars, TXVars, SDVars, YCVars, YHVars, YTVars,
                    BTVars, BWVars, BDVars, BRVars, BMVars, YWVars>>
  \/ /\ part = "stress_threads" /\ ST!Next
     /\ UNCHANGED <<part, BFVars, GMVars, TIVars, VEVars, RDVars, SRVars,
                    SBVars, SVVars, BOVars, HRVars, HAVars, HNVars, HXVars,
                    HFVars, HDVars, TXVars, SDVars, YCVars, YHVars, YTVars,
                    BTVars, BWVars, BDVars, BRVars, BMVars, YWVars>>
  \/ /\ part = "stress_values" /\ SV!Next
     /\ UNCHANGED <<part, BFVars, GMVars, TIVars, VEVars, RDVars, SRVars,
                    SBVars, STVars, BOVars, HRVars, HAVars, HNVars, HXVars,
                    HFVars, HDVars, TXVars, SDVars, YCVars, YHVars, YTVars,
                    BTVars, BWVars, BDVars, BRVars, BMVars, YWVars>>
  \/ /\ part = "stress_batches" /\ BO!Next
     /\ UNCHANGED <<part, BFVars, GMVars, TIVars, VEVars, RDVars, SRVars,
                    SBVars, STVars, SVVars, HRVars, HAVars, HNVars, HXVars,
                    HFVars, HDVars, TXVars, SDVars, YCVars, YHVars, YTVars,
                    BTVars, BWVars, BDVars, BRVars, BMVars, YWVars>>
  \/ /\ part = "reader" /\ HR!Next
     /\ UNCHANGED <<part, BFVars, GMVars, TIVars, VEVars, RDVars, SRVars,
                    SBVars, STVars, SVVars, BOVars, HAVars, HNVars, HXVars,
                    HFVars, HDVars, TXVars, SDVars, YCVars, YHVars, YTVars,
                    BTVars, BWVars, BDVars, BRVars, BMVars, YWVars>>
  \/ /\ part = "async" /\ HA!Next
     /\ UNCHANGED <<part, BFVars, GMVars, TIVars, VEVars, RDVars, SRVars,
                    SBVars, STVars, SVVars, BOVars, HRVars, HNVars, HXVars,
                    HFVars, HDVars, TXVars, SDVars, YCVars, YHVars, YTVars,
                    BTVars, BWVars, BDVars, BRVars, BMVars, YWVars>>
  \/ /\ part = "net" /\ HN!Next
     /\ UNCHANGED <<part, BFVars, GMVars, TIVars, VEVars, RDVars, SRVars,
                    SBVars, STVars, SVVars, BOVars, HRVars, HAVars, HXVars,
                    HFVars, HDVars, TXVars, SDVars, YCVars, YHVars, YTVars,
                    BTVars, BWVars, BDVars, BRVars, BMVars, YWVars>>
  \/ /\ part = "context" /\ HX!Next
     /\ UNCHANGED <<part, BFVars, GMVars, TIVars, VEVars, RDVars, SRVars,
                    SBVars, STVars, SVVars, BOVars, HRVars, HAVars, HNVars,
                    HFVars, HDVars, TXVars, SDVars, YCVars, YHVars, YTVars,
                    BTVars, BWVars, BDVars, BRVars, BMVars, YWVars>>
  \/ /\ part = "format" /\ HF!Next
     /\ UNCHANGED <<part, BFVars, GMVars, TIVars, VEVars, RDVars, SRVars,
                    SBVars, STVars, SVVars, BOVars, HRVars, HAVars, HNVars,
                    HXVars, HDVars, TXVars, SDVars, YCVars, YHVars, YTVars,
                    BTVars, BWVars, BDVars, BRVars, BMVars, YWVars>>
  \/ /\ part = "dict" /\ HD!Next
     /\ UNCHANGED <<part, BFVars, GMVars, TIVars, VEVars, RDVars, SRVars,
                    SBVars, STVars, SVVars, BOVars, HRVars, HAVars, HNVars,
                    HXVars, HFVars, TXVars, SDVars, YCVars, YHVars, YTVars,
                    BTVars, BWVars, BDVars, BRVars, BMVars, YWVars>>
  \/ /\ part = "sds_text" /\ TX!Next
     /\ UNCHANGED <<part, BFVars, GMVars, TIVars, VEVars, RDVars, SRVars,
                    SBVars, STVars, SVVars, BOVars, HRVars, HAVars, HNVars,
                    HXVars, HFVars, HDVars, SDVars, YCVars, YHVars, YTVars,
                    BTVars, BWVars, BDVars, BRVars, BMVars, YWVars>>
  \/ /\ part = "sds_buffer" /\ SD!Next
     /\ UNCHANGED <<part, BFVars, GMVars, TIVars, VEVars, RDVars, SRVars,
                    SBVars, STVars, SVVars, BOVars, HRVars, HAVars, HNVars,
                    HXVars, HFVars, HDVars, TXVars, YCVars, YHVars, YTVars,
                    BTVars, BWVars, BDVars, BRVars, BMVars, YWVars>>
  \/ /\ part = "client" /\ YC!Next
     /\ UNCHANGED <<part, BFVars, GMVars, TIVars, VEVars, RDVars, SRVars,
                    SBVars, STVars, SVVars, BOVars, HRVars, HAVars, HNVars,
                    HXVars, HFVars, HDVars, TXVars, SDVars, YHVars, YTVars,
                    BTVars, BWVars, BDVars, BRVars, BMVars, YWVars>>
  \/ /\ part = "histogram" /\ YH!Next
     /\ UNCHANGED <<part, BFVars, GMVars, TIVars, VEVars, RDVars, SRVars,
                    SBVars, STVars, SVVars, BOVars, HRVars, HAVars, HNVars,
                    HXVars, HFVars, HDVars, TXVars, SDVars, YCVars, YTVars,
                    BTVars, BWVars, BDVars, BRVars, BMVars, YWVars>>
  \/ /\ part = "table" /\ YT!Next
     /\ UNCHANGED <<part, BFVars, GMVars, TIVars, VEVars, RDVars, SRVars,
                    SBVars, STVars, SVVars, BOVars, HRVars, HAVars, HNVars,
                    HXVars, HFVars, HDVars, TXVars, SDVars, YCVars, YHVars,
                    BTVars, BWVars, BDVars, BRVars, BMVars, YWVars>>
  \/ /\ part = "bench_threads" /\ BT!Next
     /\ UNCHANGED <<part, BFVars, GMVars, TIVars, VEVars, RDVars, SRVars,
                    SBVars, STVars, SVVars, BOVars, HRVars, HAVars, HNVars,
                    HXVars, HFVars, HDVars, TXVars, SDVars, YCVars, YHVars,
                    YTVars, BWVars, BDVars, BRVars, BMVars, YWVars>>
  \/ /\ part = "bench_writes" /\ BW!Next
     /\ UNCHANGED <<part, BFVars, GMVars, TIVars, VEVars, RDVars, SRVars,
                    SBVars, STVars, SVVars, BOVars, HRVars, HAVars, HNVars,
                    HXVars, HFVars, HDVars, TXVars, SDVars, YCVars, YHVars,
                    YTVars, BTVars, BDVars, BRVars, BMVars, YWVars>>
  \/ /\ part = "bench_data" /\ BD!Next
     /\ UNCHANGED <<part, BFVars, GMVars, TIVars, VEVars, RDVars, SRVars,
                    SBVars, STVars, SVVars, BOVars, HRVars, HAVars, HNVars,
                    HXVars, HFVars, HDVars, TXVars, SDVars, YCVars, YHVars,
                    YTVars, BTVars, BWVars, BRVars, BMVars, YWVars>>
  \/ /\ part = "bench_run" /\ BR!Next
     /\ UNCHANGED <<part, BFVars, GMVars, TIVars, VEVars, RDVars, SRVars,
                    SBVars, STVars, SVVars, BOVars, HRVars, HAVars, HNVars,
                    HXVars, HFVars, HDVars, TXVars, SDVars, YCVars, YHVars,
                    YTVars, BTVars, BWVars, BDVars, BMVars, YWVars>>
  \/ /\ part = "bench_mix" /\ BM!Next
     /\ UNCHANGED <<part, BFVars, GMVars, TIVars, VEVars, RDVars, SRVars,
                    SBVars, STVars, SVVars, BOVars, HRVars, HAVars, HNVars,
                    HXVars, HFVars, HDVars, TXVars, SDVars, YCVars, YHVars,
                    YTVars, BTVars, BWVars, BDVars, BRVars, YWVars>>
  \/ /\ part = "workload" /\ YW!Next
     /\ UNCHANGED <<part, BFVars, GMVars, TIVars, VEVars, RDVars, SRVars,
                    SBVars, STVars, SVVars, BOVars, HRVars, HAVars, HNVars,
                    HXVars, HFVars, HDVars, TXVars, SDVars, YCVars, YHVars,
                    YTVars, BTVars, BWVars, BDVars, BRVars, BMVars>>

Spec == Init /\ [][Next]_vars
-----------------------------------------------------------------------------

\* What BlobFileBuilder wrote is what BlobFileIterator and BlobFileReader
\* find: the records in order, each where its handle says, through the
\* readahead and the blob cache, within the key range Finish reports.
BlobFileReadsBack ==
  /\ part = "blob_file" => BF!KeyRangeCovers
  /\ part = "blob_file" => BF!IteratorFollowsBuilder
  /\ part = "blob_file" => BF!ReadaheadCoversRecord
  /\ part = "blob_file" => BF!GetReturnsRecord

\* A GC job that succeeds has written every live record of its inputs, in the
\* order of the keys, to outputs of the size the options ask for.
GCRewritesLive ==
  /\ part = "gc_merge" => GM!RewritesAllLive
  /\ part = "gc_merge" => GM!OutputsInOrder
  /\ part = "gc_merge" => GM!OutputsFilled

\* TitanDBIterator and Scan return the value of the entry the base iterator
\* is at, read from its own blob file through a prefetch that covers it.
IterationReturnsValues ==
  /\ part = "iterator" => TI!ValueOfEntry
  /\ part = "iterator" => TI!PrefetchCoversRead
  /\ part = "iterator" => TI!ScanReturnsEntries

\* VersionEdit::DecodeFrom returns what EncodeTo wrote, and refuses an
\* encoding that has lost its end.
EditsDecoded ==
  /\ part = "edit" => VE!RoundTrip
  /\ part = "edit" => VE!TornEditRefused

\* Without level_merge the calls count no byte of a blob file as discardable
\* that an SST file still refers to, and none twice, in whatever ranges the
\* files lie. It holds while no compaction installs its result in between
\* ("the properties we get could be inaccurate", db_impl.cc).
GarbageNotOvercounted == part = "range_delete" => RD!GarbageNotOvercounted

\* The scan marks exactly the files whose range, ends aside, meets the range
\* of more than max_sorted_runs files, the file itself included.
MarksOverlappingFiles == part = "sorted_runs" => SR!MarksOverlappingFiles

\* Neither the stress test nor a benchmark hangs: while a thread waits on the
\* condition variable of its SharedState, another one is not waiting and has
\* yet to reach the step that wakes it.
NotStuck ==
  /\ part = "stress_threads" => ST!NotStuck
  /\ part = "bench_threads" => BT!NotStuck

\* The verdict of VerifyDb is right: it fails only if the database lost a
\* value, and a run that ends without an alarm has left no key that differs
\* from what is expected, whatever operations ran side by side, ranges and
\* dropped column families included, and wherever the process was killed. Two
\* things are outside of it: an operation behind an ingestion in the same
\* iteration, which runs without its lock, and a checkpoint that meets a key
\* left unknown by a crash.
VerdictRight == part = "stress_values" => SV!VerdictRight

\* A check says "inconsistent" exactly if the database is, in what the check
\* looks at: the values of one key under all prefixes at the snapshot,
\* however many batches are written between the reads, the values of all keys
\* in order, or the sets of keys of all column families. Values that differ
\* between column families are outside of it: VerifyDb compares the keys
\* only.
ReportRight == part = "stress_batches" => BO!ReportRight

\* A reply is the one the server sent, however its bytes are cut by reads,
\* and it goes to the command that asked for it: to the oldest one that
\* waits, to the subscription it names; and while anything is to be written
\* or answered the event loop is asked to call back.
RepliesMatched ==
  /\ part = "reader" => HR!RepliesAsSent
  /\ part = "context" => HX!ReplyForOldest
  /\ part = "async" => HA!RepliesMatched
  /\ part = "async" => HA!WorkIsWatched

\* Sockets come back: the context never closes a descriptor it does not have,
\* a freed context has none left, and a context that is in use and reports no
\* error has one (redisContextCloseFd, redisFree). Not so when a reconnect
\* found no address, as the old number stays in the context, and with
\* SO_REUSEADDR, whose retries open a further socket each and may end without
\* an error.
SocketsReturned == part = "net" => HN!SocketsReturned

\* The data hiredis builds is what was put in: a command has the words of its
\* format as arguments and the length computed for it; a dict is a map
\* through expansions, deletions and iterations; an sds string has the bytes
\* of the calls made on it, within its buffer, and what sdscatrepr or sdsjoin
\* wrote sdssplitargs or sdssplitlen reads back.
LibraryDataRight ==
  /\ part = "format" => HF!CommandOfWords
  /\ part = "dict" => HD!DictIsMap
  /\ part = "sds_text" => TX!ReadsBack
  /\ part = "sds_buffer" => SD!StringIntact

\* A benchmark runs the operations it was asked for, in the shares of their
\* proportions, on keys that were loaded and with lengths in the range asked
\* for; it adds up what its threads did and puts every latency in the bucket
\* of the histogram that holds it.
WorkloadMeasured ==
  /\ part = "client" => YC!WorkloadComplete
  /\ part = "histogram" => YH!HistogramRight
  /\ part = "workload" => YW!KeysLoaded
  /\ part = "workload" => YW!OperationsInShares
  /\ part = "workload" => YW!LengthsRight

\* However the operations of several threads on the hash table database
\* interleave, no string is freed twice and no record has a string that was
\* freed; and a string or table in memory is one that the database or a
\* running operation still knows of, so that the destructor frees it, except
\* after two threads created the same record or field (Get and Insert are two
\* calls, and the result of Insert is dropped). Deleting a record that
\* another thread works on is outside of what the classes provide for. And no
\* thread of db_bench touches its SharedState after RunBenchmark has
\* returned.
MemoryManaged ==
  /\ part = "table" => YT!MemoryManaged
  /\ part = "bench_threads" => BT!SharedOutlivesThreads

\* What db_bench reports is what its threads did: they run together, each
\* operation and each latency is counted once, in the report and in the rows
\* of its intervals; a benchmark runs with its own parameters, on an empty
\* database if it fills one; and the repeated rounds are combined to their
\* average and median.
BenchmarkMeasured ==
  /\ part = "bench_threads" => BT!RunTogether
  /\ part = "bench_threads" => BT!MergedRight
  /\ part = "bench_threads" => BT!LatenciesTelescope
  /\ part = "bench_threads" => BT!RowsAddUp
  /\ part = "bench_run" => BR!ParamsOwn
  /\ part = "bench_run" => BR!StartsFresh
  /\ part = "bench_run" => BR!CombinedRight

\* The benchmarks write what they mean to, and what they rely on holds: a
\* fill writes each number once, to column families that exist, and deletes
\* the same keys in either form; three keys written at once are read as one;
\* a replaced key is never overwritten; what has not expired is kept; updates
\* of one thread, merges of many and transactions are not lost; seeks over
\* what was filled in order find each key; and verify tells equal databases
\* from different ones.
BenchmarkDataRight ==
  /\ part = "bench_writes" => BW!HandlesCreated
  /\ part = "bench_writes" => BW!StageCreated
  /\ part = "bench_writes" => BW!FillComplete
  /\ part = "bench_writes" => BW!TombstoneFormsAgree
  /\ part = "bench_data" => BD!SnapshotConsistent
  /\ part = "bench_data" => BD!NoOverwrite
  /\ part = "bench_data" => BD!RecentKept
  /\ part = "bench_data" => BD!UpdatesKept
  /\ part = "bench_mix" => BM!ShareKept
  /\ part = "bench_mix" => BM!MergesKept
  /\ part = "bench_mix" => BM!DeletesWhole
  /\ part = "bench_mix" => BM!SeeksFind
  /\ part = "bench_mix" => BM!SumsAgree
  /\ part = "bench_run" => BR!VerifiesEqual

\* GC and Close clear the flag only when no Put is between its test and its
\* wait: after either no Put sleeps on size_cv_ or is about to (size_mutex_).
ClearWakesAll == [][part = "size_block" => SB!ClearStep]_vars

\* Reopen deletes the database while every other worker sleeps on its vote,
\* so none is in an operation, and when no snapshot of it is held; the last
\* snapshots are released by the last iteration (OperateDb: "Leave room for
\* one more iteration of the loop").
ReopenAlone == [][part = "stress_threads" => ST!ReopenStep]_vars
=============================================================================
