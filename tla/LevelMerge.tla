----------------------------- MODULE LevelMerge -----------------------------
(***************************************************************************)
(* Sorted blob files under level_merge: TitanTableBuilder moves values to  *)
(* new blob files while the base DB compacts, and the listener             *)
(* OnCompactionCompleted (src/src/db_impl.cc) counts what each blob file   *)
(* has lost, deletes a file that has lost everything and marks others to   *)
(* be merged.  No GC job runs on these files: the count is all there is.   *)
(*                                                                         *)
(* A level of the base DB is the set of its entries, a key with its        *)
(* version and the blob file of its value (0: the value is inline).  Every *)
(* record has size 1.  A listener is called after its job is installed,    *)
(* without a lock, so that later jobs may use the job's output before.     *)
(* sep_before_flush = false, lazy_merge = true, range_merge = true.        *)
(***************************************************************************)
EXTENDS Integers, Sequences, FiniteSets, BlobFileMeta

CONSTANTS
  NumKeys, NumLevels,
  MaxFlush, MaxFile,    \* bounds on flushes and file numbers
  MaxSortedRuns,        \* max_sorted_runs
  Ratio,                \* blob_file_discardable_ratio, in percent
  Options               \* what may happen, see below

\* "late_flush", "late_compaction": a listener of a flush, or of a compaction,
\* may be overtaken by those of later jobs.
ASSUME LevelMergeAssumption ==
  /\ {NumKeys, MaxFlush, MaxFile, MaxSortedRuns, Ratio} \subseteq Nat
  /\ NumLevels \in Nat /\ NumLevels > 1
  /\ Options \subseteq {"late_flush", "late_compaction"}

Key   == 1..NumKeys
Level == 0..NumLevels - 1
File  == 1..MaxFile
kOverhead == 1          \* kBlobHeaderSize + kBlobFooterSize
merge_level == IF NumLevels > 3 THEN NumLevels - 2 ELSE 1

VARIABLES
  lsm,           \* the entries of each level
  flushes,       \* flushes so far; the version of an entry
  files,         \* files_ of the BlobStorage
  meta,          \* the BlobFileMeta of each number
  next_file,
  notices,       \* calls of listeners that are due, in the order of the jobs
  assert_ok      \* no assertion has failed; a debug build stops at one that does

vars == <<lsm, flushes, files, meta, next_file, notices, assert_ok>>

Records(es, f) == Cardinality({e \in es : e.file = f})
\* BlobFileSizeCollector: the blob files an SST names.
Named(es) == {e.file : e \in es} \ {0}

NewMeta(es, level) ==
  LET keys == {e.key : e \in es}
  IN  [size |-> Cardinality(es) + kOverhead, level |-> level, discardable |-> 0,
       state |-> FileStateTransit("kInit", "kFlushOrCompactionOutput"),
       smallest |-> CHOOSE k \in keys : \A j \in keys : k <= j,
       largest  |-> CHOOSE k \in keys : \A j \in keys : k >= j]
NoMeta == [size |-> 0, level |-> 0, discardable |-> 0, state |-> "kInit",
           smallest |-> 0, largest |-> 0]

Init ==
  /\ lsm = [l \in Level |-> {}] /\ flushes = 0
  /\ files = {} /\ meta = [f \in File |-> NoMeta] /\ next_file = 1
  /\ notices = <<>> /\ assert_ok = TRUE

-----------------------------------------------------------------------------
(* Flushes and compactions                                                 *)

\* FinishBlobFile and BatchFinishFiles, if anything was separated.
FinishBlobFile(es, level) ==
  IF es = {} THEN UNCHANGED <<files, meta, next_file>>
  ELSE /\ next_file <= MaxFile
       /\ files' = files \cup {next_file}
       /\ meta' = [meta EXCEPT ![next_file] = NewMeta(es, level)]
       /\ next_file' = next_file + 1

\* A flush of values to separate (keys S) and of small values (keys T).
Flush(S, T) ==
  /\ assert_ok /\ flushes < MaxFlush /\ S \cup T # {} /\ S \cap T = {}
  /\ LET new(K, f) == {[key |-> k, version |-> flushes + 1, file |-> f] : k \in K}
         blobs     == new(S, next_file)
     IN  /\ FinishBlobFile(blobs, 0)
         /\ lsm' = [lsm EXCEPT ![0] = @ \cup blobs \cup new(T, 0)]
         /\ notices' = IF S = {} THEN notices
                       ELSE Append(notices, [kind |-> "flush", file |-> next_file,
                                             size |-> Cardinality(S)])
  /\ flushes' = flushes + 1
  /\ UNCHANGED assert_ok

\* ShouldMerge, and the condition on which Add asks it.
ShouldMerge(f, target, low) ==
  /\ f \in files
  /\ target >= merge_level \/ low
  /\ \/ target >= merge_level /\ meta[f].level < target
     \/ meta[f].state \in {"kToMerge", "kToGC"}

\* Mutant: files the input SSTs name count as outputs too.
NoticeAllOutputs(in, out, target) ==
  [kind |-> "compaction", level |-> target,
   diff |-> [f \in Named(in) \cup Named(out) |-> Records(out, f) - Records(in, f)],
   outputs |-> Named(out)]

\* Mutant: what the outputs still name is not counted.
NoticeInputsOnly(in, out, target) ==
  [kind |-> "compaction", level |-> target,
   diff |-> [f \in Named(in) \cup Named(out) |->
               IF f \in Named(in) THEN -Records(in, f) ELSE Records(out, f)],
   outputs |-> Named(out) \ Named(in)]

\* calc_bfs over the input and the output SSTs of a compaction.
Notice(in, out, target) ==
  [kind |-> "compaction", level |-> target,
   diff |-> [f \in Named(in) \cup Named(out) |-> Records(out, f) - Records(in, f)],
   outputs |-> Named(out) \ Named(in)]

Survivors(es) ==
  {e \in es : \A d \in es : d.key = e.key => d.version <= e.version}

\* A compaction of level l into the next, with TitanTableBuilder as the builder
\* of its output; low is merge_low_level_.
Compact(l, low) ==
  /\ assert_ok /\ l + 1 \in Level /\ lsm[l] # {}
  /\ LET target == l + 1
         in     == lsm[l] \cup lsm[target]
         live   == Survivors(in)
         moved  == {e \in live : ShouldMerge(e.file, target, low)}
         out    == (live \ moved) \cup {[e EXCEPT !.file = next_file] : e \in moved}
     IN  /\ FinishBlobFile(moved, target)
         /\ lsm' = [lsm EXCEPT ![l] = {}, ![target] = out]
         /\ notices' = Append(notices, Notice(in, out, target))
  /\ UNCHANGED <<flushes, assert_ok>>

\* The base DB may move an SST down without building it again.
TrivialMove(l) ==
  /\ assert_ok /\ l + 1 \in Level /\ lsm[l] # {}
  /\ Survivors(lsm[l] \cup lsm[l + 1]) = lsm[l] \cup lsm[l + 1]
  /\ lsm' = [lsm EXCEPT ![l] = {}, ![l + 1] = @ \cup lsm[l]]
  /\ notices' = Append(notices, Notice(lsm[l], lsm[l], l + 1))
  /\ UNCHANGED <<flushes, files, meta, next_file, assert_ok>>

-----------------------------------------------------------------------------
(* The listeners                                                           *)

\* Notice i may be handled now; a notice before it may be overtaken only as
\* Options say.
Due(i) ==
  /\ assert_ok
  /\ \A j \in 1..i - 1 :
       \/ notices[j].kind = "flush" /\ "late_flush" \in Options
       \/ notices[j].kind = "compaction" /\ "late_compaction" \in Options

Handled(i) == SubSeq(notices, 1, i - 1) \o SubSeq(notices, i + 1, Len(notices))

\* AddDiscardableSize and its assertions; the argument is unsigned, so that a
\* negative one is a very large one.
AddDiscardableSize(m, d) == [m EXCEPT !.discardable = @ + d]
DiscardableAssert(m, d) ==
  d >= 0 /\ d < m.size /\ m.discardable + d < m.size

\* Mutant: the condition the other way round.
FlushDiscardableSwapped(m, size) ==
  IF m.discardable # 0 THEN m.size - size - kOverhead ELSE -size

FlushDiscardable(m, size) ==
  IF m.discardable = 0 THEN m.size - size - kOverhead ELSE -size

OnFlushCompleted(i) ==
  /\ Due(i) /\ notices[i].kind = "flush"
  /\ notices' = Handled(i)
  /\ LET f == notices[i].file
         d == FlushDiscardable(meta[f], notices[i].size)
         m == AddDiscardableSize(meta[f], d)
         s == FileStateTransit(m.state, "kFlushCompleted")
     IN  IF f \notin files THEN UNCHANGED <<meta, assert_ok>>
         ELSE /\ meta' = [meta EXCEPT ![f] = [m EXCEPT !.state = s]]
              /\ assert_ok' = /\ DiscardableAssert(meta[f], d)
                              /\ m.discardable = 0     \* sorted files
                              /\ s # kAssertFailed
  /\ UNCHANGED <<lsm, flushes, files, next_file>>

\* Mutant: the header and the footer are forgotten.
NoLiveDataWholeFile(m) == m.discardable = m.size

NoLiveData(m) == m.discardable = m.size - kOverhead

\* Two files share keys, ends aside.
Overlap(f, g) ==
  \/ f = g
  \/ /\ meta[f].smallest < meta[g].largest
     /\ meta[g].smallest < meta[f].largest

\* The comparator of MarkFileIfNeedMerge is an order on the ends of these files
\* (module SortedRuns).
Ordered(fs) ==
  \A f, g \in fs :
    f # g /\ meta[f].smallest = meta[f].largest =>
      meta[f].smallest \notin {meta[g].smallest, meta[g].largest}

\* MarkFileIfNeedMerge: the files that overlap too many of fs.  Where the
\* comparator is inconsistent the result of std::sort, and so any mark, is open.
MarkChoices(fs) ==
  IF Ordered(fs)
  THEN {{f \in fs : Cardinality({g \in fs : Overlap(f, g)}) > MaxSortedRuns}}
  ELSE SUBSET fs

\* The handler under mutex_: outputs, lost records, deletions, marks.
OnCompactionCompleted(i) ==
  /\ Due(i) /\ notices[i].kind = "compaction"
  /\ notices' = Handled(i)
  /\ LET n     == notices[i]
         lost  == {f \in DOMAIN n.diff : n.diff[f] < 0 /\ f \in files}
         \* kCompactionCompleted for the outputs
         done  == [f \in File |-> IF f \in n.outputs
                     THEN FileStateTransit(meta[f].state, "kCompactionCompleted")
                     ELSE meta[f].state]
         less  == [f \in File |-> IF f \in lost
                     THEN AddDiscardableSize(meta[f], -n.diff[f]) ELSE meta[f]]
         empty == {f \in lost : NoLiveData(less[f])}
         toGC  == {f \in lost \ empty : 100 * less[f].discardable > Ratio * less[f].size}
         state == [f \in File |->
                     CASE f \in empty -> FileStateTransit(done[f], "kDelete")
                       [] f \in toGC  -> FileStateTransit(done[f], "kNeedGC")
                       [] OTHER       -> done[f]]
         runs  == {f \in (DOMAIN n.diff \cap files) \ empty :
                     n.level >= NumLevels - 2 /\ meta[f].level >= NumLevels - 2}
     IN  IF n.outputs \subseteq files
         THEN \E marked \in MarkChoices(runs) :
                /\ meta' = [f \in File |-> [less[f] EXCEPT !.state =
                     IF f \in marked THEN FileStateTransit(state[f], "kNeedMerge")
                                     ELSE state[f]]]
                /\ assert_ok' = /\ \A f \in File : state[f] # kAssertFailed
                                /\ \A f \in lost : DiscardableAssert(meta[f], -n.diff[f])
         ELSE UNCHANGED meta /\ assert_ok' = FALSE     \* "Failed to get file"
  /\ UNCHANGED <<lsm, flushes, files, next_file>>

\* PurgeObsoleteFiles; nobody reads here.
PurgeObsoleteFile(f) ==
  /\ assert_ok /\ f \in files /\ meta[f].state = "kObsolete"
  /\ files' = files \ {f}
  /\ UNCHANGED <<lsm, flushes, meta, next_file, notices, assert_ok>>

Next ==
  \/ \E S, T \in SUBSET Key : Flush(S, T)
  \/ \E l \in Level, low \in BOOLEAN : Compact(l, low)
  \/ \E l \in Level : TrivialMove(l)
  \/ \E i \in DOMAIN notices : OnFlushCompleted(i)
  \/ \E i \in DOMAIN notices : OnCompactionCompleted(i)
  \/ \E f \in File : PurgeObsoleteFile(f)

Spec == Init /\ [][Next]_vars

-----------------------------------------------------------------------------
(* Properties                                                              *)

Entry == [key : Key, version : 1..MaxFlush, file : 0..MaxFile]
Entries == UNION {lsm[l] : l \in Level}

\* Types; a blob file never counts more lost records than it has
\* (BlobFileMeta::AddDiscardableSize).
TypeOK ==
  /\ lsm \in [Level -> SUBSET Entry]
  /\ flushes \in 0..MaxFlush /\ next_file \in 1..MaxFile + 1
  /\ files \subseteq 1..next_file - 1
  /\ \A f \in files : /\ meta[f].state \in FileState \cup {kAssertFailed}
                      /\ meta[f].discardable \in 0..meta[f].size - kOverhead
  /\ assert_ok \in BOOLEAN

\* OnCompactionCompleted deletes a blob file only when no SST names it any more,
\* whatever the jobs whose listeners are still to be called did.
ReferencedFilesLive ==
  \A f \in Named(Entries) : f \in files /\ meta[f].state # "kObsolete"

\* Once the listeners have been called no file is left that no SST names: what
\* level merge leaves behind is deleted without a GC job.
UnreferencedFilesDeleted ==
  notices = <<>> =>
    \A f \in files : f \in Named(Entries) \/ meta[f].state = "kObsolete"

\* The assertions of the listeners, AddDiscardableSize and FileStateTransit.
AssertsHold == assert_ok

=============================================================================
