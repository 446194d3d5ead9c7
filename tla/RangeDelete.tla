----------------------------- MODULE RangeDelete -----------------------------
(***************************************************************************)
(* TitanDBImpl::DeleteFilesInRanges (src/src/db_impl.cc): the properties   *)
(* of the SST files in the ranges are read from a pinned version, the base *)
(* DB deletes those files, the blob files in the ranges are deleted, and   *)
(* what the SST files referred to becomes discardable.  A compaction of    *)
(* the base DB may come between the first two.                             *)
(***************************************************************************)
EXTENDS Naturals, FiniteSetsExt

CONSTANTS
  Sst,            \* SST file numbers
  Blob,           \* blob file numbers
  MaxLevel, MaxKey, MaxRanges,
  MaxCalls,       \* bound on the calls of DeleteFilesInRanges
  Merging,        \* the values of level_merge
  RDFaults        \* "props": GetTableProperties may fail
                  \* "compaction": one may install its result in between

VARIABLES
  sst,            \* the current version: SST file -> level, range, blob file
  blob_size,      \* record bytes of each blob file, one for a record
  blob_range,     \* smallest and largest key of each blob file
  discardable,    \* discardable_size_
  live_blobs,     \* blob files that are not obsolete
  emptied,        \* the ones deleted because they had no live data
  level_merge,
  ranges, include_end,    \* the call's arguments
  calls,
  props,          \* TablePropertiesCollection: SST file -> blob file
  refs,           \* references on the version that were not given back
  raced,          \* a compaction came between the properties and the deletion
  rd_pc, rd_status

argVars == <<ranges, include_end, level_merge>>
blobVars == <<blob_size, blob_range, discardable, live_blobs, emptied>>
vars == <<sst, blobVars, argVars, calls, props, refs, raced, rd_pc, rd_status>>

KeyN == 1..MaxKey
KeyRange == {r \in [start : KeyN, limit : KeyN] : r.start <= r.limit}
Meta == {m \in [level : 0..MaxLevel, lo : KeyN, hi : KeyN, blob : Blob] : m.lo <= m.hi}
Disjoint(m, n) == m.hi < n.lo \/ n.hi < m.lo

\* Every SST file holds one record of one blob file; above L0 they are disjoint.
Init ==
  /\ sst \in {v \in [Sst -> Meta] : \A a, b \in Sst :
                a /= b /\ v[a].level = v[b].level /\ v[a].level > 0 => Disjoint(v[a], v[b])}
  /\ blob_size = [b \in Blob |-> Cardinality({s \in Sst : sst[s].blob = b})]
  /\ blob_range = [b \in Blob |-> LET of == {sst[s] : s \in {x \in Sst : sst[x].blob = b}} IN
                      [lo |-> Min({m.lo : m \in of} \cup {MaxKey}),
                       hi |-> Max({m.hi : m \in of} \cup {1})]]
  /\ discardable = [b \in Blob |-> 0] /\ live_blobs = Blob /\ emptied = {}
  /\ ranges = <<>> /\ include_end = FALSE /\ level_merge \in Merging
  /\ calls = 0 /\ props = <<>> /\ refs = 0 /\ raced = FALSE
  /\ rd_pc = "idle" /\ rd_status = "ok"

Files(v, level) == {s \in DOMAIN v : v[s].level = level}

\* vstorage->OverlapInLevel, external
Overlaps(v, level, r) ==
  \E s \in Files(v, level) : v[s].lo <= r.limit /\ r.start <= v[s].hi

Inside(m, r, end) ==
  m.lo >= r.start /\ m.hi <= r.limit /\ (end \/ m.hi /= r.limit)

\* GetCleanInputsWithinInterval: the files inside the range; the one that ends
\* where the range ends is kept unless include_end.
Within(v, level, r, end) == {s \in Files(v, level) : Inside(v[s], r, end)}

\* The level whose files decide if a level is looked at: the code uses the
\* index of the range where the base DB uses the level.
TestedLevel(i, level) == i - 1

\* The files whose properties are read.  props is keyed by the file, so one in
\* two ranges counts once.
Collected(rs, end) ==
  UNION {Within(sst, x[2], rs[x[1]], end) : x \in
    {y \in (DOMAIN rs) \X (1..MaxLevel) : Overlaps(sst, TestedLevel(y[1], y[2]), rs[y[1]])}}

Call(rs, end) ==
  /\ rd_pc \in {"idle", "done"} /\ calls < MaxCalls /\ calls' = calls + 1
  /\ ranges' = rs /\ include_end' = end /\ UNCHANGED level_merge

\* The properties are read and the reference on the version is given back.
Collect(rs, end) ==
  /\ Call(rs, end)
  /\ props' = [s \in Collected(rs, end) |-> sst[s].blob]
  /\ rd_pc' = "collected" /\ rd_status' = "ok"
  /\ UNCHANGED <<sst, blobVars, refs, raced>>

\* Reading the properties of a file fails: the call returns and keeps its
\* reference on the version.
CollectFails(rs, end) ==
  /\ Call(rs, end)
  /\ "props" \in RDFaults /\ Collected(rs, end) /= {}
  /\ refs' = refs + 1 /\ rd_pc' = "done" /\ rd_status' = "error"
  /\ UNCHANGED <<sst, blobVars, props, raced>>

\* A compaction drops the record of file s: its own event has counted it.
Compaction(s) ==
  /\ rd_pc = "collected" /\ "compaction" \in RDFaults
  /\ s \in DOMAIN sst /\ sst[s].level \in 1..MaxLevel - 1
  /\ sst' = [x \in DOMAIN sst \ {s} |-> sst[x]]
  /\ discardable' = [discardable EXCEPT ![sst[s].blob] = @ + 1]
  /\ raced' = TRUE
  /\ UNCHANGED <<blob_size, blob_range, live_blobs, emptied, argVars, calls, props,
                 refs, rd_pc, rd_status>>

\* db_impl_->DeleteFilesInRanges, external: every level above L0.
InRanges ==
  UNION {Within(sst, level, ranges[i], include_end) : i \in DOMAIN ranges, level \in 1..MaxLevel}

BaseDelete ==
  /\ rd_pc = "collected" /\ rd_pc' = "apply"
  /\ sst' = [s \in DOMAIN sst \ InRanges |-> sst[s]]
  /\ UNCHANGED <<blobVars, argVars, calls, props, refs, raced, rd_status>>

\* The base DB refuses.
BaseDeleteFails ==
  /\ rd_pc = "collected" /\ "props" \in RDFaults
  /\ rd_pc' = "done" /\ rd_status' = "error"
  /\ UNCHANGED <<sst, blobVars, argVars, calls, props, refs, raced>>

\* Mutant: a file in two ranges counts for each.
DiscardedPerRange(b) ==
  Cardinality({s \in DOMAIN props : props[s] = b}) * Cardinality(DOMAIN ranges)

\* blob_files_discardable_size
Discarded(b) == Cardinality({s \in DOMAIN props : props[s] = b})

\* GetBlobFilesInRanges: the ranges a blob file that is not obsolete is in.
RangesOf(b) == {i \in DOMAIN ranges : b \in live_blobs /\ Inside(blob_range[b], ranges[i], include_end)}

\* Under mutex_: the blob files in the ranges are deleted, the sizes are added,
\* and under level_merge an edit deletes the files without live data and adds
\* the sizes of the others once more.
Apply ==
  LET inRange == {b \in Blob : RangesOf(b) /= {}}
      Sum(b)  == discardable[b] + Discarded(b)
      lost    == {b \in Blob : Discarded(b) > 0}
      empty   == {b \in lost : Sum(b) = blob_size[b]}
      refused == empty \cap (inRange \cup (Blob \ live_blobs)) /= {}
      edit    == level_merge /\ ~refused IN
  /\ rd_pc = "apply" /\ rd_pc' = "done"
  /\ \A b \in Blob : Cardinality(RangesOf(b)) <= 1
  /\ discardable' = [b \in Blob |->
       IF edit /\ b \in lost \ empty THEN Sum(b) + Discarded(b) ELSE Sum(b)]
  /\ live_blobs' = (live_blobs \ inRange) \ (IF edit THEN empty ELSE {})
  /\ emptied' = emptied \cup (IF edit THEN empty ELSE {})
  /\ UNCHANGED <<sst, blob_size, blob_range, argVars, calls, props, refs, raced, rd_status>>

\* A blob file in two of the ranges is twice in the edit, which is refused: the
\* SST files are gone and nothing is counted.
ApplyRefused ==
  /\ rd_pc = "apply" /\ rd_pc' = "done" /\ rd_status' = "corruption"
  /\ \E b \in Blob : Cardinality(RangesOf(b)) > 1
  /\ UNCHANGED <<sst, blobVars, argVars, calls, props, refs, raced>>

Next ==
  \/ \E n \in 1..MaxRanges : \E rs \in [1..n -> KeyRange], end \in BOOLEAN :
       Collect(rs, end) \/ CollectFails(rs, end)
  \/ \E s \in Sst : Compaction(s)
  \/ BaseDelete
  \/ BaseDeleteFails
  \/ Apply
  \/ ApplyRefused

Spec == Init /\ [][Next]_vars
-----------------------------------------------------------------------------
Referring(b) == {s \in DOMAIN sst : sst[s].blob = b}
Garbage(b) == blob_size[b] - Cardinality(Referring(b))

\* Without level_merge the calls count no byte of a blob file as discardable
\* that an SST file still refers to, and none twice, in whatever ranges the
\* files lie.  It holds while no compaction installs its result in between
\* ("the properties we get could be inaccurate", db_impl.cc).
GarbageNotOvercounted ==
  rd_pc = "done" /\ ~raced /\ ~level_merge =>
    \A b \in live_blobs : discardable[b] <= Garbage(b)

-----------------------------------------------------------------------------
(* What the comments of the code claim.                                    *)

\* "Delete blob files which have no live data" (db_impl.cc): a blob file that
\* is deleted as empty has no SST file that refers to it.
EmptiedHaveNoLiveData == ~raced => \A b \in emptied : Referring(b) = {}

\* "Get all the files within range except L0, cause `DeleteFilesInRanges`
\* would not delete the files in L0" (db_impl.cc): the call collects the
\* properties of every SST file the base DB is about to delete.
CollectsFilesInRange == rd_pc = "collected" => InRanges \subseteq DOMAIN props

\* The reference on the version is given back when the call returns.
VersionReleased == rd_pc = "done" => refs = 0

=============================================================================
