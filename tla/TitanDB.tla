------------------------------ MODULE TitanDB -------------------------------
(***************************************************************************)
(* One column family of TitanDBImpl with values separated at flush         *)
(* (sep_before_flush = false, level_merge = false, block_write_size = 0):  *)
(* user writes, flush, background GC, the obsolete-file purge, snapshots,  *)
(* and restart.                                                            *)
(*                                                                         *)
(* The base DB is external.  It is the history of its versions: lsm[t] is  *)
(* what the write with sequence number t stored under lsm[t].key, either   *)
(* the value itself (file = InLSM), or the blob index (file, orig), or a   *)
(* deletion (orig = Deleted).  orig names the value: it is the sequence    *)
(* number of the user's write, so a blob record is the pair <<key, orig>>. *)
(* A read at sequence s finds the newest version of its key at or below s. *)
(***************************************************************************)
EXTENDS Naturals, BlobFileMeta

CONSTANTS
  Key,        \* user keys
  Reader,     \* holders of a snapshot: Get, MultiGet, iterators, users
  Job,        \* GC threads (max_background_gc of them)
  MaxSeq,     \* bound on sequence numbers
  MaxFile,    \* bound on file numbers
  Faults      \* faults the environment may inject, see below

\* "restart": the process may die, or close the DB, and reopen it.
\* "error": a step of a flush or of a GC job may fail.
\* "finish": BlobFileBuilder::Finish may fail on a GC output.
\* "powerloss": a restart may lose writes that the WAL has not synced.
ASSUME ConstantsAssumption ==
  /\ MaxSeq \in Nat
  /\ MaxFile \in Nat \ {0}
  /\ Faults \subseteq {"restart", "error", "finish", "powerloss"}

VARIABLES
  lsm,               \* [1..MaxSeq -> version]
  last_sequence,     \* DBImpl::GetLatestSequenceNumber()
  flushed,           \* versions up to here are in SST files
  state,             \* BlobFileMeta::state_ of every file number
  recs,              \* records of every file number
  obsolete_sequence, \* second component of BlobStorage::obsolete_files_
  next_file_number,  \* BlobFileSet::next_file_number_
  logged,            \* next_file_number_ of the last manifest record
  bg_error,          \* has_bg_error_
  snapshot,          \* sequence of the snapshot each reader holds
  purge_pc, oldest_sequence,                       \* PurgeObsoleteFilesImpl
  flush_pc, flush_file, flush_kept, flush_upto,    \* the flush job
  gc_pc, inputs, todo, rewrite_batches, output, gc_obsolete  \* BlobGCJob

lsmVars   == <<lsm, last_sequence, flushed>>
fileVars  == <<state, recs, obsolete_sequence, next_file_number, logged>>
purgeVars == <<purge_pc, oldest_sequence>>
flushVars == <<flush_pc, flush_file, flush_kept, flush_upto>>
gcVars    == <<gc_pc, inputs, todo, rewrite_batches, output, gc_obsolete>>
vars      == <<lsmVars, fileVars, bg_error, snapshot, purgeVars, flushVars, gcVars>>

SeqNo  == 1..MaxSeq
File   == 1..MaxFile
InLSM  == 0
NoFile == 0
Deleted == 0
kMaxSequenceNumber == MaxSeq + 1
Record  == Key \X SeqNo
Version == [key : Key, file : 0..MaxFile, orig : 0..MaxSeq]
NoVersion == [key |-> "none", file |-> InLSM, orig |-> Deleted]

\* "none": the number names no file; "kInit": the file is being built and is
\* not in BlobStorage::files_ yet.
AnyState == FileState \cup {"none", kAssertFailed}
InStorage(f) == state[f] \notin {"none", "kInit"}

-----------------------------------------------------------------------------
(* Reads.  GetImpl looks the key up at the snapshot and then fetches the    *)
(* record the blob index names from BlobStorage.                           *)

\* Version t is hidden by a newer one of its key at or below sequence s.
Shadowed(t, s) == \E u \in (t + 1)..s : lsm[u].key = lsm[t].key

VisibleAt(t, s) == t \in 1..s /\ ~Shadowed(t, s)

\* BlobStorage::Get finds the file and the record of version t's blob index.
Resolves(t) ==
  lsm[t].file # InLSM =>
    /\ InStorage(lsm[t].file)
    /\ <<lsm[t].key, lsm[t].orig>> \in recs[lsm[t].file]

Init ==
  /\ lsm = [t \in SeqNo |-> NoVersion]
  /\ last_sequence = 0
  /\ flushed = 0
  /\ state = [f \in File |-> "none"]
  /\ recs = [f \in File |-> {}]
  /\ obsolete_sequence = [f \in File |-> 0]
  /\ next_file_number = 2    \* number 1 is the manifest Open creates
  /\ logged = 2
  /\ bg_error = FALSE
  /\ snapshot = [r \in Reader |-> kMaxSequenceNumber]
  /\ purge_pc = "idle"
  /\ oldest_sequence = kMaxSequenceNumber
  /\ flush_pc = "idle"
  /\ flush_file = NoFile
  /\ flush_kept = {}
  /\ flush_upto = 0
  /\ gc_pc = [j \in Job |-> "idle"]
  /\ inputs = [j \in Job |-> {}]
  /\ todo = [j \in Job |-> {}]
  /\ rewrite_batches = [j \in Job |-> {}]
  /\ output = [j \in Job |-> NoFile]
  /\ gc_obsolete = [j \in Job |-> 0]

-----------------------------------------------------------------------------
(* Foreground operations.                                                  *)

\* A write of the base DB takes the next sequence number.
WriteLSM(version) ==
  /\ last_sequence < MaxSeq
  /\ last_sequence' = last_sequence + 1
  /\ lsm' = [lsm EXCEPT ![last_sequence + 1] = version]
  /\ UNCHANGED flushed

Put(k) ==
  /\ ~bg_error
  /\ WriteLSM([key |-> k, file |-> InLSM, orig |-> last_sequence + 1])
  /\ UNCHANGED <<fileVars, bg_error, snapshot, purgeVars, flushVars, gcVars>>

Delete(k) ==
  /\ ~bg_error
  /\ WriteLSM([key |-> k, file |-> InLSM, orig |-> Deleted])
  /\ UNCHANGED <<fileVars, bg_error, snapshot, purgeVars, flushVars, gcVars>>

\* Get, MultiGet and the iterators hold a ManagedSnapshot for their duration;
\* a user's snapshot is held until it is released.
GetSnapshot(r) ==
  /\ snapshot[r] = kMaxSequenceNumber
  /\ snapshot' = [snapshot EXCEPT ![r] = last_sequence]
  /\ UNCHANGED <<lsmVars, fileVars, bg_error, purgeVars, flushVars, gcVars>>

ReleaseSnapshot(r) ==
  /\ snapshot[r] # kMaxSequenceNumber
  /\ snapshot' = [snapshot EXCEPT ![r] = kMaxSequenceNumber]
  /\ UNCHANGED <<lsmVars, fileVars, bg_error, purgeVars, flushVars, gcVars>>

-----------------------------------------------------------------------------
(* Flush: TitanTableBuilder under the base DB's flush job.                 *)

\* Mutant: the number is read and not taken.
NewFileNotTaken(f) ==
  /\ f = next_file_number
  /\ f \in File
  /\ UNCHANGED next_file_number

\* FileManager::NewFile: the number is taken and the file created.
NewFile(f) ==
  /\ f = next_file_number
  /\ f \in File
  /\ next_file_number' = f + 1

\* Someone can still read version t: the latest read, or a snapshot.
Needed(t) ==
  \/ VisibleAt(t, last_sequence)
  \/ \E r \in Reader : /\ snapshot[r] # kMaxSequenceNumber
                       /\ VisibleAt(t, snapshot[r])

\* Versions among ts that store the value itself.
Values(ts) == {t \in ts : lsm[t].file = InLSM}

\* The memtable is sealed and its versions are added to the table builder.
\* The base DB drops the versions nobody can read; AddBlob moves the values
\* of the others to a new blob file, and blob indexes are added as they are.
\* Without values there is no file.
FlushBuild ==
  LET kept == {t \in (flushed + 1)..last_sequence :
                 lsm[t].orig # Deleted /\ Needed(t)}
  IN /\ flush_pc = "idle"
     /\ ~bg_error
     /\ flushed < last_sequence
     /\ flush_pc' = "built"
     /\ flush_kept' = kept
     /\ flush_upto' = last_sequence
     /\ \/ /\ Values(kept) = {}
           /\ flush_file' = NoFile
           /\ UNCHANGED <<state, recs, next_file_number>>
        \/ /\ Values(kept) # {}
           /\ \E f \in File :
                /\ NewFile(f)
                /\ flush_file' = f
                /\ state' = [state EXCEPT ![f] = "kInit"]
                /\ recs' = [recs EXCEPT ![f] =
                     {<<lsm[t].key, lsm[t].orig>> : t \in Values(kept)}]
     /\ UNCHANGED <<lsmVars, obsolete_sequence, logged, bg_error, snapshot,
                    purgeVars, gcVars>>

\* TitanTableBuilder::Finish: the file is synced and logged before the base
\* DB installs the table.
FlushFinish ==
  /\ flush_pc = "built"
  /\ flush_pc' = "finished"
  /\ state' = IF flush_file = NoFile THEN state ELSE
               [state EXCEPT ![flush_file] =
                  FileStateTransit(@, "kFlushOrCompactionOutput")]
  /\ logged' = next_file_number
  /\ UNCHANGED <<lsmVars, recs, obsolete_sequence, next_file_number, bg_error,
                 snapshot, purgeVars, flush_file, flush_kept, flush_upto, gcVars>>

\* BatchFinishFiles fails; the flush fails with it and its file is left behind.
FlushFinishFails ==
  /\ "error" \in Faults
  /\ flush_pc = "built"
  /\ flush_pc' = "idle"
  /\ flush_file' = NoFile
  /\ flush_kept' = {}
  /\ flush_upto' = 0
  /\ bg_error' = TRUE
  /\ UNCHANGED <<lsmVars, fileVars, snapshot, purgeVars, gcVars>>

\* The base DB installs the table: the blob indexes become visible.
FlushInstall ==
  /\ flush_pc = "finished"
  /\ flush_pc' = "installed"
  /\ lsm' = [t \in SeqNo |-> IF t \in Values(flush_kept)
                             THEN [lsm[t] EXCEPT !.file = flush_file]
                             ELSE lsm[t]]
  /\ flushed' = flush_upto
  /\ UNCHANGED <<last_sequence, fileVars, bg_error, snapshot, purgeVars,
                 flush_file, flush_kept, flush_upto, gcVars>>

\* The base DB fails to install the table; the memtable is flushed again.
FlushInstallFails ==
  /\ "error" \in Faults
  /\ flush_pc = "finished"
  /\ flush_pc' = "idle"
  /\ flush_file' = NoFile
  /\ flush_kept' = {}
  /\ flush_upto' = 0
  /\ UNCHANGED <<lsmVars, fileVars, bg_error, snapshot, purgeVars, gcVars>>

\* The table's properties name every blob file its indexes point into; the
\* ones still in storage take the event.
OnFlushCompleted ==
  /\ flush_pc = "installed"
  /\ flush_pc' = "idle"
  /\ flush_file' = NoFile
  /\ flush_kept' = {}
  /\ flush_upto' = 0
  /\ state' = [f \in File |->
                 IF InStorage(f) /\ \E t \in flush_kept : lsm[t].file = f
                 THEN FileStateTransit(state[f], "kFlushCompleted")
                 ELSE state[f]]
  /\ UNCHANGED <<lsmVars, recs, obsolete_sequence, next_file_number, logged,
                 bg_error, snapshot, purgeVars, gcVars>>

-----------------------------------------------------------------------------
(* Garbage collection: BlobGCPicker, BlobGC and BlobGCJob.                 *)

\* Mutant: a file is eligible as soon as it is in storage.
CheckBlobFileAnyState(f) == InStorage(f) /\ state[f] # "kObsolete"

\* BasicBlobGCPicker::CheckBlobFile.
CheckBlobFile(f) == state[f] = "kNormal"

\* PickBlobGC chooses files by number and size; sizes are abstracted, so any
\* nonempty set of eligible files.  BlobGC's constructor marks them.
PickBlobGC(j, fs) ==
  /\ gc_pc[j] = "idle"
  /\ fs # {}
  /\ \A f \in fs : CheckBlobFile(f)
  /\ state' = [f \in File |-> IF f \in fs
                              THEN FileStateTransit(state[f], "kGCBegin")
                              ELSE state[f]]
  /\ gc_pc' = [gc_pc EXCEPT ![j] = "run"]
  /\ inputs' = [inputs EXCEPT ![j] = fs]
  /\ todo' = [todo EXCEPT ![j] = {e \in File \X Record :
                                    e[1] \in fs /\ e[2] \in recs[e[1]]}]
  /\ UNCHANGED <<lsmVars, recs, obsolete_sequence, next_file_number, logged,
                 bg_error, snapshot, purgeVars, flushVars, rewrite_batches,
                 output, gc_obsolete>>

\* Mutant: only the memtable is asked for the latest version.
DiscardEntryMemtable(f, rec) ==
  \A t \in (flushed + 1)..last_sequence :
    lsm[t] = [key |-> rec[1], file |-> f, orig |-> rec[2]]
      => Shadowed(t, last_sequence)

\* DiscardEntry: the latest version of the record's key is not this record's
\* blob index (it was deleted, stored in the LSM, or moved to another record).
DiscardEntry(f, rec) ==
  \A t \in 1..last_sequence :
    lsm[t] = [key |-> rec[1], file |-> f, orig |-> rec[2]]
      => Shadowed(t, last_sequence)

\* One iteration of DoRunGC over a record that is discardable.
RunGCDiscard(j) ==
  /\ gc_pc[j] = "run"
  /\ \E e \in todo[j] :
       /\ DiscardEntry(e[1], e[2])
       /\ todo' = [todo EXCEPT ![j] = @ \ {e}]
  /\ UNCHANGED <<lsmVars, fileVars, bg_error, snapshot, purgeVars, flushVars,
                 gc_pc, inputs, rewrite_batches, output, gc_obsolete>>

\* One iteration over a record to keep: it is copied to the output file, which
\* the first one creates, and the write of its new index is kept for later.
RunGCRewrite(j) ==
  /\ gc_pc[j] = "run"
  /\ \E e \in todo[j], f \in File :
       /\ ~DiscardEntry(e[1], e[2])
       /\ \/ /\ output[j] = NoFile
             /\ NewFile(f)
          \/ /\ output[j] = f
             /\ UNCHANGED next_file_number
       /\ output' = [output EXCEPT ![j] = f]
       /\ state' = [state EXCEPT ![f] = "kInit"]
       /\ recs' = [recs EXCEPT ![f] = @ \cup {e[2]}]
       /\ rewrite_batches' = [rewrite_batches EXCEPT ![j] = @ \cup {e}]
       /\ todo' = [todo EXCEPT ![j] = @ \ {e}]
  /\ UNCHANGED <<lsmVars, obsolete_sequence, logged, bg_error, snapshot,
                 purgeVars, flushVars, gc_pc, inputs, gc_obsolete>>

\* InstallOutputBlobFiles: the output is synced and logged before any key is
\* rewritten.  An empty batch is logged all the same.
InstallOutputBlobFiles(j) ==
  /\ gc_pc[j] = "run"
  /\ todo[j] = {}
  /\ gc_pc' = [gc_pc EXCEPT ![j] = "rewrite"]
  /\ state' = [f \in File |-> IF f = output[j]
                              THEN FileStateTransit(state[f], "kGCOutput")
                              ELSE state[f]]
  /\ logged' = next_file_number
  /\ UNCHANGED <<lsmVars, recs, obsolete_sequence, next_file_number, bg_error,
                 snapshot, purgeVars, flushVars, inputs, todo,
                 rewrite_batches, output, gc_obsolete>>

\* BlobFileBuilder::Finish fails on the output.  The output is deleted, and
\* the job goes on with the status of that deletion, which is OK.
InstallOutputBuilderFails(j) ==
  /\ "finish" \in Faults
  /\ gc_pc[j] = "run"
  /\ todo[j] = {}
  /\ output[j] # NoFile
  /\ gc_pc' = [gc_pc EXCEPT ![j] = "rewrite"]
  /\ state' = [state EXCEPT ![output[j]] = "none"]
  /\ recs' = [recs EXCEPT ![output[j]] = {}]
  /\ UNCHANGED <<lsmVars, obsolete_sequence, next_file_number, logged,
                 bg_error, snapshot, purgeVars, flushVars, inputs, todo,
                 rewrite_batches, output, gc_obsolete>>

\* One iteration of RewriteValidKeyToLSM: a plain Write of the new index.
RewriteValidKeyToLSM(j) ==
  /\ gc_pc[j] = "rewrite"
  /\ \E e \in rewrite_batches[j] :
       /\ WriteLSM([key |-> e[2][1], file |-> output[j], orig |-> e[2][2]])
       /\ rewrite_batches' = [rewrite_batches EXCEPT ![j] = @ \ {e}]
  /\ UNCHANGED <<fileVars, bg_error, snapshot, purgeVars, flushVars, gc_pc,
                 inputs, todo, output, gc_obsolete>>

\* Mutant: the sequence the next write will take.
ReadObsoleteSequenceOffByOne(j) ==
  /\ gc_pc[j] = "rewrite"
  /\ rewrite_batches[j] = {}
  /\ gc_pc' = [gc_pc EXCEPT ![j] = "delete"]
  /\ gc_obsolete' = [gc_obsolete EXCEPT ![j] = last_sequence + 1]
  /\ UNCHANGED <<lsmVars, fileVars, bg_error, snapshot, purgeVars, flushVars,
                 inputs, todo, rewrite_batches, output>>

\* DeleteInputBlobFiles reads the latest sequence number under mutex_, which
\* does not stop writers.
ReadObsoleteSequence(j) ==
  /\ gc_pc[j] = "rewrite"
  /\ rewrite_batches[j] = {}
  /\ gc_pc' = [gc_pc EXCEPT ![j] = "delete"]
  /\ gc_obsolete' = [gc_obsolete EXCEPT ![j] = last_sequence]
  /\ UNCHANGED <<lsmVars, fileVars, bg_error, snapshot, purgeVars, flushVars,
                 inputs, todo, rewrite_batches, output>>

\* BlobGC::ReleaseGcFiles on file states st, then the job is destroyed.
\* outputs_ holds the output only once it is in storage.
ReleaseGcFiles(j, st) ==
  /\ state' = [f \in File |->
                 IF f \in inputs[j] \/ (f = output[j] /\ InStorage(f))
                 THEN FileStateTransit(st[f], "kGCCompleted")
                 ELSE st[f]]
  /\ gc_pc' = [gc_pc EXCEPT ![j] = "idle"]
  /\ inputs' = [inputs EXCEPT ![j] = {}]
  /\ todo' = [todo EXCEPT ![j] = {}]
  /\ rewrite_batches' = [rewrite_batches EXCEPT ![j] = {}]
  /\ output' = [output EXCEPT ![j] = NoFile]
  /\ gc_obsolete' = [gc_obsolete EXCEPT ![j] = 0]

\* LogAndApply of the deletions, under the same mutex_ as the release.
DeleteInputBlobFiles(j) ==
  /\ gc_pc[j] = "delete"
  /\ obsolete_sequence' = [f \in File |-> IF f \in inputs[j]
                                          THEN gc_obsolete[j]
                                          ELSE obsolete_sequence[f]]
  /\ ReleaseGcFiles(j, [f \in File |-> IF f \in inputs[j]
                                       THEN FileStateTransit(state[f], "kDelete")
                                       ELSE state[f]])
  /\ logged' = next_file_number
  /\ UNCHANGED <<lsmVars, recs, next_file_number, bg_error, snapshot,
                 purgeVars, flushVars>>

\* Any step of the job fails, shutdown included: BackgroundGC releases the
\* files and sets the background error.  An output not installed is left behind.
GCFails(j) ==
  /\ "error" \in Faults
  /\ gc_pc[j] # "idle"
  /\ ReleaseGcFiles(j, state)
  /\ bg_error' = TRUE
  /\ UNCHANGED <<lsmVars, recs, obsolete_sequence, next_file_number, logged,
                 snapshot, purgeVars, flushVars>>

-----------------------------------------------------------------------------
(* PurgeObsoleteFilesImpl: the oldest snapshot is read before mutex_.       *)

GetOldestSnapshotSequence ==
  /\ purge_pc = "idle"
  /\ purge_pc' = "purge"
  /\ \E o \in {snapshot[r] : r \in Reader} \cup {kMaxSequenceNumber} :
       /\ \A r \in Reader : o <= snapshot[r]
       /\ oldest_sequence' = o
  /\ UNCHANGED <<lsmVars, fileVars, bg_error, snapshot, flushVars, gcVars>>

\* Mutant: snapshots are not looked at.
RemovableAtOnce(f) == state[f] = "kObsolete"

\* Mutant: having no snapshot is taken for having one at sequence 0.
RemovableUnderSnapshot(f) ==
  /\ state[f] = "kObsolete"
  /\ oldest_sequence # kMaxSequenceNumber
  /\ oldest_sequence > obsolete_sequence[f]

\* The test BlobStorage::GetObsoleteFiles makes of an obsolete file.
Removable(f) ==
  /\ state[f] = "kObsolete"
  /\ oldest_sequence > obsolete_sequence[f]

GetObsoleteFiles ==
  /\ purge_pc = "purge"
  /\ purge_pc' = "idle"
  /\ state' = [f \in File |-> IF Removable(f) THEN "none" ELSE state[f]]
  /\ recs' = [f \in File |-> IF Removable(f) THEN {} ELSE recs[f]]
  /\ obsolete_sequence' = [f \in File |-> IF Removable(f) THEN 0
                                          ELSE obsolete_sequence[f]]
  /\ oldest_sequence' = kMaxSequenceNumber
  /\ UNCHANGED <<lsmVars, next_file_number, logged, bg_error, snapshot,
                 flushVars, gcVars>>

-----------------------------------------------------------------------------
(* Restart.                                                                *)

\* BlobFileSet::Recover: the manifest's files come back, every other blob file
\* is deleted.
Recovered(f) == InStorage(f) /\ state[f] # "kObsolete"

\* The process dies (or closes) and reopens.  The base DB comes back at
\* sequence n: the last one, or after a power loss any since the last flush.
\* A new manifest takes a number and logs the one after it.
Restart(n) ==
  /\ "restart" \in Faults
  /\ n = last_sequence \/ ("powerloss" \in Faults /\ n \in flushed..last_sequence)
  /\ logged <= MaxFile
  /\ last_sequence' = n
  /\ lsm' = [t \in SeqNo |-> IF t <= n THEN lsm[t] ELSE NoVersion]
  /\ UNCHANGED flushed
  /\ state' = [f \in File |-> IF Recovered(f)
                              THEN FileStateTransit("kInit", "kDbRestart")
                              ELSE "none"]
  /\ recs' = [f \in File |-> IF Recovered(f) THEN recs[f] ELSE {}]
  /\ obsolete_sequence' = [f \in File |-> 0]
  /\ next_file_number' = logged + 1
  /\ logged' = logged + 1
  /\ bg_error' = FALSE
  /\ snapshot' = [r \in Reader |-> kMaxSequenceNumber]
  /\ purge_pc' = "idle"
  /\ oldest_sequence' = kMaxSequenceNumber
  /\ flush_pc' = "idle"
  /\ flush_file' = NoFile
  /\ flush_kept' = {}
  /\ flush_upto' = 0
  /\ gc_pc' = [j \in Job |-> "idle"]
  /\ inputs' = [j \in Job |-> {}]
  /\ todo' = [j \in Job |-> {}]
  /\ rewrite_batches' = [j \in Job |-> {}]
  /\ output' = [j \in Job |-> NoFile]
  /\ gc_obsolete' = [j \in Job |-> 0]

-----------------------------------------------------------------------------
User == \/ \E k \in Key : Put(k) \/ Delete(k)
        \/ \E r \in Reader : GetSnapshot(r) \/ ReleaseSnapshot(r)

Flush == \/ FlushBuild
         \/ FlushFinish
         \/ FlushFinishFails
         \/ FlushInstall
         \/ FlushInstallFails
         \/ OnFlushCompleted

BackgroundGC(j) == \/ \E fs \in SUBSET File : PickBlobGC(j, fs)
                   \/ RunGCDiscard(j)
                   \/ RunGCRewrite(j)
                   \/ InstallOutputBlobFiles(j)
                   \/ InstallOutputBuilderFails(j)
                   \/ RewriteValidKeyToLSM(j)
                   \/ ReadObsoleteSequence(j)
                   \/ DeleteInputBlobFiles(j)
                   \/ GCFails(j)

Next == \/ User
        \/ Flush
        \/ \E j \in Job : BackgroundGC(j)
        \/ GetOldestSnapshotSequence
        \/ GetObsoleteFiles
        \/ \E n \in 0..MaxSeq : Restart(n)

Spec == Init /\ [][Next]_vars

\* thread_purge_obsolete_ runs PurgeObsoleteFiles again and again.
FairSpec == /\ Spec
            /\ WF_vars(GetOldestSnapshotSequence)
            /\ WF_vars(GetObsoleteFiles)

-----------------------------------------------------------------------------
(* Properties.                                                             *)

LSMType ==
  /\ last_sequence \in 0..MaxSeq
  /\ flushed \in 0..last_sequence
  /\ lsm \in [SeqNo -> Version \cup {NoVersion}]
  /\ \A t \in 1..last_sequence : lsm[t] \in Version

FileType ==
  /\ state \in [File -> AnyState]
  /\ recs \in [File -> SUBSET Record]
  /\ obsolete_sequence \in [File -> 0..last_sequence]
  /\ next_file_number \in 2..(MaxFile + 1)
  /\ logged \in 2..next_file_number

PurgeType ==
  /\ bg_error \in BOOLEAN
  /\ snapshot \in [Reader -> (0..last_sequence) \cup {kMaxSequenceNumber}]
  /\ purge_pc \in {"idle", "purge"}
  /\ oldest_sequence \in 0..kMaxSequenceNumber

FlushType ==
  /\ flush_pc \in {"idle", "built", "finished", "installed"}
  /\ flush_file \in 0..MaxFile
  /\ flush_kept \subseteq 1..last_sequence
  /\ flush_upto \in 0..last_sequence

GCType ==
  /\ gc_pc \in [Job -> {"idle", "run", "rewrite", "delete"}]
  /\ inputs \in [Job -> SUBSET File]
  /\ todo \in [Job -> SUBSET (File \X Record)]
  /\ rewrite_batches \in [Job -> SUBSET (File \X Record)]
  /\ output \in [Job -> 0..MaxFile]
  /\ gc_obsolete \in [Job -> 0..last_sequence]

\* Every variable has its type; the sequence numbers that obsolete files and
\* the flush and GC jobs keep are at most the last one, and the manifest's file
\* number was handed out.
TypeOK == LSMType /\ FileType /\ PurgeType /\ FlushType /\ GCType

\* The latest version of every key can be read: the file its blob index names
\* is in storage and holds the record, whatever flush, GC, purge and restart
\* did in between (GetImpl, BlobStorage::Get).
LatestResolves ==
  \A t \in 1..last_sequence : VisibleAt(t, last_sequence) => Resolves(t)

\* No step takes a readable version away from a snapshot that is held across
\* it, except a purge that read the oldest snapshot before that one was taken
\* (PurgeObsoleteFilesImpl, BlobStorage::GetObsoleteFiles).
SnapshotStaysReadable ==
  [][\A r \in Reader, t \in SeqNo :
       /\ snapshot[r] # kMaxSequenceNumber
       /\ snapshot'[r] = snapshot[r]
       /\ VisibleAt(t, snapshot[r])
       /\ Resolves(t)
       /\ ~Resolves(t)'
       => purge_pc = "purge" /\ oldest_sequence > snapshot[r]]_vars

\* A new blob file never takes a number that a version in the LSM still names,
\* although numbers handed out since the last manifest record are handed out
\* again after a restart (NewFileNumber, Recover).
FileNumbersNotReused ==
  [][\A f \in File : state[f] # "kInit" /\ state'[f] = "kInit"
       => \A t \in 1..last_sequence : lsm[t].file # f]_vars

\* What FileStateTransit asserts of the state it finds holds at every call.
AssertsHold == \A f \in File : state[f] # kAssertFailed

\* Once no snapshot is taken any more, every file that became obsolete is
\* deleted, at the next purge or by a restart (PurgeObsoleteFilesImpl).
ObsoleteFilesPurged ==
  <>[](\A r \in Reader : snapshot[r] = kMaxSequenceNumber) =>
    \A f \in File : state[f] = "kObsolete" ~> state[f] # "kObsolete"

-----------------------------------------------------------------------------
(* The inductive invariant from which LatestResolves, AssertsHold and       *)
(* SnapshotStaysReadable follow when neither "finish" nor "powerloss" is    *)
(* among the faults.                                                       *)

Rec(t) == <<lsm[t].key, lsm[t].orig>>

\* Files are in the states this mode uses, no number from next_file_number on
\* is in use, and a file is in storage only if the manifest has recorded it.
FilesOK ==
  \A f \in File :
    /\ state[f] \in {"none", "kInit", "kPendingLSM", "kNormal", "kBeingGC",
                     "kPendingGC", "kObsolete"}
    /\ state[f] # "none" => f < next_file_number
    /\ InStorage(f) => f < logged

\* Where the file of a version's blob index stands: it holds the record while
\* in storage, the version is shadowed at the sequence the file became obsolete
\* at, and once the file is gone it is shadowed for every later read.
IndexesOK ==
  \A t \in 1..last_sequence : lsm[t].file # InLSM =>
    LET f == lsm[t].file IN
    /\ f < logged
    /\ state[f] # "kInit"
    /\ InStorage(f) => Rec(t) \in recs[f]
    /\ state[f] = "kObsolete" => Shadowed(t, obsolete_sequence[f])
    /\ state[f] = "none" => Shadowed(t, last_sequence)

\* The flush job's file is kPendingLSM from before its indexes are visible
\* until OnFlushCompleted, and holds the values the table will point to.
FlushOK ==
  /\ flush_pc = "idle" => flush_file = NoFile
  /\ flush_file # NoFile =>
       /\ flush_pc = "built" => state[flush_file] = "kInit"
       /\ flush_pc # "built" => state[flush_file] = "kPendingLSM"
  /\ flush_pc \in {"built", "finished"} =>
       /\ flushed <= flush_upto
       /\ \A t \in Values(flush_kept) :
            /\ flush_file # NoFile
            /\ Rec(t) \in recs[flush_file]

\* A GC job owns its inputs and its output.  A version in an input file is
\* still to be looked at, waits to be rewritten, or is shadowed.
JobOK(j) ==
  /\ \A f \in inputs[j] : state[f] = "kBeingGC"
  /\ gc_pc[j] = "idle" => inputs[j] = {} /\ output[j] = NoFile
  /\ output[j] # NoFile =>
       /\ output[j] # flush_file
       /\ gc_pc[j] = "run" => state[output[j]] = "kInit"
       /\ gc_pc[j] # "run" => state[output[j]] = "kPendingGC"
  /\ gc_pc[j] # "run" => todo[j] = {}
  /\ \A e \in rewrite_batches[j] : /\ output[j] # NoFile
                                   /\ e[2] \in recs[output[j]]
  /\ \A t \in 1..last_sequence : lsm[t].file \in inputs[j] =>
       IF gc_pc[j] = "delete"
       THEN Shadowed(t, gc_obsolete[j])
       ELSE \/ <<lsm[t].file, Rec(t)>> \in todo[j] \cup rewrite_batches[j]
            \/ Shadowed(t, last_sequence)

JobsDisjoint ==
  \A i, j \in Job : i # j =>
    /\ inputs[i] \cap inputs[j] = {}
    /\ output[i] = output[j] => output[i] = NoFile

\* The inductive invariant of flush, GC, purge and restart: who owns a file in
\* which state, and which versions may still need it.
IInv ==
  /\ TypeOK
  /\ FilesOK
  /\ IndexesOK
  /\ FlushOK
  /\ \A j \in Job : JobOK(j)
  /\ JobsDisjoint

-----------------------------------------------------------------------------
(* What comments of the code claim.                                        *)

\* A snapshot never loses a version it can see: what the comment in
\* BlobStorage::GetObsoleteFiles claims of the files it removes.
SnapshotsReadable ==
  \A r \in Reader : snapshot[r] # kMaxSequenceNumber =>
    \A t \in 1..snapshot[r] : VisibleAt(t, snapshot[r]) => Resolves(t)

\* GC rewrites a key only over the version it copied: what the comment in
\* BlobGCJob::DoRunGC claims the write callback ensures.
GCKeepsNewerWrites ==
  \A t \in 1..last_sequence :
    lsm[t].orig \notin {Deleted, t} =>
      \A u \in 1..(t - 1) :
        VisibleAt(u, t - 1) /\ lsm[u].key = lsm[t].key
          => lsm[u].orig = lsm[t].orig

\* The output of GC is in storage before a key is rewritten to it: what the
\* comment on BlobGCJob::Finish requires.
OutputAddedBeforeRewrite ==
  \A j \in Job, t \in 1..last_sequence :
    gc_pc[j] = "rewrite" /\ lsm[t].file # InLSM /\ lsm[t].file = output[j]
      => InStorage(output[j])

=============================================================================
