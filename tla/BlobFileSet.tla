---------------------------- MODULE BlobFileSet -----------------------------
(***************************************************************************)
(* The catalog of blob files: BlobFileSet with its BlobStorages, the Titan  *)
(* manifest, EditCollector, and the blob files on disk                     *)
(* (src/src/blob_file_set.cc, edit_collector.h, blob_storage.cc).          *)
(*                                                                         *)
(* The catalog is kept twice, in memory and in the manifest, and a restart *)
(* rebuilds the first from the second.  A manifest record is a VersionEdit: *)
(* the files it adds to and deletes from each column family, and the next  *)
(* file number.  WriteSnapshot's records are one record here, since CURRENT *)
(* names the manifest only after they are all synced.                      *)
(*                                                                         *)
(* GC jobs and drops of column families exclude each other; that is what   *)
(* GCScheduler shows.                                                      *)
(***************************************************************************)
EXTENDS Naturals, Sequences

CONSTANTS
  ColumnFamily, DefaultCF,
  MaxFile,     \* bound on file numbers
  MaxLog,      \* bound on the records of a manifest
  Options      \* what the user and the environment may do, see below

\* "destroy": the handle of a column family that is not dropped is destroyed.
\* "ranges": DeleteFilesInRanges is called.
\* "manifest": AddRecord, or the sync of the manifest or a blob file, may fail.
ASSUME CatalogAssumption ==
  /\ DefaultCF \in ColumnFamily
  /\ MaxFile \in Nat \ {0}
  /\ MaxLog \in Nat \ {0}
  /\ Options \subseteq {"destroy", "ranges", "manifest"}

VARIABLES
  base,              \* the column families of the base DB
  handles,           \* column families the user holds the handle of
  column_families, obsolete_columns, next_file_number,  \* BlobFileSet
  files, obsolete_files, destroyed,                     \* BlobStorage
  manifest,          \* records of the manifest CURRENT names
  synced,            \* how many of them are sure to survive a crash
  disk,              \* numbers of the blob files on disk
  building,          \* files handed out and not finished yet, with their owner
  dropping,          \* dropped in the base DB, about to be dropped in Titan
  gc,                \* inputs of the GC job of each column family
  purging,           \* files PurgeObsoleteFilesImpl is about to delete
  open_pc, bg_error

memVars  == <<column_families, obsolete_columns, files, obsolete_files, destroyed>>
logVars  == <<manifest, synced>>
jobVars  == <<building, dropping, gc, purging>>
vars     == <<base, handles, memVars, next_file_number, logVars, disk, jobVars,
              open_pc, bg_error>>

File   == 1..MaxFile
NoFiles == [cf \in ColumnFamily |-> {}]
Only(cf, fs) == [NoFiles EXCEPT ![cf] = fs]

\* files_ that are not obsolete.
Live(cf) == files[cf] \ obsolete_files[cf]

Init ==
  /\ base = [cf \in ColumnFamily |-> IF cf = DefaultCF THEN "live" ELSE "new"]
  /\ handles = {DefaultCF}
  /\ column_families = {DefaultCF}
  /\ obsolete_columns = {}
  /\ files = NoFiles
  /\ obsolete_files = NoFiles
  /\ destroyed = {}
  /\ next_file_number = 2    \* number 1 is the manifest's
  /\ manifest = <<[add |-> NoFiles, del |-> NoFiles, next |-> 2]>>
  /\ synced = 1
  /\ disk = {}
  /\ building = {}
  /\ dropping = {}
  /\ gc = NoFiles
  /\ purging = {}
  /\ open_pc = "open"
  /\ bg_error = FALSE

-----------------------------------------------------------------------------
(* Logging.                                                                *)

\* CFEditCollector::Seal; a column family without a storage is skipped.
Seal(cf, add, del) ==
  cf \in column_families => add \cap files[cf] = {} /\ del \subseteq Live(cf)

Record(cf, add, del) ==
  [add |-> Only(cf, add), del |-> Only(cf, del), next |-> next_file_number]

\* Mutant: the edit is applied without a record.
LogAndApplyUnlogged(cf, add, del) ==
  /\ Len(manifest) < MaxLog
  /\ Seal(cf, add, del)
  /\ UNCHANGED <<manifest, synced>>
  /\ files' = IF cf \in column_families
              THEN [files EXCEPT ![cf] = @ \cup add] ELSE files
  /\ obsolete_files' = IF cf \in column_families
                       THEN [obsolete_files EXCEPT ![cf] = @ \cup del]
                       ELSE obsolete_files

\* LogAndApply succeeds: the record is written and synced, then applied.
LogAndApply(cf, add, del) ==
  /\ Len(manifest) < MaxLog
  /\ Seal(cf, add, del)
  /\ manifest' = Append(manifest, Record(cf, add, del))
  /\ synced' = Len(manifest')
  /\ files' = IF cf \in column_families
              THEN [files EXCEPT ![cf] = @ \cup add] ELSE files
  /\ obsolete_files' = IF cf \in column_families
                       THEN [obsolete_files EXCEPT ![cf] = @ \cup del]
                       ELSE obsolete_files

\* LogAndApply fails: Seal refuses the edit, or the record is not written, or
\* it is written and the sync fails.  Nothing is applied.
LogAndApplyFails(cf, add, del) ==
  /\ \/ /\ ~Seal(cf, add, del)
        /\ UNCHANGED manifest
     \/ /\ "manifest" \in Options
        /\ Seal(cf, add, del)
        /\ Len(manifest) < MaxLog
        /\ manifest' \in {manifest, Append(manifest, Record(cf, add, del))}
  /\ UNCHANGED <<synced, files, obsolete_files>>

-----------------------------------------------------------------------------
(* Files come: flush and GC outputs.                                       *)

\* FileManager::NewFile.
NewFile(cf) ==
  /\ open_pc = "open"
  /\ base[cf] = "live"
  /\ next_file_number \in File
  /\ next_file_number' = next_file_number + 1
  /\ disk' = disk \cup {next_file_number}
  /\ building' = building \cup {<<next_file_number, cf>>}
  /\ UNCHANGED <<base, handles, memVars, logVars, dropping, gc, purging, open_pc,
                 bg_error>>

\* BatchFinishFiles; when it fails the file is left on disk.  A failed sync of
\* the file returns before the edit is logged.
BatchFinishFiles(f, cf) ==
  /\ open_pc = "open"
  /\ <<f, cf>> \in building
  /\ building' = building \ {<<f, cf>>}
  /\ \/ /\ LogAndApply(cf, {f}, {})
        /\ UNCHANGED bg_error
     \/ /\ LogAndApplyFails(cf, {f}, {})
        /\ bg_error' = TRUE
     \/ /\ "manifest" \in Options
        /\ UNCHANGED <<logVars, files, obsolete_files, bg_error>>
  /\ UNCHANGED <<base, handles, column_families, obsolete_columns, destroyed,
                 next_file_number, disk, dropping, gc, purging, open_pc>>

\* BatchDeleteFiles: the builder failed or was abandoned.
BatchDeleteFiles(f, cf) ==
  /\ open_pc = "open"
  /\ <<f, cf>> \in building
  /\ building' = building \ {<<f, cf>>}
  /\ disk' = disk \ {f}
  /\ UNCHANGED <<base, handles, memVars, next_file_number, logVars, dropping, gc,
                 purging, open_pc, bg_error>>

-----------------------------------------------------------------------------
(* Files go: GC, DeleteFilesInRanges and drops.                            *)

\* BackgroundGC picks live files fs of a column family that is not being dropped.
PickBlobGC(cf, fs) ==
  /\ open_pc = "open"
  /\ dropping = {}
  /\ cf \in column_families \ obsolete_columns
  /\ base[cf] = "live"
  /\ gc[cf] = {}
  /\ fs # {}
  /\ gc' = [gc EXCEPT ![cf] = fs]
  /\ UNCHANGED <<base, handles, memVars, next_file_number, logVars, disk,
                 building, dropping, purging, open_pc, bg_error>>

\* DeleteInputBlobFiles, at the end of the job.
DeleteInputBlobFiles(cf) ==
  /\ open_pc = "open"
  /\ gc[cf] # {}
  /\ gc' = [gc EXCEPT ![cf] = {}]
  /\ \/ /\ LogAndApply(cf, {}, gc[cf])
        /\ UNCHANGED bg_error
     \/ /\ LogAndApplyFails(cf, {}, gc[cf])
        /\ bg_error' = TRUE
  /\ UNCHANGED <<base, handles, column_families, obsolete_columns, destroyed,
                 next_file_number, disk, building, dropping, purging, open_pc>>

\* GetBlobFilesInRanges: keys are abstracted, so any live files.
InRanges(cf) ==
  IF "ranges" \in Options /\ cf \in handles \cap column_families
  THEN (SUBSET Live(cf)) \ {{}} ELSE {}

\* DeleteBlobFilesInRanges: the files within the ranges, whatever uses them.
DeleteBlobFilesInRanges(cf, fs) ==
  /\ open_pc = "open"
  /\ fs \in InRanges(cf)
  /\ LogAndApply(cf, {}, fs) \/ LogAndApplyFails(cf, {}, fs)
  /\ UNCHANGED <<base, handles, column_families, obsolete_columns, destroyed,
                 next_file_number, disk, jobVars, open_pc, bg_error>>

\* CreateColumnFamilies: the storage is there before the user has the handle.
CreateColumnFamily(cf) ==
  /\ open_pc = "open"
  /\ base[cf] = "new"
  /\ base' = [base EXCEPT ![cf] = "live"]
  /\ handles' = handles \cup {cf}
  /\ column_families' = column_families \cup {cf}
  /\ UNCHANGED <<obsolete_columns, files, obsolete_files, destroyed,
                 next_file_number, logVars, disk, jobVars, open_pc, bg_error>>

\* Mutant: the drop does not wait for GC jobs.
NoGCRunningUnchecked == TRUE

\* bg_gc_running_ = 0.
NoGCRunning == \A cf \in ColumnFamily : gc[cf] = {}

\* TitanDBImpl::DropColumnFamilies: the base DB first, when no GC job runs.
BaseDropColumnFamily(cf) ==
  /\ open_pc = "open"
  /\ cf \in handles \ {DefaultCF}
  /\ base[cf] = "live"
  /\ NoGCRunning
  /\ base' = [base EXCEPT ![cf] = "dropped"]
  /\ dropping' = dropping \cup {cf}
  /\ UNCHANGED <<handles, memVars, next_file_number, logVars, disk, building, gc,
                 purging, open_pc, bg_error>>

\* BlobFileSet::DropColumnFamilies; a failure is returned and nothing more.  The
\* storage is there, as the caller holds the handle.
DropColumnFamilies(cf) ==
  /\ open_pc = "open"
  /\ cf \in dropping
  /\ dropping' = dropping \ {cf}
  /\ \/ /\ LogAndApply(cf, {}, Live(cf))
        /\ obsolete_columns' = obsolete_columns \cup {cf}
     \/ /\ LogAndApplyFails(cf, {}, Live(cf))
        /\ UNCHANGED obsolete_columns
  /\ UNCHANGED <<base, handles, column_families, destroyed, next_file_number,
                 disk, building, gc, purging, open_pc, bg_error>>

-----------------------------------------------------------------------------
(* Storages and obsolete files go.                                         *)

\* Mutant: a destroyed storage is removed with obsolete files in it.
MaybeRemoveAtOnce(cf, gone, left) == cf \in gone

\* MaybeRemove, when gone are destroyed and left are the obsolete files.
MaybeRemove(cf, gone, left) == cf \in gone /\ left[cf] = {}

\* The storages of cfs are erased.
Erase(cfs, fs, left) ==
  /\ column_families' = column_families \ cfs
  /\ destroyed' = destroyed \ cfs
  /\ files' = [cf \in ColumnFamily |-> IF cf \in cfs THEN {} ELSE fs[cf]]
  /\ obsolete_files' = [cf \in ColumnFamily |-> IF cf \in cfs THEN {} ELSE left[cf]]

\* MarkDestroyed, and what follows it in MaybeDestroyColumnFamily.
MarkDestroyed(cf) ==
  LET gone == destroyed \cup {cf} IN
  IF MaybeRemove(cf, gone, obsolete_files)
  THEN Erase({cf}, files, obsolete_files)
  ELSE /\ destroyed' = gone
       /\ UNCHANGED <<column_families, files, obsolete_files>>

\* Mutant: the column family stays in obsolete_columns_.
MaybeDestroyKeepsObsolete(cf) ==
  /\ MarkDestroyed(cf)
  /\ UNCHANGED obsolete_columns

MaybeDestroyColumnFamily(cf) ==
  /\ MarkDestroyed(cf)
  /\ obsolete_columns' = obsolete_columns \ {cf}

DestroyColumnFamilyHandle(cf) ==
  /\ open_pc = "open"
  /\ cf \in handles \ dropping
  /\ base[cf] = "dropped" \/ "destroy" \in Options
  /\ handles' = handles \ {cf}
  /\ MaybeDestroyColumnFamily(cf)
  /\ UNCHANGED <<base, next_file_number, logVars, disk, jobVars, open_pc, bg_error>>

\* Mutant: obsolete_columns_ is not consulted.
PurgeableDropped == UNION {obsolete_files[cf] : cf \in column_families}

\* Obsolete files of a dropped column family whose handle is held are kept.
Purgeable == UNION {obsolete_files[cf] : cf \in column_families \ obsolete_columns}

\* GetObsoleteFiles: rem are the ones among them that no snapshot needs.
GetObsoleteFiles(rem) ==
  LET left == [cf \in ColumnFamily |-> obsolete_files[cf] \ rem] IN
  /\ open_pc = "open"
  /\ purging = {}
  /\ rem # {}
  /\ purging' = rem
  /\ Erase({cf \in column_families \ obsolete_columns :
              MaybeRemove(cf, destroyed, left)},
           [cf \in ColumnFamily |-> files[cf] \ rem], left)
  /\ UNCHANGED <<base, handles, obsolete_columns, next_file_number, logVars, disk,
                 building, dropping, gc, open_pc, bg_error>>

\* PurgeObsoleteFilesImpl deletes them after it has released mutex_.
DeletePurgedFiles ==
  /\ open_pc = "open"
  /\ purging # {}
  /\ disk' = disk \ purging
  /\ purging' = {}
  /\ UNCHANGED <<base, handles, memVars, next_file_number, logVars, building,
                 dropping, gc, open_pc, bg_error>>

-----------------------------------------------------------------------------
(* Crash and recovery.                                                     *)

\* The process is gone, and what it had in memory with it.
LosesMemory ==
  /\ open_pc = "open" \/ open_pc = "purge"
  /\ open_pc' = "closed"
  /\ handles' = {}
  /\ column_families' = {}
  /\ obsolete_columns' = {}
  /\ files' = NoFiles
  /\ obsolete_files' = NoFiles
  /\ destroyed' = {}
  /\ next_file_number' = 1
  /\ building' = {}
  /\ dropping' = {}
  /\ gc' = NoFiles
  /\ purging' = {}
  /\ bg_error' = FALSE
  /\ UNCHANGED <<base, disk>>

\* The first n records survive.
Crash(n) ==
  /\ LosesMemory
  /\ n \in synced..Len(manifest)
  /\ manifest' = SubSeq(manifest, 1, n)
  /\ synced' = n

\* The edits some thread may be logging, with their column families.
Logging ==
  {<<b[2], {b[1]}, {}>> : b \in building}
  \cup {<<cf, {}, gc[cf]>> : cf \in {c \in ColumnFamily : gc[c] # {}}}
  \cup {<<cf, {}, Live(cf)>> : cf \in dropping}
  \cup UNION {{<<cf, {}, fs>> : fs \in InRanges(cf)} : cf \in ColumnFamily}

\* Crash inside LogAndApply, after a record that survives.
CrashInLog ==
  /\ open_pc = "open"
  /\ LosesMemory
  /\ Len(manifest) < MaxLog
  /\ \E e \in Logging : /\ Seal(e[1], e[2], e[3])
                        /\ manifest' = Append(manifest, Record(e[1], e[2], e[3]))
  /\ synced' = Len(manifest')

Added(m, cf)   == UNION {m[i].add[cf] : i \in 1..Len(m)}
Deleted(m, cf) == UNION {m[i].del[cf] : i \in 1..Len(m)}

\* The files a manifest leaves a column family with (CFEditCollector::Apply).
Durable(m, cf) == Added(m, cf) \ Deleted(m, cf)

\* AddEdit and Seal accept the records of a manifest when cfs are opened.
Replayable(m, cfs) ==
  /\ \A i, j \in 1..Len(m) : i < j =>
       /\ m[i].next <= m[j].next
       /\ \A cf \in ColumnFamily : /\ m[i].add[cf] \cap m[j].add[cf] = {}
                                   /\ m[i].del[cf] \cap m[j].del[cf] = {}
  /\ \A cf \in cfs : Deleted(m, cf) \subseteq Added(m, cf)

\* The base DB opens only with all the column families it has.
OpenedCFs == {cf \in ColumnFamily : base[cf] = "live"}

\* Mutant: the snapshot is taken of what the manifest added.
RecoveredAll(cf) == IF cf \in OpenedCFs THEN Added(manifest, cf) ELSE {}

\* What Recover puts into the storage of cf.
Recovered(cf) == IF cf \in OpenedCFs THEN Durable(manifest, cf) ELSE {}

\* next_file_number_ when the new manifest has taken its number.
RecoveredNext == manifest[Len(manifest)].next + 1

\* Recover and OpenManifest: the new manifest begins with a snapshot.
Recover ==
  /\ open_pc = "closed"
  /\ Replayable(manifest, OpenedCFs)
  /\ RecoveredNext <= MaxFile + 1
  /\ open_pc' = "purge"
  /\ handles' = OpenedCFs
  /\ column_families' = OpenedCFs
  /\ files' = [cf \in ColumnFamily |-> Recovered(cf)]
  /\ next_file_number' = RecoveredNext
  /\ manifest' = <<[add |-> files', del |-> NoFiles, next |-> RecoveredNext]>>
  /\ synced' = 1
  /\ UNCHANGED <<base, obsolete_columns, obsolete_files, destroyed, disk, jobVars,
                 bg_error>>

RecoverCorruption ==
  /\ open_pc = "closed"
  /\ ~Replayable(manifest, OpenedCFs)
  /\ open_pc' = "corrupt"
  /\ UNCHANGED <<base, handles, memVars, next_file_number, logVars, disk, jobVars,
                 bg_error>>

\* Mutant: what the old manifest's column families had is not alive.
AliveNone == {next_file_number - 1}

\* alive_files holds the numbers of the live blob files and of the manifest.
Alive == {next_file_number - 1} \cup UNION {files[cf] : cf \in column_families}

\* Recover deletes the other files before Open returns.
PurgeInactiveFiles ==
  /\ open_pc = "purge"
  /\ open_pc' = "open"
  /\ disk' = disk \cap Alive
  /\ UNCHANGED <<base, handles, memVars, next_file_number, logVars, jobVars,
                 bg_error>>

-----------------------------------------------------------------------------
Edits == \/ \E b \in building : BatchFinishFiles(b[1], b[2])
         \/ \E cf \in ColumnFamily : DeleteInputBlobFiles(cf)
         \/ \E cf \in ColumnFamily : \E fs \in InRanges(cf) :
              DeleteBlobFilesInRanges(cf, fs)
         \/ \E cf \in ColumnFamily : DropColumnFamilies(cf)

Next == \/ \E cf \in ColumnFamily : \/ NewFile(cf)
                                    \/ CreateColumnFamily(cf)
                                    \/ BaseDropColumnFamily(cf)
                                    \/ DestroyColumnFamilyHandle(cf)
        \/ \E b \in building : BatchDeleteFiles(b[1], b[2])
        \/ \E cf \in ColumnFamily : \E fs \in SUBSET Live(cf) : PickBlobGC(cf, fs)
        \/ \E rem \in SUBSET Purgeable : GetObsoleteFiles(rem)
        \/ Edits
        \/ DeletePurgedFiles
        \/ \E n \in 1..MaxLog : Crash(n)
        \/ CrashInLog
        \/ Recover
        \/ RecoverCorruption
        \/ PurgeInactiveFiles

Spec == Init /\ [][Next]_vars

-----------------------------------------------------------------------------
(* Properties.                                                             *)

Files == [ColumnFamily -> SUBSET File]
IsOpen == open_pc \in {"purge", "open"}

\* Every variable has its type; only dropped column families with a handle are
\* in obsolete_columns_, and only ones without are destroyed.
TypeOK ==
  /\ base \in [ColumnFamily -> {"new", "live", "dropped"}]
  /\ handles \subseteq ColumnFamily
  /\ column_families \subseteq ColumnFamily
  /\ obsolete_columns \subseteq handles \cap column_families
  /\ next_file_number \in 1..(MaxFile + 1)
  /\ files \in Files
  /\ obsolete_files \in Files
  /\ destroyed \subseteq column_families \ handles
  /\ manifest \in Seq([add : Files, del : Files, next : 1..(MaxFile + 1)])
  /\ synced \in 1..Len(manifest)
  /\ disk \subseteq File
  /\ building \subseteq File \X ColumnFamily
  /\ dropping \subseteq handles \cap column_families
  /\ gc \in Files
  /\ purging \subseteq File
  /\ open_pc \in {"open", "closed", "purge", "corrupt"}
  /\ bg_error \in BOOLEAN

\* Whenever the process dies, the manifest can be replayed: no file is added or
\* deleted twice, none is deleted that was not added (AddEdit, Seal, Recover).
CanRecover ==
  \A n \in synced..Len(manifest) : Replayable(SubSeq(manifest, 1, n), OpenedCFs)

\* The storage of a column family holds the files the manifest says, obsolete
\* ones apart, so that a restart changes nothing (LogAndApply, Recover).
MemoryAgrees ==
  IsOpen => \A cf \in column_families : Live(cf) = Durable(manifest, cf)

\* The files the manifest gives a column family are on disk, at every moment,
\* whatever was purged at run time or by Recover, and the next number handed
\* out names none of them, so that NewFile does not truncate one.
LiveFilesOnDisk ==
  \A cf \in OpenedCFs :
    /\ Durable(manifest, cf) \subseteq disk
    /\ IsOpen => \A f \in Durable(manifest, cf) : f < next_file_number

\* While the user holds the handle of a dropped column family, none of its
\* files leaves the storage or the disk, not even by a purge that began before
\* the drop (GetObsoleteFiles, PurgeObsoleteFilesImpl).
HandleKeepsFiles ==
  [][\A cf \in obsolete_columns \cap obsolete_columns' :
       files[cf] \subseteq files'[cf] /\ files'[cf] \subseteq disk']_vars

\* As long as the process lives, an obsolete file leaves memory only for the
\* list of files to delete, so that none is left on disk (MaybeRemove).
ObsoleteFilesHandedOver ==
  [][open_pc' = "open" => \A cf \in ColumnFamily :
       obsolete_files[cf] \ obsolete_files'[cf] \subseteq purging']_vars

\* The catalog kept by the manifest is the abstract one.
Catalog == INSTANCE BlobCatalog
  WITH live <- [cf \in ColumnFamily |-> Durable(manifest, cf)],
       dropped <- {cf \in ColumnFamily : base[cf] = "dropped"}

\* BlobFileSet with its manifest implements BlobCatalog: a crash at any step of
\* LogAndApply loses no edit and makes none half done, and Recover forgets the
\* files of dropped column families only.
ImplementsCatalog == Catalog!Spec

-----------------------------------------------------------------------------
(* What comments and tests of the code claim.                              *)

\* A healthy disk sets no background error: GC and drops wait for each other so
\* that GC jobs do not fail.
NoBackgroundError == "manifest" \notin Options => ~bg_error

\* Open fails when the manifest has data of a column family that is not opened.
OutsideIsCorruption ==
  [][open_pc = "closed" /\ open_pc' = "purge" =>
       \A cf \in ColumnFamily \ OpenedCFs : Durable(manifest, cf) = {}]_vars

\* Recover leaves no blob file on disk that is in no storage.
InactiveFilesPurged ==
  [][open_pc = "purge" /\ open_pc' = "open" =>
       disk' \subseteq UNION {files[cf] : cf \in column_families}]_vars

\* The storage of a dropped column family is removed only when all its blob
\* files are deleted or about to be.
StorageRemovedLast ==
  [][\A cf \in column_families \ column_families' :
       base[cf] = "dropped" /\ open_pc' = "open" => Live(cf) = {}]_vars

=============================================================================
