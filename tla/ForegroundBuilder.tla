------------------------- MODULE ForegroundBuilder --------------------------
(***************************************************************************)
(* Separation of values before the memtable (sep_before_flush and          *)
(* level_merge): TitanDBImpl::Put hands the value to a ForegroundBuilder    *)
(* (src/src/table_builder.cc), whose threads append it to a blob file, and *)
(* only then writes the index to the base DB.  Files are read while they   *)
(* are being built, and are added to the manifest when a memtable is       *)
(* sealed (OnMemTableSealed).                                              *)
(*                                                                         *)
(* lsm lists every index of the base DB in the order of their sequence     *)
(* numbers; the first `sealed` of them are in sealed memtables or SSTs, the *)
(* first `flushed` in SSTs.  One column family, and one GC job: the races  *)
(* of GC jobs with user writes are the subject of TitanDB.                 *)
(***************************************************************************)
EXTENDS Naturals, Sequences, FiniteSets

CONSTANTS
  Key, Writer, Reader,
  NumBuilders,         \* num_foreground_builders
  Hash,                \* the builder of each key
  TargetSize,          \* records that fill a blob file (blob_file_target_size)
  MaxPut, MaxFile,     \* bounds on puts and on file numbers
  Options              \* what may happen, see below

Builder == 1..NumBuilders
File    == 1..MaxFile

\* "newfile": NewFile may fail.  "inline": some values are too small to separate.
\* "buffer": records may be smaller than the 4 KB buffer of the file's writer
\* (blob_file_compression, or a mid_blob_size below 4096).
\* "gc": unsorted blob files are collected.  "restart": the process may crash.
ASSUME BuilderAssumption ==
  /\ NumBuilders \in Nat \ {0} /\ Hash \in [Key -> Builder]
  /\ TargetSize \in Nat \ {0} /\ MaxPut \in Nat /\ MaxFile \in Nat
  /\ Options \subseteq {"newfile", "inline", "buffer", "gc", "restart"}
  /\ "flush" \notin Writer

VARIABLES
  writer,               \* the thread in each call of Put
  requests, bulk,       \* requests_[b], and the requests GetBulk returned
  asleep,               \* handleRequest waits in BlockQueue::GetBulk
  handle, finished,     \* handle_[b] (0: none), finished_files_[b]
  buffer,               \* records still in the buffer of handle_[b]'s writer
  contents,             \* the records of each blob file
  building, files,      \* building_files_ and files_ of the BlobStorage
  obsolete,             \* obsolete_files_: 0, or the sequence it is obsolete at
  next_file, logged_next,  \* next_file_number_, and what the manifest has of it
  lsm, sealed, flushed, \* the base DB
  seal,                 \* OnMemTableSealed: the builder it waits for, if any
  gc, mutex,            \* the GC job; who holds TitanDBImpl::mutex_
  reader, puts

builderVars == <<requests, bulk, asleep, handle, finished, buffer>>
storageVars == <<contents, building, files, obsolete, next_file, logged_next>>
lsmVars     == <<lsm, sealed, flushed>>
gcVars      == <<gc, mutex>>
vars        == <<writer, builderVars, storageVars, lsmVars, seal, gcVars, reader, puts>>

Flush    == "flush"      \* the request with an empty key
NoPut    == [pc |-> "idle", rec |-> <<>>, file |-> 0]
NoGC     == [pc |-> "idle", input |-> 0, keep |-> {}, output |-> 0]
NoRead   == [pc |-> "idle", entry |-> <<>>, snapshot |-> 0]
NoSeal   == [b |-> 0, answered |-> FALSE]

Entry(rec, f) == [rec |-> rec, file |-> f]
\* Position of the index a read of key k at sequence n meets, 0 if there is none.
Newest(k, n) ==
  LET at == {i \in 1..n : lsm[i].rec.key = k}
  IN  IF at = {} THEN 0 ELSE CHOOSE i \in at : \A j \in at : j <= i

Init ==
  /\ writer = [w \in Writer |-> NoPut]
  /\ requests = [b \in Builder |-> <<>>] /\ bulk = [b \in Builder |-> <<>>]
  /\ asleep = [b \in Builder |-> FALSE]
  /\ handle = [b \in Builder |-> 0] /\ finished = [b \in Builder |-> {}]
  /\ buffer = [b \in Builder |-> {}]
  /\ contents = [f \in File |-> {}] /\ building = {} /\ files = {}
  /\ obsolete = [f \in File |-> 0] /\ next_file = 1 /\ logged_next = 1
  /\ lsm = <<>> /\ sealed = 0 /\ flushed = 0 /\ seal = NoSeal
  /\ gc = NoGC /\ mutex = "free"
  /\ reader = [r \in Reader |-> NoRead] /\ puts = 0

-----------------------------------------------------------------------------
(* The request queue                                                       *)

\* Mutant: the size is looked at before the item is pushed.
BlockQueuePutLate(b, req) ==
  /\ requests' = [requests EXCEPT ![b] = Append(@, req)]
  /\ asleep' = [asleep EXCEPT ![b] = @ /\ Len(requests[b]) # 1]

\* BlockQueue::Put: wakes the consumer when the queue was empty.
BlockQueuePut(b, req) ==
  /\ requests' = [requests EXCEPT ![b] = Append(@, req)]
  /\ asleep' = [asleep EXCEPT ![b] = @ /\ Len(requests'[b]) # 1]

\* BlockQueue::GetBulk: takes everything, or waits.
GetBulk(b) ==
  /\ bulk[b] = <<>> /\ ~asleep[b]
  /\ bulk' = [bulk EXCEPT ![b] = requests[b]]
  /\ requests' = [requests EXCEPT ![b] = <<>>]
  /\ asleep' = [asleep EXCEPT ![b] = requests[b] = <<>>]
  /\ UNCHANGED <<writer, handle, finished, buffer, storageVars, lsmVars, seal,
                 gcVars, reader, puts>>

-----------------------------------------------------------------------------
(* Put                                                                     *)

\* Put, up to ForegroundBuilder::Add's wait for the answer.
Put(w, k) ==
  /\ writer[w].pc = "idle" /\ puts < MaxPut
  /\ puts' = puts + 1
  /\ LET rec == [key |-> k, id |-> puts + 1] IN
       \/ /\ writer' = [writer EXCEPT ![w] = [pc |-> "sent", rec |-> rec, file |-> 0]]
          /\ BlockQueuePut(Hash[k], w)
       \/ /\ "inline" \in Options    \* InvalidArgument: the value is too small
          /\ writer' = [writer EXCEPT ![w] = [pc |-> "answered", rec |-> rec, file |-> 0]]
          /\ UNCHANGED <<requests, asleep>>
  /\ UNCHANGED <<bulk, handle, finished, buffer, storageVars, lsmVars, seal,
                 gcVars, reader>>

\* The rest of Put: db_->Write of the index, or db_->Put of the value if Add
\* failed.  The base DB writes nothing while it seals a memtable.
Write(w) ==
  /\ writer[w].pc = "answered" /\ seal = NoSeal
  /\ lsm' = Append(lsm, Entry(writer[w].rec, writer[w].file))
  /\ writer' = [writer EXCEPT ![w] = NoPut]
  /\ UNCHANGED <<builderVars, storageVars, sealed, flushed, seal, gcVars, reader, puts>>

-----------------------------------------------------------------------------
(* ForegroundBuilder::handleRequest                                        *)

\* What WritableFileWriter::Append may leave in the buffer.
Buffered(old, rec) ==
  IF "buffer" \in Options THEN {{}, {rec}, old \cup {rec}} ELSE {{}}

\* Mutant: handle_[b] is not reset.
FinishBlobKeepsHandle(b, f) ==
  /\ finished' = [finished EXCEPT ![b] = @ \cup {f}]
  /\ handle' = [handle EXCEPT ![b] = f]
  /\ buffer' = [buffer EXCEPT ![b] = {}]

\* FinishBlob: the footer is written, the buffer flushed; not yet in the manifest.
FinishBlob(b, f) ==
  /\ finished' = [finished EXCEPT ![b] = @ \cup {f}]
  /\ handle' = [handle EXCEPT ![b] = 0]
  /\ buffer' = [buffer EXCEPT ![b] = {}]

HandleAdd(b) ==
  /\ bulk[b] # <<>> /\ Head(bulk[b]) # Flush
  /\ bulk' = [bulk EXCEPT ![b] = Tail(@)]
  /\ LET w     == Head(bulk[b])
         rec   == writer[w].rec
         fresh == handle[b] = 0
         f     == IF fresh THEN next_file ELSE handle[b] IN
       \/ /\ fresh => next_file <= MaxFile
          /\ next_file' = IF fresh THEN next_file + 1 ELSE next_file
          /\ building' = building \cup {f}       \* AddBuildingFile, if new
          /\ contents' = [contents EXCEPT ![f] = IF fresh THEN {rec} ELSE @ \cup {rec}]
          /\ IF Cardinality(contents'[f]) >= TargetSize
               THEN FinishBlob(b, f)
               ELSE /\ handle' = [handle EXCEPT ![b] = f]
                    /\ \E left \in Buffered(buffer[b], rec) :
                         buffer' = [buffer EXCEPT ![b] = left]
                    /\ UNCHANGED finished
          /\ writer' = [writer EXCEPT ![w].pc = "answered", ![w].file = f]
       \/ /\ fresh /\ "newfile" \in Options      \* NewFile fails, after taking
          /\ next_file < MaxFile                 \* a number
          /\ next_file' = next_file + 1
          /\ writer' = [writer EXCEPT ![w].pc = "answered"]
          /\ UNCHANGED <<building, contents, handle, finished, buffer>>
  /\ UNCHANGED <<requests, asleep, files, obsolete, logged_next, lsmVars, seal,
                 gcVars, reader, puts>>

\* Mutant: every building file is forgotten.
AddBlobFileClears(fs) ==
  /\ files' = files \cup fs
  /\ building' = {}
  /\ logged_next' = next_file

\* BatchFinishFiles: LogAndApply, which ends in BlobStorage::AddBlobFile.
AddBlobFile(fs) ==
  /\ files' = files \cup fs
  /\ building' = building \ fs
  /\ logged_next' = next_file

\* Mutant: the file at hand is left out.
ToFinishFullOnly(b) == finished[b]

\* What a flush request adds to the manifest: the full files and the one at hand.
ToFinish(b) == finished[b] \cup ({handle[b]} \ {0})

\* BatchFinishFiles takes TitanDBImpl::mutex_.
HandleFlush(b) ==
  /\ bulk[b] # <<>> /\ Head(bulk[b]) = Flush
  /\ ToFinish(b) # {} => mutex = "free"
  /\ bulk' = [bulk EXCEPT ![b] = Tail(@)]
  /\ IF ToFinish(b) # {}
       THEN AddBlobFile(ToFinish(b))
       ELSE UNCHANGED <<files, building, logged_next>>
  /\ finished' = [finished EXCEPT ![b] = {}]
  /\ handle' = [handle EXCEPT ![b] = 0]
  /\ buffer' = [buffer EXCEPT ![b] = {}]
  /\ seal' = [seal EXCEPT !.answered = TRUE]
  /\ UNCHANGED <<writer, requests, asleep, contents, obsolete, next_file, lsmVars,
                 gcVars, reader, puts>>

-----------------------------------------------------------------------------
(* The base DB seals and flushes a memtable                                *)

\* The base DB switches memtables and notifies OnMemTableSealed.
SwitchMemtable ==
  /\ seal = NoSeal /\ sealed < Len(lsm)
  /\ seal' = [b |-> 1, answered |-> FALSE]
  /\ BlockQueuePut(1, Flush)
  /\ UNCHANGED <<writer, bulk, handle, finished, buffer, storageVars, lsmVars,
                 gcVars, reader, puts>>

\* ForegroundBuilder::Flush asks its threads one after the other; then the
\* memtable is immutable and writes go on.
OnMemTableSealed ==
  /\ seal.answered
  /\ \/ /\ seal.b < NumBuilders
        /\ seal' = [b |-> seal.b + 1, answered |-> FALSE]
        /\ BlockQueuePut(seal.b + 1, Flush)
        /\ UNCHANGED sealed
     \/ /\ seal.b = NumBuilders
        /\ seal' = NoSeal
        /\ sealed' = Len(lsm)
        /\ UNCHANGED <<requests, asleep>>
  /\ UNCHANGED <<writer, bulk, handle, finished, buffer, storageVars, lsm,
                 flushed, gcVars, reader, puts>>

\* The flush job, and OnFlushCompleted.
FlushMemtable ==
  /\ flushed < sealed
  /\ flushed' = sealed
  /\ UNCHANGED <<writer, builderVars, storageVars, lsm, sealed, seal, gcVars, reader, puts>>

-----------------------------------------------------------------------------
(* GC of unsorted files                                                    *)

\* OnFlushCompleted and OnCompactionCompleted found records of f that no index
\* in an SST names: discardable_size() is positive.
Discardable(f) ==
  LET named == {i \in 1..flushed : lsm[i].file = f}
      live  == {i \in named : Newest(lsm[i].rec.key, flushed) = i}
  IN  named # {} /\ {lsm[i].rec : i \in live} # contents[f]

PickBlobGC(f) ==
  /\ "gc" \in Options /\ gc = NoGC /\ mutex = "free"
  /\ f \in files /\ obsolete[f] = 0 /\ Discardable(f)
  /\ gc' = [NoGC EXCEPT !.pc = "run", !.input = f]
  /\ UNCHANGED <<writer, builderVars, storageVars, lsmVars, seal, mutex, reader, puts>>

\* DiscardEntry: the index in the base DB is not this one, or there is none.
DiscardEntry(rec) ==
  LET i == Newest(rec.key, Len(lsm))
  IN  i = 0 \/ lsm[i] # Entry(rec, gc.input)

\* DoRunGC, without TitanDBImpl::mutex_.  All records are looked up at once.
DoRunGC ==
  /\ gc.pc = "run" /\ next_file <= MaxFile
  /\ LET keep == {rec \in contents[gc.input] : ~DiscardEntry(rec)}
         out  == IF keep = {} THEN 0 ELSE next_file
     IN  /\ gc' = [gc EXCEPT !.pc = "ran", !.keep = keep, !.output = out]
         /\ contents' = [f \in File |-> IF f = out THEN keep ELSE contents[f]]
         /\ next_file' = IF out = 0 THEN next_file ELSE next_file + 1
  /\ UNCHANGED <<writer, builderVars, building, files, obsolete, logged_next,
                 lsmVars, seal, mutex, reader, puts>>

GCLock ==
  /\ gc.pc = "ran" /\ mutex = "free"
  /\ gc' = [gc EXCEPT !.pc = "locked"] /\ mutex' = "gc"
  /\ UNCHANGED <<writer, builderVars, storageVars, lsmVars, seal, reader, puts>>

\* Mutant: Finish keeps mutex_.
GCFinishLocked ==
  /\ gc.pc = "locked"
  /\ gc' = [gc EXCEPT !.pc = "install"]
  /\ UNCHANGED <<writer, builderVars, storageVars, lsmVars, seal, mutex, reader, puts>>

\* Finish begins by releasing mutex_.
GCFinish ==
  /\ gc.pc = "locked"
  /\ gc' = [gc EXCEPT !.pc = "install"] /\ mutex' = "free"
  /\ UNCHANGED <<writer, builderVars, storageVars, lsmVars, seal, reader, puts>>

InstallOutputBlobFiles ==
  /\ gc.pc = "install" /\ mutex = "free"
  /\ gc' = [gc EXCEPT !.pc = "rewrite"]
  /\ AddBlobFile({gc.output} \ {0})
  /\ UNCHANGED <<writer, builderVars, contents, obsolete, next_file, lsmVars, seal,
                 mutex, reader, puts>>

\* RewriteValidKeyToLSM, one key at a time.
RewriteKey(rec) ==
  /\ gc.pc = "rewrite" /\ rec \in gc.keep /\ seal = NoSeal
  /\ lsm' = Append(lsm, Entry(rec, gc.output))
  /\ gc' = [gc EXCEPT !.keep = @ \ {rec}]
  /\ UNCHANGED <<writer, builderVars, storageVars, sealed, flushed, seal, mutex,
                 reader, puts>>

DeleteInputBlobFiles ==
  /\ gc.pc = "rewrite" /\ gc.keep = {} /\ mutex = "free"
  /\ obsolete' = [obsolete EXCEPT ![gc.input] = Len(lsm)]
  /\ logged_next' = next_file
  /\ gc' = NoGC
  /\ UNCHANGED <<writer, builderVars, contents, building, files, next_file, lsmVars,
                 seal, mutex, reader, puts>>

\* PurgeObsoleteFilesImpl and BlobStorage::GetObsoleteFiles, for one file.  The
\* oldest snapshot is read in the same step; TitanDB has the step between them.
PurgeObsoleteFile(f) ==
  /\ f \in files /\ obsolete[f] # 0 /\ mutex = "free"
  /\ \A r \in Reader : reader[r] # NoRead => reader[r].snapshot > obsolete[f]
  /\ files' = files \ {f}
  /\ contents' = [contents EXCEPT ![f] = {}]
  /\ UNCHANGED <<writer, builderVars, building, obsolete, next_file, logged_next,
                 lsmVars, seal, gcVars, reader, puts>>

\* The steps of a job; no two of them are enabled together.
RunGC ==
  \/ DoRunGC \/ GCLock \/ GCFinish \/ InstallOutputBlobFiles
  \/ \E rec \in gc.keep : RewriteKey(rec)
  \/ DeleteInputBlobFiles

BackgroundGC == RunGC \/ \E f \in File : PickBlobGC(f) \/ PurgeObsoleteFile(f)

-----------------------------------------------------------------------------
(* Reads, and restarts                                                     *)

\* GetImpl up to the index; only indexes matter here.
Get(r, k) ==
  /\ reader[r].pc = "idle"
  /\ LET i == Newest(k, Len(lsm)) IN
       /\ i # 0 /\ lsm[i].file # 0
       /\ reader' = [reader EXCEPT ![r] =
            [pc |-> "find", entry |-> lsm[i], snapshot |-> Len(lsm)]]
  /\ UNCHANGED <<writer, builderVars, storageVars, lsmVars, seal, gcVars, puts>>

\* BlobStorage::Get: FindFile, and a read of the file it found.
FindFile(r) ==
  /\ reader[r].pc = "find"
  /\ LET e == reader[r].entry IN
       reader' = [reader EXCEPT ![r] =
         CASE e.file \notin files           -> [@ EXCEPT !.pc = "building"]
           [] e.rec \in contents[e.file]    -> NoRead
           [] OTHER                         -> [@ EXCEPT !.pc = "corruption"]]
  /\ UNCHANGED <<writer, builderVars, storageVars, lsmVars, seal, gcVars, puts>>

\* ReadBuildingFile: FindBuildingFile, and a read of what has reached the file.
ReadBuildingFile(r) ==
  /\ reader[r].pc = "building"
  /\ LET e == reader[r].entry IN
       reader' = [reader EXCEPT ![r] =
         IF /\ e.file \in building
            /\ e.rec \in contents[e.file]
            /\ \A b \in Builder : e.rec \notin buffer[b]
           THEN NoRead ELSE [@ EXCEPT !.pc = "corruption"]]
  /\ UNCHANGED <<writer, builderVars, storageVars, lsmVars, seal, gcVars, puts>>

\* The process ends and the DB is opened again.  ForegroundBuilder::Finish
\* leaves the files at hand as a crash does.  Recover keeps the files of the
\* manifest, deletes the others and takes a number for the new manifest; the
\* base DB replays its log.  Bound: a restart leaves numbers for MaxPut files and
\* an output of GC.
Restart ==
  /\ "restart" \in Options /\ logged_next + MaxPut + 1 <= MaxFile
  /\ writer' = [w \in Writer |-> NoPut]
  /\ requests' = [b \in Builder |-> <<>>] /\ bulk' = [b \in Builder |-> <<>>]
  /\ asleep' = [b \in Builder |-> FALSE]
  /\ handle' = [b \in Builder |-> 0] /\ finished' = [b \in Builder |-> {}]
  /\ buffer' = [b \in Builder |-> {}]
  /\ building' = {} /\ files' = {f \in files : obsolete[f] = 0}
  /\ contents' = [f \in File |-> IF f \in files' THEN contents[f] ELSE {}]
  /\ obsolete' = [f \in File |-> 0]
  /\ next_file' = logged_next + 1 /\ logged_next' = logged_next + 1
  /\ sealed' = Len(lsm) /\ flushed' = Len(lsm) /\ seal' = NoSeal
  /\ gc' = NoGC /\ mutex' = "free"
  /\ reader' = [r \in Reader |-> NoRead]
  /\ UNCHANGED <<lsm, puts>>

handleRequest(b) == GetBulk(b) \/ HandleAdd(b) \/ HandleFlush(b)

Next ==
  \/ \E w \in Writer : (\E k \in Key : Put(w, k)) \/ Write(w)
  \/ \E b \in Builder : handleRequest(b)
  \/ SwitchMemtable \/ OnMemTableSealed \/ FlushMemtable
  \/ BackgroundGC
  \/ \E r \in Reader : (\E k \in Key : Get(r, k)) \/ FindFile(r) \/ ReadBuildingFile(r)
  \/ Restart

Spec == Init /\ [][Next]_vars

\* The threads of the builders, of GC and of the base DB run.  The base DB's
\* write queue is first in, first out, so that a write, of a Put or of GC, is not
\* overtaken for ever by memtable switches; nor is GC when it asks for mutex_.
FairSpec ==
  /\ Spec
  /\ \A b \in Builder : WF_vars(handleRequest(b))
  /\ \A w \in Writer : SF_vars(Write(w))
  /\ WF_vars(OnMemTableSealed) /\ SF_vars(RunGC)

-----------------------------------------------------------------------------
(* Properties                                                              *)

Rec == [key : Key, id : 1..MaxPut]

\* The variables have their types; a file at hand is neither full nor in the
\* manifest, and is readable as a building file (handleRequest, FinishBlob).
TypeOK ==
  /\ writer \in [Writer -> [pc : {"idle", "sent", "answered"}, rec : Rec \cup {<<>>},
                            file : File \cup {0}]]
  /\ \A b \in Builder : /\ requests[b] \in Seq(Writer \cup {Flush})
                        /\ bulk[b] \in Seq(Writer \cup {Flush})
                        /\ finished[b] \subseteq building
                        /\ handle[b] \in (building \ finished[b]) \cup {0}
                        /\ buffer[b] \subseteq Rec
  /\ asleep \in [Builder -> BOOLEAN]
  /\ contents \in [File -> SUBSET Rec]
  /\ building \subseteq File /\ files \subseteq File /\ building \cap files = {}
  /\ obsolete \in [File -> Nat]
  /\ logged_next <= next_file /\ next_file \in 1..MaxFile + 1
  /\ flushed <= sealed /\ sealed <= Len(lsm)
  /\ seal.b \in 0..NumBuilders /\ mutex \in {"free", "gc"}
  /\ puts \in 0..MaxPut

\* What OnMemTableSealed is for: an index in a sealed memtable, or in an SST
\* flushed from one, names a file that is in Titan's manifest.
SealedFilesLogged ==
  \A i \in 1..sealed : lsm[i].file \notin building

\* A read of any key finds the record its index names, in a finished file or in
\* one that is being built (BlobStorage::AddBlobFile, AddBuildingFile).
NewestReadable ==
  \A k \in Key :
    LET i == Newest(k, Len(lsm))
    IN  i # 0 /\ lsm[i].file # 0 =>
          /\ lsm[i].file \in files \cup building
          /\ lsm[i].rec \in contents[lsm[i].file]

\* DiscardEntry takes a key that is not found for one that was deleted or
\* overwritten: no record whose index is still to be written by its Put is in
\* a file that GC has deleted.
PendingRecordsKept ==
  \A w \in Writer :
    writer[w].pc = "answered" /\ writer[w].file # 0 =>
      obsolete[writer[w].file] = 0

\* BlobStorage::Get gets the record the index points to.
ReadsFindRecord == \A r \in Reader : reader[r].pc # "corruption"

\* Every Put returns: no request is left in a queue (BlockQueue), and no answer
\* is forgotten.
PutReturns == \A w \in Writer : writer[w].pc # "idle" ~> writer[w].pc = "idle"

\* OnMemTableSealed returns: the builders' threads and a GC job never wait for
\* each other through mutex_ and the base DB's write queue.
SealReturns == seal # NoSeal ~> seal = NoSeal

=============================================================================
