------------------------- MODULE BlobFileSet_healthy ------------------------
(***************************************************************************)
(* Proofs about BlobFileSet on a disk that does not fail: memory and       *)
(* manifest agree, the manifest can always be replayed, and the catalog    *)
(* implements BlobCatalog.                                                 *)
(***************************************************************************)
EXTENDS BlobFileSet_proofs

\* Writing and syncing the manifest and the blob files never fails.
HealthyDisk == "manifest" \notin Options

\* A healthy disk, and GC is not disturbed by both a handle that goes early and
\* DeleteFilesInRanges.
GCUndisturbed == HealthyDisk /\ ("destroy" \notin Options \/ "ranges" \notin Options)

\* On a healthy disk every record is synced and applied.
AgreeOK ==
  HealthyDisk => synced = Len(manifest) /\ MemoryAgrees

\* No record deletes what another has deleted.
DeletedOnce(m) ==
  \A i, j \in 1..Len(m), cf \in ColumnFamily :
    \A f \in m[i].del[cf] : f \in m[j].del[cf] => i = j

\* GC deletes files that are still there, or has a storage to refuse it.
OnceOK ==
  GCUndisturbed =>
    /\ DeletedOnce(manifest)
    /\ \A cf \in ColumnFamily :
         /\ "ranges" \notin Options => gc[cf] \subseteq Durable(manifest, cf)
         /\ "destroy" \notin Options => gc[cf] = {} \/ cf \in column_families

-----------------------------------------------------------------------------
(* Memory and manifest agree.                                              *)

\* On a healthy disk an edit is logged and applied, or Seal refuses it.
LEMMA HealthyEdit ==
  ASSUME IInv, HealthyDisk, NEW cf, NEW add, NEW del, EditStep(cf, add, del)
  PROVE  \/ UNCHANGED <<manifest, synced, files, obsolete_files>>
         \/ /\ LogAndApply(cf, add, del)
            /\ LogAfter(manifest', cf, add, del)
<1>1. EditOK(cf, add, del) /\ IsOpen
  BY Zenon DEF EditStep, IsOpen
<1>2. LogAfter(Append(manifest, Record(cf, add, del)), cf, add, del)
  BY Zenon, <1>1, LogAppend
<1>3. LogAndApply(cf, add, del) => LogAfter(manifest', cf, add, del)
  BY Zenon, <1>2 DEF LogAndApply
<1> QED BY Zenon, <1>3 DEF EditStep, LogAndApplyFails, HealthyDisk, logVars

\* What the manifest has of a file that is being added.
LEMMA FreshFile ==
  ASSUME IInv, NEW cf, NEW add, NEW del, EditOK(cf, add, del), NEW c \in ColumnFamily
  PROVE  /\ \A f \in add : /\ f \notin Added(manifest, c)
                           /\ f \notin Deleted(manifest, c)
                           /\ f \notin del
<1>1. Deleted(manifest, c) \subseteq Added(manifest, c)
  BY DeletedWasAdded DEF IInv
<1> QED BY Zenon, <1>1 DEF EditOK

\* Live of a storage that is still there, after a step that takes obsolete files
\* out of it.
LEMMA PurgeKeepsLive ==
  ASSUME IInv, NEW rem \in SUBSET Purgeable, NEW cf \in ColumnFamily
  PROVE  (files[cf] \ rem) \ (obsolete_files[cf] \ rem) = Live(cf)
<1>1. ASSUME NEW f \in rem, f \in files[cf] PROVE f \in obsolete_files[cf]
  <2>1. PICK c \in column_families : f \in obsolete_files[c]
    BY Zenon DEF Purgeable
  <2>2. c \in ColumnFamily
    BY Zenon DEF IInv, TypeOK
  <2>3. f \in Added(manifest, c) /\ f \in Added(manifest, cf)
    BY Zenon, <1>1, <2>1, <2>2 DEF IInv, StoragesOK
  <2>4. c = cf
    BY Zenon, <2>2, <2>3, OneOwner DEF IInv
  <2> QED BY Zenon, <2>1, <2>4
<1> QED BY <1>1 DEF Live

\* On a healthy disk LogAndApply syncs what it applies and applies what it syncs.
LEMMA AgreeKeeps ==
  ASSUME IInv, AgreeOK, HealthyDisk, [Next]_vars
  PROVE  AgreeOK'
<1> USE DEF memVars, logVars, jobVars
<1>0. /\ synced = Len(manifest) /\ MemoryAgrees
      /\ manifest \in Seq(Edit) /\ Len(manifest) \in Nat /\ synced \in 1..Len(manifest)
      /\ files \in Files /\ obsolete_files \in Files
      /\ column_families \subseteq ColumnFamily
  BY DEF AgreeOK, IInv, TypeOK, Edit
<1>1. SUFFICES synced' = Len(manifest') /\ MemoryAgrees'
  BY Zenon DEF AgreeOK
<1> DEFINE Goal == synced' = Len(manifest') /\ MemoryAgrees'
<1>2. ASSUME UNCHANGED <<manifest, synced>>, IsOpen' => IsOpen,
             \A cf \in column_families' :
               /\ cf \in column_families
               /\ files'[cf] \ obsolete_files'[cf] = Live(cf)
      PROVE  Goal
  BY Zenon, <1>0, <1>2 DEF MemoryAgrees, Live
<1>3. ASSUME UNCHANGED <<manifest, synced, files, obsolete_files, column_families>>,
             IsOpen' => IsOpen
      PROVE  Goal
  BY Zenon, <1>2, <1>3 DEF Live
<1>4. ASSUME Edits PROVE Goal
  <2>1. PICK cf, add, del : EditStep(cf, add, del)
    BY <1>4, EditsAreSteps
  <2>2. /\ open_pc = "open" /\ open_pc' = "open" /\ column_families' = column_families
        /\ EditOK(cf, add, del)
    BY Zenon, <2>1 DEF EditStep
  <2>3. CASE UNCHANGED <<manifest, synced, files, obsolete_files>>
    BY Zenon, <1>3, <2>2, <2>3 DEF IsOpen
  <2>4. CASE LogAndApply(cf, add, del) /\ LogAfter(manifest', cf, add, del)
    <3>1. synced' = Len(manifest')
      BY Zenon, <2>4 DEF LogAndApply
    <3>2. \A c \in column_families : Live(c) = Durable(manifest, c)
      BY Zenon, <1>0, <2>2 DEF MemoryAgrees, IsOpen
    <3>3. ASSUME NEW c \in column_families
          PROVE  files'[c] \ obsolete_files'[c] = Durable(manifest', c)
      <4>0. c \in ColumnFamily
        BY <1>0
      <4>1. CASE c = cf
        <5>1. /\ files'[c] = files[c] \cup add
              /\ obsolete_files'[c] = obsolete_files[c] \cup del
          BY <1>0, <2>4, <4>0, <4>1 DEF LogAndApply, Files
        <5>2. /\ Added(manifest', c) = Added(manifest, c) \cup add
              /\ Deleted(manifest', c) = Deleted(manifest, c) \cup del
          BY Zenon, <2>4, <4>1 DEF LogAfter
        <5>3. \A f \in add : /\ f \notin Added(manifest, c)
                             /\ f \notin Deleted(manifest, c)
                             /\ f \notin del
          BY Zenon, <2>2, <4>0, FreshFile
        <5>4. \A f \in obsolete_files[c] : f \in Added(manifest, c)
          BY Zenon, <4>0 DEF IInv, StoragesOK
        <5>5. files[c] \ obsolete_files[c] = Added(manifest, c) \ Deleted(manifest, c)
          BY Zenon, <3>2 DEF Live, Durable
        <5> QED BY <5>1, <5>2, <5>3, <5>4, <5>5 DEF Durable
      <4>2. CASE c # cf
        <5>1. files'[c] = files[c] /\ obsolete_files'[c] = obsolete_files[c]
          BY <1>0, <2>4, <4>0, <4>2 DEF LogAndApply, Files
        <5>2. /\ Added(manifest', c) = Added(manifest, c)
              /\ Deleted(manifest', c) = Deleted(manifest, c)
          BY <2>4, <4>0, <4>2 DEF LogAfter
        <5> QED BY Zenon, <3>2, <5>1, <5>2 DEF Live, Durable
      <4> QED BY Zenon, <4>1, <4>2
    <3> QED BY Zenon, <2>2, <3>1, <3>3 DEF MemoryAgrees, Live
  <2> QED BY Zenon, <2>1, <2>3, <2>4, HealthyEdit
<1>5. ASSUME NEW cf \in ColumnFamily, CreateColumnFamily(cf) PROVE Goal
  <2>1. /\ UNCHANGED <<manifest, synced, files, obsolete_files, open_pc>>
        /\ column_families' = column_families \cup {cf} /\ base[cf] = "new"
    BY Zenon, <1>5 DEF CreateColumnFamily
  <2>2. /\ Added(manifest, cf) = {} /\ files[cf] = {}
    BY Zenon, <2>1 DEF IInv, HandlesOK, StoragesOK
  <2>3. files[cf] \ obsolete_files[cf] = Durable(manifest, cf)
    BY <2>2 DEF Durable
  <2> QED BY Zenon, <1>0, <2>1, <2>3 DEF MemoryAgrees, Live, IsOpen
<1>6. ASSUME NEW cf \in ColumnFamily, DestroyColumnFamilyHandle(cf) PROVE Goal
  <2>1. UNCHANGED <<manifest, synced, open_pc>> /\ MarkDestroyed(cf)
    BY Zenon, <1>6 DEF DestroyColumnFamilyHandle, MaybeDestroyColumnFamily
  <2>2. CASE MaybeRemove(cf, destroyed \cup {cf}, obsolete_files)
    <3>1. Erase({cf}, files, obsolete_files)
      BY Zenon, <2>1, <2>2 DEF MarkDestroyed
    <3>2. \A c \in column_families' :
            c \in column_families /\ files'[c] \ obsolete_files'[c] = files[c] \ obsolete_files[c]
      BY <1>0, <3>1 DEF Erase
    <3> QED BY Zenon, <1>2, <2>1, <3>2 DEF Live, IsOpen
  <2>3. CASE ~MaybeRemove(cf, destroyed \cup {cf}, obsolete_files)
    BY Zenon, <1>3, <2>1, <2>3 DEF MarkDestroyed, IsOpen
  <2> QED BY Zenon, <2>2, <2>3
<1>7. ASSUME NEW rem \in SUBSET Purgeable, GetObsoleteFiles(rem) PROVE Goal
  <2> DEFINE left == [cf \in ColumnFamily |-> obsolete_files[cf] \ rem]
             kept == [cf \in ColumnFamily |-> files[cf] \ rem]
             cfs  == {cf \in column_families \ obsolete_columns :
                        MaybeRemove(cf, destroyed, left)}
  <2>1. UNCHANGED <<manifest, synced, open_pc>> /\ Erase(cfs, kept, left)
    BY Zenon, <1>7 DEF GetObsoleteFiles
  <2> HIDE DEF cfs
  <2>2. ASSUME NEW c \in column_families'
        PROVE  c \in column_families /\ files'[c] \ obsolete_files'[c] = Live(c)
    <3>1. c \in column_families /\ c \in ColumnFamily
      BY <1>0, <2>1, <2>2 DEF Erase
    <3>2. files'[c] = files[c] \ rem /\ obsolete_files'[c] = obsolete_files[c] \ rem
      BY <2>1, <2>2, <3>1 DEF Erase
    <3> QED BY Zenon, <3>1, <3>2, PurgeKeepsLive
  <2> QED BY Zenon, <1>2, <2>1, <2>2 DEF IsOpen
<1>8. ASSUME NEW n \in 1..MaxLog, Crash(n) PROVE Goal
  <2>1. n \in 1..Len(manifest) /\ synced' = n /\ manifest' = SubSeq(manifest, 1, n)
    BY <1>0, <1>8 DEF Crash
  <2>2. Len(manifest') = n
    BY Zenon, <1>0, <2>1, PrefixEdit
  <2>3. ~IsOpen'
    BY <1>8 DEF Crash, LosesMemory, IsOpen
  <2> QED BY Zenon, <2>1, <2>2, <2>3 DEF MemoryAgrees
<1>9. ASSUME CrashInLog PROVE Goal
  <2>1. ~IsOpen' /\ synced' = Len(manifest')
    BY <1>9 DEF CrashInLog, LosesMemory, IsOpen
  <2> QED BY Zenon, <2>1 DEF MemoryAgrees
<1>10. ASSUME Recover PROVE Goal
  <2>1. IInv' /\ open_pc' = "purge"
    BY Zenon, <1>10, RecoveryKeeps DEF Recover
  <2>2. \A cf \in ColumnFamily : Added(manifest', cf) = files'[cf]
    BY Zenon, <2>1 DEF IInv, PhaseOK
  <2>3. manifest' = <<[add |-> files', del |-> NoFiles, next |-> RecoveredNext]>> /\ synced' = 1
    BY Zenon, <1>10 DEF Recover
  <2>4. \A cf \in ColumnFamily : NoFiles[cf] = {}
    BY DEF NoFiles
  <2>5. Len(manifest') = 1 /\ manifest'[1].del = NoFiles /\ 1..1 = {1}
    BY <2>3
  <2>6. \A cf \in ColumnFamily : Deleted(manifest', cf) = {}
    BY Zenon, <2>4, <2>5 DEF Deleted
  <2>7. obsolete_files' = NoFiles
    <3>1. open_pc = "closed" /\ obsolete_files' = obsolete_files
      BY Zenon, <1>10 DEF Recover
    <3>2. ~IsOpen
      BY <3>1 DEF IsOpen
    <3> QED BY Zenon, <3>1, <3>2 DEF IInv, PhaseOK
  <2>8. column_families' \subseteq ColumnFamily
    BY Zenon, <2>1 DEF IInv, TypeOK
  <2>9. \A cf \in column_families' : files'[cf] \ obsolete_files'[cf] = Durable(manifest', cf)
    BY <2>2, <2>4, <2>6, <2>7, <2>8 DEF Durable
  <2> QED BY Zenon, <2>3, <2>5, <2>9 DEF MemoryAgrees, Live
<1>11. Goal
  <2> HIDE DEF Goal
  <2>1. ASSUME NEW cf \in ColumnFamily, NewFile(cf) \/ BaseDropColumnFamily(cf) PROVE Goal
    BY Zenon, <1>3, <2>1 DEF NewFile, BaseDropColumnFamily, IsOpen
  <2>2. ASSUME NEW f, NEW cf, BatchDeleteFiles(f, cf) \/ PickBlobGC(cf, f) PROVE Goal
    BY Zenon, <1>3, <2>2 DEF BatchDeleteFiles, PickBlobGC, IsOpen
  <2>3. ASSUME DeletePurgedFiles \/ PurgeInactiveFiles \/ UNCHANGED vars PROVE Goal
    BY Zenon, <1>3, <2>3 DEF DeletePurgedFiles, PurgeInactiveFiles, vars, IsOpen
  <2>4. ASSUME RecoverCorruption PROVE Goal
    <3>1. ~IsOpen'
      BY <2>4 DEF RecoverCorruption, IsOpen
    <3> QED BY Zenon, <1>3, <2>4, <3>1 DEF RecoverCorruption
  <2> QED BY Zenon, <1>4, <1>5, <1>6, <1>7, <1>8, <1>9, <1>10, <2>1, <2>2, <2>3, <2>4 DEF Next
<1> QED BY Zenon, <1>11

-----------------------------------------------------------------------------
(* Nothing is deleted twice.                                               *)

\* What Seal lets through is still in the catalog; an edit Seal does not see,
\* of a storage that is gone, is GC's.
LEMMA DeletesLive ==
  ASSUME IInv, AgreeOK, OnceOK, GCUndisturbed, IsOpen,
         NEW cf, NEW add, NEW del, EditOK(cf, add, del), Seal(cf, add, del)
  PROVE  del \subseteq Durable(manifest, cf)
<1>1. CASE cf \in column_families
  <2>1. Live(cf) = Durable(manifest, cf)
    BY Zenon, <1>1 DEF AgreeOK, GCUndisturbed, MemoryAgrees
  <2> QED BY Zenon, <1>1, <2>1 DEF Seal
<1>2. CASE cf \notin column_families
  <2>1. del \subseteq gc[cf] /\ cf \in ColumnFamily
    BY Zenon, <1>2 DEF EditOK
  <2> QED BY <1>2, <2>1 DEF OnceOK, GCUndisturbed
<1> QED BY Zenon, <1>1, <1>2

\* An edit that deletes files of the catalog deletes none a second time.
LEMMA OnceAppend ==
  ASSUME IInv, DeletedOnce(manifest), NEW cf, NEW add, NEW del,
         EditOK(cf, add, del), del \subseteq Durable(manifest, cf)
  PROVE  DeletedOnce(Append(manifest, Record(cf, add, del)))
<1> DEFINE r == Record(cf, add, del)
           M == Append(manifest, r)
           L == Len(manifest)
<1>1. /\ cf \in ColumnFamily /\ add \in SUBSET File /\ del \in SUBSET File
      /\ TypeOK /\ manifest \in Seq(Edit) /\ L \in Nat
  BY DEF EditOK, IInv, TypeOK, Edit
<1>2. r \in Edit /\ r.del[cf] = del /\ \A c \in ColumnFamily \ {cf} : r.del[c] = {}
  BY <1>1, RecordOf
<1> HIDE DEF r
<1>3. Len(M) = L + 1 /\ M[L + 1] = r /\ \A i \in 1..L : M[i] = manifest[i]
  BY <1>1, <1>2, AppendEdit
<1> HIDE DEF M
<1>4. \A i \in 1..Len(M) : i \in 1..L \/ i = L + 1
  BY <1>1, <1>3
<1>5. SUFFICES ASSUME NEW i \in 1..Len(M), NEW j \in 1..Len(M), NEW c \in ColumnFamily,
                      NEW f \in M[i].del[c], f \in M[j].del[c]
               PROVE  i = j
  BY Zenon DEF DeletedOnce, M, r
<1>6. ASSUME NEW k \in 1..L, f \in M[k].del[c], f \in M[L + 1].del[c] PROVE FALSE
  <2>1. c = cf /\ f \in del
    BY <1>2, <1>3, <1>6
  <2>2. f \in Deleted(manifest, cf)
    BY Zenon, <1>3, <1>6, <2>1 DEF Deleted
  <2> QED BY Zenon, <2>1, <2>2 DEF Durable
<1>7. CASE i \in 1..L /\ j \in 1..L
  BY <1>3, <1>5, <1>7 DEF DeletedOnce
<1> QED BY Zenon, <1>4, <1>5, <1>6, <1>7

\* DeleteInputBlobFiles finds its inputs still there, and no file is deleted twice.
LEMMA OnceKeeps ==
  ASSUME IInv, AgreeOK, OnceOK, GCUndisturbed, [Next]_vars
  PROVE  OnceOK'
<1> USE DEF memVars, logVars, jobVars
<1>0. /\ manifest \in Seq(Edit) /\ synced \in 1..Len(manifest)
      /\ DeletedOnce(manifest) /\ gc \in Files
      /\ column_families \subseteq ColumnFamily /\ HealthyDisk
  BY DEF OnceOK, IInv, TypeOK, Edit, GCUndisturbed
<1> DEFINE GCOK == \A cf \in ColumnFamily :
                     /\ "ranges" \notin Options => gc[cf] \subseteq Durable(manifest, cf)
                     /\ "destroy" \notin Options => gc[cf] = {} \/ cf \in column_families
<1>1. GCOK
  BY Zenon DEF OnceOK
<1> DEFINE Goal == DeletedOnce(manifest') /\ GCOK'
<1>2. SUFFICES Goal
  BY Zenon DEF OnceOK
<1>3. ASSUME UNCHANGED <<manifest, gc>>,
             \A cf \in column_families \ column_families' :
               "destroy" \notin Options => gc[cf] = {}
      PROVE  Goal
  BY Zenon, <1>0, <1>1, <1>3
<1>4. ASSUME Edits PROVE Goal
  <2>1. PICK cf, add, del : EditStep(cf, add, del)
    BY <1>4, EditsAreSteps
  <2>2. /\ IsOpen /\ column_families' = column_families /\ EditOK(cf, add, del)
        /\ \A c \in ColumnFamily : gc'[c] = gc[c] \/ gc'[c] = {}
        /\ del # {} /\ "ranges" \notin Options => gc'[cf] = {}
    BY Zenon, <2>1 DEF EditStep, IsOpen
  <2>3. CASE manifest' = manifest
    <3>1. \A c \in ColumnFamily : gc'[c] \subseteq gc[c]
      BY Zenon, <2>2
    <3> QED BY <1>0, <1>1, <2>2, <2>3, <3>1
  <2>4. CASE LogAndApply(cf, add, del) /\ LogAfter(manifest', cf, add, del)
    <3>1. Seal(cf, add, del) /\ manifest' = Append(manifest, Record(cf, add, del))
      BY Zenon, <2>4 DEF LogAndApply
    <3>2. DeletedOnce(manifest')
      BY Zenon, <1>0, <2>2, <3>1, DeletesLive, OnceAppend
    <3>3. ASSUME NEW c \in ColumnFamily, "ranges" \notin Options
          PROVE  gc'[c] \subseteq Durable(manifest', c)
      <4>1. gc[c] \subseteq Durable(manifest, c)
        BY Zenon, <1>1, <3>3
      <4>2. CASE c = cf /\ del = {}
        <5>1. /\ Added(manifest', c) = Added(manifest, c) \cup add
              /\ Deleted(manifest', c) = Deleted(manifest, c)
          BY <2>4, <4>2 DEF LogAfter
        <5> QED BY <2>2, <4>1, <5>1 DEF Durable
      <4>3. CASE c = cf /\ del # {}
        BY Zenon, <2>2, <3>3, <4>3
      <4>4. CASE c # cf
        <5>1. /\ Added(manifest', c) = Added(manifest, c)
              /\ Deleted(manifest', c) = Deleted(manifest, c)
          BY <2>4, <4>4 DEF LogAfter
        <5> QED BY Zenon, <2>2, <4>1, <5>1 DEF Durable
      <4> QED BY Zenon, <4>2, <4>3, <4>4
    <3>4. \A c \in ColumnFamily :
            "destroy" \notin Options => gc'[c] = {} \/ c \in column_families'
      BY Zenon, <1>1, <2>2
    <3> QED BY Zenon, <3>2, <3>3, <3>4
  <2> QED BY Zenon, <1>0, <2>1, <2>3, <2>4, HealthyEdit
<1>5. ASSUME NEW cf \in ColumnFamily, NEW fs \in SUBSET Live(cf), PickBlobGC(cf, fs)
      PROVE  Goal
  <2>1. /\ open_pc = "open" /\ cf \in column_families
        /\ gc' = [gc EXCEPT ![cf] = fs]
        /\ UNCHANGED <<manifest, column_families>>
    BY Zenon, <1>5 DEF PickBlobGC
  <2>2. gc'[cf] = fs /\ \A c \in ColumnFamily \ {cf} : gc'[c] = gc[c]
    BY <1>0, <2>1 DEF Files
  <2>3. fs \subseteq Durable(manifest, cf)
    BY Zenon, <1>0, <2>1 DEF AgreeOK, MemoryAgrees, IsOpen
  <2> QED BY <1>0, <1>1, <2>1, <2>2, <2>3
<1>6. ASSUME NEW cf \in ColumnFamily, DestroyColumnFamilyHandle(cf) PROVE Goal
  <2>1. /\ UNCHANGED <<manifest, gc>> /\ MarkDestroyed(cf)
        /\ base[cf] = "dropped" \/ "destroy" \in Options
    BY Zenon, <1>6 DEF DestroyColumnFamilyHandle, MaybeDestroyColumnFamily
  <2>2. \A c \in column_families \ column_families' : c = cf
    BY <2>1 DEF MarkDestroyed, Erase
  <2>3. "destroy" \notin Options => gc[cf] = {}
    BY <2>1 DEF IInv, JobsOK
  <2> QED BY Zenon, <1>3, <2>1, <2>2, <2>3
<1>7. ASSUME NEW rem \in SUBSET Purgeable, GetObsoleteFiles(rem) PROVE Goal
  <2>1. UNCHANGED <<manifest, gc>>
    BY Zenon, <1>7 DEF GetObsoleteFiles
  <2>2. \A c \in column_families \ column_families' : c \in destroyed
    BY Zenon, <1>7 DEF GetObsoleteFiles, Erase, MaybeRemove
  <2>3. \A c \in destroyed : "destroy" \notin Options => gc[c] = {}
    BY <1>0 DEF IInv, JobsOK, TypeOK
  <2> QED BY Zenon, <1>3, <2>1, <2>2, <2>3
<1>8. ASSUME gc' = NoFiles, DeletedOnce(manifest') PROVE Goal
  <2>1. \A cf \in ColumnFamily : gc'[cf] = {}
    BY <1>8 DEF NoFiles
  <2> QED BY <1>8, <2>1
<1>9. ASSUME NEW n \in 1..MaxLog, Crash(n) PROVE Goal
  <2>1. n \in 1..Len(manifest) /\ manifest' = SubSeq(manifest, 1, n) /\ gc' = NoFiles
    BY <1>0, <1>9 DEF Crash, LosesMemory
  <2>2. Len(manifest') = n /\ \A i \in 1..n : i \in 1..Len(manifest) /\ manifest'[i] = manifest[i]
    BY Zenon, <1>0, <2>1, PrefixEdit
  <2>3. DeletedOnce(manifest')
    BY <1>0, <2>2 DEF DeletedOnce
  <2> QED BY Zenon, <1>8, <2>1, <2>3
<1>10. ASSUME CrashInLog PROVE Goal
  <2>1. gc' = NoFiles /\ open_pc = "open"
    BY Zenon, <1>10 DEF CrashInLog, LosesMemory
  <2>2. PICK e \in Logging : /\ Seal(e[1], e[2], e[3])
                             /\ manifest' = Append(manifest, Record(e[1], e[2], e[3]))
    BY Zenon, <1>10 DEF CrashInLog
  <2>3. EditOK(e[1], e[2], e[3]) /\ IsOpen
    BY <2>1, LoggingOK DEF IsOpen
  <2>4. DeletedOnce(manifest')
    BY Zenon, <1>0, <2>2, <2>3, DeletesLive, OnceAppend
  <2> QED BY Zenon, <1>8, <2>1, <2>4
<1>11. ASSUME Recover PROVE Goal
  <2>1. /\ open_pc = "closed" /\ gc' = gc
        /\ manifest' = <<[add |-> files', del |-> NoFiles, next |-> RecoveredNext]>>
    BY Zenon, <1>11 DEF Recover
  <2>2. gc' = NoFiles
    BY <2>1 DEF IInv, PhaseOK, IsOpen
  <2>3. Len(manifest') = 1
    BY <2>1
  <2>4. DeletedOnce(manifest')
    BY <2>3 DEF DeletedOnce
  <2> QED BY Zenon, <1>8, <2>2, <2>4
<1>12. Goal
  <2> HIDE DEF Goal
  <2>1. ASSUME NEW cf \in ColumnFamily,
               NewFile(cf) \/ BaseDropColumnFamily(cf) \/ CreateColumnFamily(cf)
        PROVE  Goal
    BY Zenon, <1>3, <2>1 DEF NewFile, BaseDropColumnFamily, CreateColumnFamily
  <2>2. ASSUME NEW f, NEW cf, BatchDeleteFiles(f, cf) PROVE Goal
    BY Zenon, <1>3, <2>2 DEF BatchDeleteFiles
  <2>3. ASSUME DeletePurgedFiles \/ PurgeInactiveFiles \/ RecoverCorruption \/ UNCHANGED vars
        PROVE  Goal
    BY Zenon, <1>3, <2>3 DEF DeletePurgedFiles, PurgeInactiveFiles, RecoverCorruption, vars
  <2> QED BY Zenon, <1>4, <1>5, <1>6, <1>7, <1>9, <1>10, <1>11, <2>1, <2>2, <2>3 DEF Next
<1> QED BY Zenon, <1>12

-----------------------------------------------------------------------------
(* The theorems.                                                           *)

\* IInv, and what a healthy disk and undisturbed GC add to it.
HealthyInv == IInv /\ AgreeOK /\ OnceOK

\* HealthyInv holds at every moment; AgreeOK and OnceOK carry their conditions.
THEOREM HealthyInvariance == Spec => []HealthyInv
<1>1. Init => HealthyInv
  <2> SUFFICES ASSUME Init PROVE HealthyInv
    OBVIOUS
  <2>1. IInv
    BY InitIInv
  <2>2. manifest = <<[add |-> NoFiles, del |-> NoFiles, next |-> 2]>> /\ synced = 1
        /\ files = NoFiles /\ obsolete_files = NoFiles /\ gc = NoFiles
    BY Zenon DEF Init
  <2>3. Len(manifest) = 1 /\ manifest[1].add = NoFiles /\ manifest[1].del = NoFiles
        /\ 1..1 = {1}
    BY <2>2
  <2>4. \A cf \in ColumnFamily : NoFiles[cf] = {}
    BY DEF NoFiles
  <2>5. \A cf \in ColumnFamily : Durable(manifest, cf) = {} /\ Live(cf) = {}
    <3>1. \A cf \in ColumnFamily : Added(manifest, cf) = {}
      BY Zenon, <2>3, <2>4 DEF Added
    <3> QED BY <2>2, <2>4, <3>1, Zenon DEF Durable, Live
  <2>6. AgreeOK
    BY <2>1, <2>2, <2>3, <2>5 DEF AgreeOK, MemoryAgrees, IInv, TypeOK
  <2>7. OnceOK
    <3>1. DeletedOnce(manifest)
      BY <2>3 DEF DeletedOnce
    <3> QED BY <2>2, <2>4, <3>1 DEF OnceOK
  <2> QED BY Zenon, <2>1, <2>6, <2>7 DEF HealthyInv
<1>2. HealthyInv /\ [Next]_vars => HealthyInv'
  <2> SUFFICES ASSUME HealthyInv, [Next]_vars PROVE HealthyInv'
    OBVIOUS
  <2>1. IInv'
    BY NextKeeps DEF HealthyInv
  <2>2. AgreeOK'
    <3>1. CASE HealthyDisk
      BY <3>1, AgreeKeeps DEF HealthyInv
    <3>2. CASE ~HealthyDisk
      BY Zenon, <3>2 DEF AgreeOK, HealthyDisk
    <3> QED BY <3>1, <3>2
  <2>3. OnceOK'
    <3>1. CASE GCUndisturbed
      BY <3>1, OnceKeeps DEF HealthyInv
    <3>2. CASE ~GCUndisturbed
      BY Zenon, <3>2 DEF OnceOK, GCUndisturbed, HealthyDisk
    <3> QED BY <3>1, <3>2
  <2> QED BY Zenon, <2>1, <2>2, <2>3 DEF HealthyInv
<1> QED BY <1>1, <1>2, PTL DEF Spec

\* When no write of the manifest fails, the storages in memory hold what a
\* restart would rebuild from the manifest, whatever jobs, drops, purges and
\* crashes came before (LogAndApply, Recover).
THEOREM RestartChangesNothing ==
  ASSUME HealthyDisk
  PROVE  Spec => []MemoryAgrees
<1>1. HealthyInv => MemoryAgrees
  BY DEF HealthyInv, AgreeOK
<1> QED BY <1>1, HealthyInvariance, PTL

\* When no write of the manifest fails, and GC does not meet both a handle that
\* was destroyed early and DeleteFilesInRanges, Recover accepts the manifest at
\* every moment: no crash leaves the DB unable to open (AddEdit, Seal, Recover).
THEOREM AlwaysRecovers ==
  ASSUME GCUndisturbed
  PROVE  Spec => []CanRecover
<1>1. HealthyInv => CanRecover
  <2> SUFFICES ASSUME HealthyInv, NEW n \in synced..Len(manifest)
               PROVE  Replayable(SubSeq(manifest, 1, n), OpenedCFs)
    BY Zenon DEF CanRecover
  <2>1. /\ manifest \in Seq(Edit) /\ synced \in 1..Len(manifest) /\ LogOK(manifest)
        /\ DeletedOnce(manifest)
    BY DEF HealthyInv, IInv, TypeOK, Edit, OnceOK
  <2>2. n \in 1..Len(manifest)
    BY <2>1
  <2> DEFINE m == SubSeq(manifest, 1, n)
  <2>3. /\ m \in Seq(Edit) /\ Len(m) = n
        /\ \A i \in 1..n : i \in 1..Len(manifest) /\ m[i] = manifest[i]
    BY Zenon, <2>1, <2>2, PrefixEdit
  <2>4. LogOK(m)
    BY Zenon, <2>1, <2>2, LogPrefix
  <2> HIDE DEF m
  <2>5. DeletedOnce(m)
    BY <2>1, <2>3 DEF DeletedOnce
  <2>6. ASSUME NEW i \in 1..Len(m), NEW j \in 1..Len(m), i < j
        PROVE  /\ m[i].next <= m[j].next
               /\ \A cf \in ColumnFamily : /\ m[i].add[cf] \cap m[j].add[cf] = {}
                                           /\ m[i].del[cf] \cap m[j].del[cf] = {}
    <3>1. i # j
      BY <2>6
    <3> QED BY <2>4, <2>5, <2>6, <3>1 DEF LogOK, DeletedOnce
  <2>7. \A cf \in OpenedCFs : Deleted(m, cf) \subseteq Added(m, cf)
    BY <2>4, DeletedWasAdded DEF OpenedCFs
  <2>8. Replayable(m, OpenedCFs)
    BY Zenon, <2>6, <2>7 DEF Replayable
  <2> QED BY Zenon, <2>8 DEF m
<1> QED BY <1>1, HealthyInvariance, PTL

-----------------------------------------------------------------------------
(* BlobFileSet implements BlobCatalog.                                     *)

\* An edit that reaches the manifest is an Add or a Delete of the catalog.
LEMMA EditImplements ==
  ASSUME IInv, NEW cf, NEW add, NEW del, EditOK(cf, add, del),
         LogAfter(manifest', cf, add, del), base' = base
  PROVE  Catalog!Next
<1> DEFINE live == [c \in ColumnFamily |-> Durable(manifest, c)]
           live2 == [c \in ColumnFamily |-> Durable(manifest', c)]
<1>1. /\ cf \in ColumnFamily /\ add \in SUBSET File
      /\ add = {} \/ (del = {} /\ \E f : add = {f})
  BY Zenon DEF EditOK
<1>2. /\ Added(manifest', cf) = Added(manifest, cf) \cup add
      /\ Deleted(manifest', cf) = Deleted(manifest, cf) \cup del
      /\ \A c \in ColumnFamily \ {cf} : /\ Added(manifest', c) = Added(manifest, c)
                                       /\ Deleted(manifest', c) = Deleted(manifest, c)
  BY Zenon DEF LogAfter
<1>3. \A c \in ColumnFamily \ {cf} : Durable(manifest', c) = Durable(manifest, c)
  BY Zenon, <1>2 DEF Durable
<1>4. UNCHANGED {c \in ColumnFamily : base[c] = "dropped"}
  OBVIOUS
<1>5. CASE add = {}
  <2> DEFINE fs == del \cap Durable(manifest, cf)
  <2>1. Durable(manifest', cf) = Durable(manifest, cf) \ fs
    BY <1>2, <1>5 DEF Durable
  <2>2. fs \in SUBSET File
    <3>1. del \in SUBSET File
      BY Zenon DEF EditOK
    <3> QED BY Zenon, <3>1
  <2>3. fs \subseteq live[cf] /\ live2 = [live EXCEPT ![cf] = @ \ fs]
    BY <1>1, <1>3, <2>1, Zenon
  <2>4. Catalog!Delete(cf, fs)
    BY Zenon, <1>4, <2>3 DEF Catalog!Delete
  <2> QED BY Zenon, <1>1, <2>2, <2>4 DEF Catalog!Next
<1>6. CASE del = {} /\ \E f : add = {f}
  <2>1. PICK f : add = {f}
    BY <1>6
  <2>2. f \in File /\ \A c \in ColumnFamily : f \notin Added(manifest, c)
    BY Zenon, <2>1 DEF EditOK
  <2>3. f \notin Deleted(manifest, cf)
    BY Zenon, <1>1, <2>2, DeletedWasAdded DEF IInv
  <2>4. Durable(manifest', cf) = Durable(manifest, cf) \cup {f}
    BY <1>2, <1>6, <2>1, <2>3 DEF Durable
  <2>5. \A c \in ColumnFamily : f \notin live[c]
    BY Zenon, <2>2 DEF Durable
  <2>6. live2 = [live EXCEPT ![cf] = @ \cup {f}]
    BY <1>1, <1>3, <2>4, Zenon
  <2>7. Catalog!Add(cf, f)
    BY Zenon, <1>4, <2>5, <2>6 DEF Catalog!Add
  <2> QED BY Zenon, <1>1, <2>2, <2>7 DEF Catalog!Next
<1> QED BY Zenon, <1>1, <1>5, <1>6

\* What a step does to the abstract catalog.
LEMMA StepImplements ==
  ASSUME IInv, AgreeOK, HealthyDisk, [Next]_vars
  PROVE  \/ Catalog!Next
         \/ UNCHANGED <<[cf \in ColumnFamily |-> Durable(manifest, cf)],
                        {cf \in ColumnFamily : base[cf] = "dropped"}>>
<1> USE DEF memVars, logVars, jobVars
<1> DEFINE live == [cf \in ColumnFamily |-> Durable(manifest, cf)]
           dropped == {cf \in ColumnFamily : base[cf] = "dropped"}
           Goal == Catalog!Next \/ UNCHANGED <<live, dropped>>
<1>0. /\ synced = Len(manifest) /\ manifest \in Seq(Edit) /\ LogOK(manifest)
      /\ base \in [ColumnFamily -> {"new", "live", "dropped"}]
  BY DEF AgreeOK, IInv, TypeOK, Edit
<1>1. ASSUME UNCHANGED <<manifest, base>> PROVE Goal
  BY <1>1
<1>2. ASSUME Edits PROVE Goal
  <2>1. PICK cf, add, del : EditStep(cf, add, del)
    BY <1>2, EditsAreSteps
  <2>2. base' = base /\ EditOK(cf, add, del)
    BY Zenon, <2>1 DEF EditStep
  <2>3. manifest' = manifest \/ LogAfter(manifest', cf, add, del)
    BY Zenon, <2>1, HealthyEdit
  <2>4. CASE manifest' = manifest
    BY Zenon, <1>1, <2>2, <2>4
  <2>5. CASE LogAfter(manifest', cf, add, del)
    <3>1. Catalog!Next
      BY <2>2, <2>5, EditImplements
    <3> QED BY Zenon, <3>1
  <2> QED BY Zenon, <2>3, <2>4, <2>5
<1>3. ASSUME NEW cf \in ColumnFamily, CreateColumnFamily(cf) PROVE Goal
  <2>1. manifest' = manifest /\ base[cf] = "new" /\ base' = [base EXCEPT ![cf] = "live"]
    BY Zenon, <1>3 DEF CreateColumnFamily
  <2>2. dropped' = dropped
    BY <1>0, <2>1
  <2> QED BY <2>1, <2>2
<1>4. ASSUME NEW cf \in ColumnFamily, BaseDropColumnFamily(cf) PROVE Goal
  <2>1. manifest' = manifest /\ base' = [base EXCEPT ![cf] = "dropped"]
    BY Zenon, <1>4 DEF BaseDropColumnFamily
  <2>2. dropped' = dropped \cup {cf}
    BY <1>0, <2>1
  <2>3. live' = live
    BY <2>1
  <2>4. Catalog!Drop(cf)
    BY Zenon, <2>2, <2>3 DEF Catalog!Drop
  <2> QED BY Zenon, <2>4 DEF Catalog!Next
<1>5. ASSUME NEW n \in 1..MaxLog, Crash(n) PROVE Goal
  <2>1. n \in synced..Len(manifest) /\ manifest' = SubSeq(manifest, 1, n) /\ base' = base
    BY Zenon, <1>5 DEF Crash, LosesMemory
  <2>2. n = Len(manifest)
    BY <1>0, <2>1
  <2>3. manifest' = manifest
    BY <1>0, <2>1, <2>2
  <2> QED BY Zenon, <1>1, <2>1, <2>3
<1>6. ASSUME CrashInLog PROVE Goal
  <2>1. open_pc = "open" /\ base' = base
    BY Zenon, <1>6 DEF CrashInLog, LosesMemory
  <2>2. PICK e \in Logging : manifest' = Append(manifest, Record(e[1], e[2], e[3]))
    BY Zenon, <1>6 DEF CrashInLog
  <2>3. EditOK(e[1], e[2], e[3]) /\ IsOpen
    BY <2>1, LoggingOK DEF IsOpen
  <2>4. LogAfter(manifest', e[1], e[2], e[3])
    BY Zenon, <2>2, <2>3, LogAppend
  <2>5. Catalog!Next
    BY <2>1, <2>3, <2>4, EditImplements
  <2> QED BY Zenon, <2>5
<1>7. ASSUME Recover PROVE Goal
  <2>1. /\ base' = base /\ files' = [cf \in ColumnFamily |-> Recovered(cf)]
        /\ manifest' = <<[add |-> files', del |-> NoFiles, next |-> RecoveredNext]>>
    BY Zenon, <1>7 DEF Recover
  <2>2. Len(manifest') = 1 /\ manifest'[1].add = files' /\ manifest'[1].del = NoFiles
        /\ 1..1 = {1}
    BY <2>1
  <2>3. \A cf \in ColumnFamily : NoFiles[cf] = {}
    BY DEF NoFiles
  <2>4. \A cf \in ColumnFamily : Added(manifest', cf) = files'[cf] /\ Deleted(manifest', cf) = {}
    BY Zenon, <2>2, <2>3 DEF Added, Deleted
  <2>5. \A cf \in ColumnFamily : Durable(manifest', cf) = Recovered(cf)
    BY <2>1, <2>4 DEF Durable
  <2>6. \A cf \in ColumnFamily :
          Recovered(cf) = IF cf \in dropped THEN {} ELSE Durable(manifest, cf)
    <3> SUFFICES ASSUME NEW cf \in ColumnFamily
                 PROVE  Recovered(cf) = IF cf \in dropped THEN {} ELSE Durable(manifest, cf)
      OBVIOUS
    <3>1. CASE base[cf] = "new"
      <4>1. Added(manifest, cf) = {}
        BY Zenon, <3>1 DEF IInv, HandlesOK
      <4> QED BY <3>1, <4>1 DEF Recovered, OpenedCFs, Durable
    <3>2. CASE base[cf] = "live"
      BY <3>2 DEF Recovered, OpenedCFs
    <3>3. CASE base[cf] = "dropped"
      BY <3>3 DEF Recovered, OpenedCFs
    <3> QED BY <1>0, <3>1, <3>2, <3>3
  <2>7. live' = [cf \in ColumnFamily |-> IF cf \in dropped THEN {} ELSE live[cf]]
    BY <2>5, <2>6
  <2>8. Catalog!Forget
    BY Zenon, <2>1, <2>7 DEF Catalog!Forget
  <2> QED BY Zenon, <2>8 DEF Catalog!Next
<1>8. Goal
  <2> HIDE DEF Goal
  <2>1. ASSUME NEW cf \in ColumnFamily, NewFile(cf) \/ DestroyColumnFamilyHandle(cf) PROVE Goal
    BY Zenon, <1>1, <2>1 DEF NewFile, DestroyColumnFamilyHandle
  <2>2. ASSUME NEW f, NEW cf, BatchDeleteFiles(f, cf) \/ PickBlobGC(cf, f) PROVE Goal
    BY Zenon, <1>1, <2>2 DEF BatchDeleteFiles, PickBlobGC
  <2>3. ASSUME DeletePurgedFiles \/ PurgeInactiveFiles \/ RecoverCorruption \/ UNCHANGED vars
        PROVE  Goal
    BY Zenon, <1>1, <2>3 DEF DeletePurgedFiles, PurgeInactiveFiles, RecoverCorruption, vars
  <2>4. ASSUME NEW rem, GetObsoleteFiles(rem) PROVE Goal
    BY Zenon, <1>1, <2>4 DEF GetObsoleteFiles
  <2> QED BY Zenon, <1>2, <1>3, <1>4, <1>5, <1>6, <1>7, <2>1, <2>2, <2>3, <2>4 DEF Next
<1> QED BY Zenon, <1>8

\* When no write of the manifest fails, BlobFileSet implements BlobCatalog: the
\* files of a column family change by whole edits, and neither crashes nor
\* Recover lose or invent one; only dropped column families are forgotten.
THEOREM CatalogRefinement ==
  ASSUME HealthyDisk
  PROVE  Spec => ImplementsCatalog
<1>1. Init => Catalog!Init
  <2> SUFFICES ASSUME Init PROVE Catalog!Init
    OBVIOUS
  <2>1. manifest = <<[add |-> NoFiles, del |-> NoFiles, next |-> 2]>>
        /\ base = [cf \in ColumnFamily |-> IF cf = DefaultCF THEN "live" ELSE "new"]
    BY Zenon DEF Init
  <2>2. Len(manifest) = 1 /\ manifest[1].add = NoFiles /\ 1..1 = {1}
    BY <2>1
  <2>3. \A cf \in ColumnFamily : NoFiles[cf] = {}
    BY DEF NoFiles
  <2>4. \A cf \in ColumnFamily : Added(manifest, cf) = {}
    BY Zenon, <2>2, <2>3 DEF Added
  <2>5. \A cf \in ColumnFamily : Durable(manifest, cf) = {}
    BY <2>4, Zenon DEF Durable
  <2>6. {cf \in ColumnFamily : base[cf] = "dropped"} = {}
    BY <2>1, Zenon
  <2> QED BY <2>5, <2>6 DEF Catalog!Init
<1>2. HealthyInv /\ [Next]_vars =>
        [Catalog!Next]_<<[cf \in ColumnFamily |-> Durable(manifest, cf)],
                         {cf \in ColumnFamily : base[cf] = "dropped"}>>
  BY StepImplements DEF HealthyInv
<1> QED BY <1>1, <1>2, HealthyInvariance, PTL DEF Spec, ImplementsCatalog, Catalog!Spec

=============================================================================
