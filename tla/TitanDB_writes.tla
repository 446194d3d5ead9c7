--------------------------- MODULE TitanDB_writes ---------------------------
(***************************************************************************)
(* The type invariant of TitanDB holds under every fault, and users' writes*)
(* and the flush keep its inductive invariant; what a flush, a GC job and  *)
(* a blob index own.                                                       *)
(***************************************************************************)
EXTENDS TitanDB, TLAPS

-----------------------------------------------------------------------------
(* Types                                                                   *)

\* The events this mode sends keep a file's state a state.
LEMMA TransitType ==
  ASSUME NEW st \in AnyState,
         NEW ev \in {"kFlushCompleted", "kGCCompleted", "kGCBegin", "kGCOutput",
                     "kFlushOrCompactionOutput", "kDbRestart", "kDelete"}
  PROVE  FileStateTransit(st, ev) \in AnyState
BY Zenon
   DEF FileStateTransit, FileStateAssert, AnyState, FileState, kAssertFailed

\* Every variable has its type initially.
LEMMA TypeInit == Init => TypeOK
<1> SUFFICES ASSUME Init PROVE TypeOK
  BY Zenon
<1> USE ConstantsAssumption DEF Init
<1>1. LSMType
  BY DEF LSMType
<1>2. FileType
  <2>1. "none" \in AnyState
    BY Zenon DEF AnyState
  <2> QED
    BY <2>1 DEF FileType
<1>3. PurgeType
  <2>1. kMaxSequenceNumber \in 0..kMaxSequenceNumber
    BY DEF kMaxSequenceNumber
  <2>2. bg_error \in BOOLEAN
    BY Zenon
  <2> QED
    BY Zenon, <2>1, <2>2 DEF PurgeType
<1>4. FlushType
  BY DEF FlushType, NoFile
<1>5. GCType
  BY DEF GCType, NoFile
<1> QED
  BY Zenon, <1>1, <1>2, <1>3, <1>4, <1>5 DEF TypeOK

\* Types that refer to last_sequence survive its growth.
LEMMA TypeGrow ==
  ASSUME TypeOK, last_sequence' \in 0..MaxSeq, last_sequence <= last_sequence'
  PROVE  /\ UNCHANGED fileVars => FileType'
         /\ UNCHANGED <<bg_error, snapshot, purgeVars>> => PurgeType'
         /\ UNCHANGED flushVars => FlushType'
         /\ UNCHANGED gcVars => GCType'
<1> USE ConstantsAssumption
<1>1. last_sequence \in 0..MaxSeq
  BY DEF TypeOK, LSMType
<1>2. 0..last_sequence \subseteq 0..last_sequence'
  BY <1>1
<1>3. UNCHANGED fileVars => FileType'
  BY Zenon, <1>2 DEF TypeOK, FileType, fileVars
<1>4. UNCHANGED <<bg_error, snapshot, purgeVars>> => PurgeType'
  BY Zenon, <1>2 DEF TypeOK, PurgeType, purgeVars
<1>5. UNCHANGED flushVars => FlushType'
  BY <1>1 DEF TypeOK, FlushType, flushVars
<1>6. UNCHANGED gcVars => GCType'
  BY Zenon, <1>2 DEF TypeOK, GCType, gcVars
<1> QED
  BY Zenon, <1>3, <1>4, <1>5, <1>6

\* A component whose variables a step leaves alone keeps its type.
LEMMA TypeKept ==
  ASSUME TypeOK, UNCHANGED last_sequence
  PROVE  /\ UNCHANGED lsmVars => LSMType'
         /\ UNCHANGED fileVars => FileType'
         /\ UNCHANGED <<bg_error, snapshot, purgeVars>> => PurgeType'
         /\ UNCHANGED flushVars => FlushType'
         /\ UNCHANGED gcVars => GCType'
<1>1. UNCHANGED lsmVars => LSMType'
  BY DEF TypeOK, LSMType, lsmVars
<1>2. UNCHANGED fileVars => FileType'
  BY Zenon DEF TypeOK, FileType, fileVars
<1>3. UNCHANGED <<bg_error, snapshot, purgeVars>> => PurgeType'
  BY Zenon DEF TypeOK, PurgeType, purgeVars
<1>4. UNCHANGED flushVars => FlushType'
  BY Zenon DEF TypeOK, FlushType, flushVars
<1>5. UNCHANGED gcVars => GCType'
  BY Zenon DEF TypeOK, GCType, gcVars
<1> QED
  BY Zenon, <1>1, <1>2, <1>3, <1>4, <1>5

\* A write of the base DB keeps the types of the base DB's variables.
LEMMA WriteLSMType ==
  ASSUME TypeOK, NEW v \in Version, WriteLSM(v)
  PROVE  /\ LSMType'
         /\ last_sequence' \in 0..MaxSeq
         /\ last_sequence <= last_sequence'
<1> USE ConstantsAssumption
<1>1. /\ last_sequence' \in 0..MaxSeq
      /\ last_sequence' = last_sequence + 1
      /\ last_sequence \in 0..MaxSeq
  BY DEF TypeOK, LSMType, WriteLSM
<1>2. lsm' \in [SeqNo -> Version \cup {NoVersion}]
  BY Zenon DEF TypeOK, LSMType, WriteLSM
<1>3. \A t \in 1..last_sequence' : lsm'[t] \in Version
  BY <1>1 DEF TypeOK, LSMType, WriteLSM, SeqNo
<1>4. flushed' \in 0..last_sequence'
  BY <1>1 DEF TypeOK, LSMType, WriteLSM
<1> QED
  BY <1>1, <1>2, <1>3, <1>4 DEF LSMType

\* User operations keep the types.
LEMMA TypeUser == TypeOK /\ User => TypeOK'
<1> SUFFICES ASSUME TypeOK, User PROVE TypeOK'
  BY Zenon
<1> USE ConstantsAssumption
<1>1. ASSUME NEW k \in Key, Put(k) PROVE TypeOK'
  <2>1. last_sequence < MaxSeq /\ last_sequence \in 0..MaxSeq
    BY <1>1 DEF Put, WriteLSM, TypeOK, LSMType
  <2>2. [key |-> k, file |-> InLSM, orig |-> last_sequence + 1] \in Version
    BY <2>1 DEF Version, InLSM
  <2> QED
    BY <1>1, <2>2, WriteLSMType, TypeGrow DEF Put, TypeOK
<1>2. ASSUME NEW k \in Key, Delete(k) PROVE TypeOK'
  <2>1. [key |-> k, file |-> InLSM, orig |-> Deleted] \in Version
    BY DEF Version, InLSM, Deleted
  <2> QED
    BY <1>2, <2>1, WriteLSMType, TypeGrow DEF Delete, TypeOK
<1>3. ASSUME NEW r \in Reader, GetSnapshot(r) \/ ReleaseSnapshot(r)
      PROVE  TypeOK'
  <2>1. last_sequence \in 0..last_sequence
    BY DEF TypeOK, LSMType
  <2>2. PurgeType'
    BY Zenon, <1>3, <2>1
       DEF GetSnapshot, ReleaseSnapshot, TypeOK, PurgeType, lsmVars,
                      purgeVars
  <2> QED
    BY Zenon, <1>3, <2>2, TypeKept
       DEF GetSnapshot, ReleaseSnapshot, TypeOK, lsmVars
<1> QED
  BY Zenon, <1>1, <1>2, <1>3 DEF User
\* The steps of the flush job keep the types.
LEMMA TypeFlush == TypeOK /\ Flush => TypeOK'
<1> SUFFICES ASSUME TypeOK, Flush PROVE TypeOK'
  BY Zenon
<1> USE ConstantsAssumption
<1>1. CASE FlushBuild
  <2> DEFINE kept == {t \in (flushed + 1)..last_sequence :
                        lsm[t].orig # Deleted /\ Needed(t)}
  <2>1. kept \subseteq 1..last_sequence
    BY DEF TypeOK, LSMType
  <2>2. \A t \in Values(kept) : <<lsm[t].key, lsm[t].orig>> \in Record
    BY <2>1 DEF Values, TypeOK, LSMType, Record, Version, Deleted, SeqNo
  <2>3. /\ flush_file' \in 0..MaxFile
        /\ FileType'
    <3>1. CASE Values(kept) = {}
      <4>1. flush_file' = NoFile /\ UNCHANGED <<state, recs, next_file_number>>
        BY Zenon, <1>1, <3>1 DEF FlushBuild
      <4>2. UNCHANGED fileVars /\ UNCHANGED last_sequence
        BY Zenon, <1>1, <4>1 DEF FlushBuild, lsmVars, fileVars
      <4>3. FileType'
        BY Zenon, <4>2, TypeKept
      <4>4. flush_file' \in 0..MaxFile
        BY <4>1 DEF NoFile
      <4> QED
        BY Zenon, <4>3, <4>4
    <3>2. CASE Values(kept) # {}
      <4>1. PICK f \in File :
              /\ NewFile(f)
              /\ flush_file' = f
              /\ state' = [state EXCEPT ![f] = "kInit"]
              /\ recs' = [recs EXCEPT ![f] =
                   {<<lsm[t].key, lsm[t].orig>> : t \in Values(kept)}]
        BY Zenon, <1>1, <3>2 DEF FlushBuild
      <4>2. {<<lsm[t].key, lsm[t].orig>> : t \in Values(kept)} \in SUBSET Record
        BY Zenon, <2>2
      <4>3. "kInit" \in AnyState
        BY Zenon DEF AnyState, FileState
      <4>4. state' \in [File -> AnyState] /\ recs' \in [File -> SUBSET Record]
        BY Zenon, <4>1, <4>2, <4>3 DEF TypeOK, FileType
      <4>5. /\ next_file_number' \in 2..(MaxFile + 1)
            /\ logged' \in 2..next_file_number'
        BY <1>1, <4>1 DEF NewFile, File, TypeOK, FileType, FlushBuild
      <4>6. UNCHANGED <<last_sequence, obsolete_sequence>>
        BY Zenon, <1>1 DEF FlushBuild, lsmVars
      <4>7. FileType'
        BY Zenon, <4>4, <4>5, <4>6 DEF TypeOK, FileType
      <4> QED
        BY <4>1, <4>7 DEF File
    <3> QED
      BY Zenon, <3>1, <3>2
  <2>4. FlushType'
    BY <1>1, <2>1, <2>3 DEF FlushBuild, TypeOK, FlushType, LSMType, lsmVars
  <2> QED
    BY Zenon, <1>1, <2>3, <2>4, TypeKept DEF FlushBuild, TypeOK, lsmVars
<1>2. CASE FlushFinish
  <2>1. state' \in [File -> AnyState]
    BY Zenon, <1>2, TransitType DEF FlushFinish, TypeOK, FileType
  <2>2. FileType'
    BY <1>2, <2>1 DEF FlushFinish, TypeOK, FileType, lsmVars
  <2>3. FlushType'
    BY Zenon, <1>2 DEF FlushFinish, TypeOK, FlushType, lsmVars
  <2> QED
    BY Zenon, <1>2, <2>2, <2>3, TypeKept DEF FlushFinish, TypeOK, lsmVars
<1>3. CASE FlushFinishFails \/ FlushInstallFails
  <2>1. FlushType'
    BY <1>3 DEF FlushFinishFails, FlushInstallFails, TypeOK, FlushType, LSMType,
                NoFile, lsmVars
  <2>2. PurgeType'
    BY Zenon, <1>3
       DEF FlushFinishFails, FlushInstallFails, TypeOK, PurgeType, purgeVars,
                lsmVars
  <2> QED
    BY Zenon, <1>3, <2>1, <2>2, TypeKept
       DEF FlushFinishFails, FlushInstallFails, TypeOK, lsmVars
<1>4. CASE FlushInstall
  <2>1. \A t \in 1..last_sequence : [lsm[t] EXCEPT !.file = flush_file] \in Version
    BY DEF TypeOK, LSMType, FlushType, Version
  <2>2. \A t \in Values(flush_kept) : t \in 1..last_sequence
    BY Zenon DEF TypeOK, FlushType, Values
  <2>3. lsm' \in [SeqNo -> Version \cup {NoVersion}]
    BY <1>4, <2>1, <2>2 DEF FlushInstall, TypeOK, LSMType
  <2>4. \A t \in 1..last_sequence : lsm'[t] \in Version
    BY <1>4, <2>1, <2>2 DEF FlushInstall, TypeOK, LSMType, SeqNo
  <2>5. LSMType'
    BY Zenon, <1>4, <2>3, <2>4 DEF FlushInstall, TypeOK, LSMType, FlushType
  <2>6. FlushType'
    BY Zenon, <1>4 DEF FlushInstall, TypeOK, FlushType
  <2> QED
    BY Zenon, <1>4, <2>5, <2>6, TypeKept DEF FlushInstall, TypeOK
<1>5. CASE OnFlushCompleted
  <2>1. state' \in [File -> AnyState]
    BY Zenon, <1>5, TransitType DEF OnFlushCompleted, TypeOK, FileType
  <2>2. FileType'
    BY Zenon, <1>5, <2>1 DEF OnFlushCompleted, TypeOK, FileType, lsmVars
  <2>3. FlushType'
    BY <1>5 DEF OnFlushCompleted, TypeOK, FlushType, LSMType, NoFile, lsmVars
  <2> QED
    BY Zenon, <1>5, <2>2, <2>3, TypeKept DEF OnFlushCompleted, TypeOK, lsmVars
<1> QED
  BY Zenon, <1>1, <1>2, <1>3, <1>4, <1>5 DEF Flush

\* Files of a job take an event and the job is reset: types are kept.
LEMMA TypeRelease ==
  ASSUME TypeOK, NEW j \in Job, NEW st \in [File -> AnyState],
         ReleaseGcFiles(j, st), UNCHANGED last_sequence
  PROVE  state' \in [File -> AnyState] /\ GCType'
<1>1. state' \in [File -> AnyState]
  <2>1. \A f \in File : FileStateTransit(st[f], "kGCCompleted") \in AnyState
    BY Zenon, TransitType
  <2> QED
    BY Zenon, <2>1 DEF ReleaseGcFiles
<1>2. GCType'
  BY ConstantsAssumption DEF ReleaseGcFiles, TypeOK, GCType, LSMType, NoFile
<1> QED
  BY Zenon, <1>1, <1>2

\* The steps of a GC job keep the types.
LEMMA TypeGC == ASSUME NEW j \in Job PROVE TypeOK /\ BackgroundGC(j) => TypeOK'
<1> SUFFICES ASSUME TypeOK, BackgroundGC(j) PROVE TypeOK'
  BY Zenon
<1> USE ConstantsAssumption
<1>1. ASSUME NEW fs \in SUBSET File, PickBlobGC(j, fs) PROVE TypeOK'
  <2>1. state' \in [File -> AnyState]
    BY Zenon, <1>1, TransitType DEF PickBlobGC, TypeOK, FileType
  <2>2. FileType'
    BY Zenon, <1>1, <2>1 DEF PickBlobGC, TypeOK, FileType, lsmVars
  <2>3. {e \in File \X Record : e[1] \in fs /\ e[2] \in recs[e[1]]}
          \in SUBSET (File \X Record)
    BY Zenon
  <2>4. GCType'
    BY Zenon, <1>1, <2>3 DEF PickBlobGC, TypeOK, GCType, lsmVars
  <2> QED
    BY Zenon, <1>1, <2>2, <2>4, TypeKept DEF PickBlobGC, TypeOK, lsmVars
<1>2. CASE RunGCDiscard(j)
  <2>1. GCType'
    BY <1>2 DEF RunGCDiscard, TypeOK, GCType, lsmVars
  <2> QED
    BY Zenon, <1>2, <2>1, TypeKept DEF RunGCDiscard, TypeOK, lsmVars
<1>3. CASE RunGCRewrite(j)
  <2>1. PICK e \in todo[j], f \in File :
          /\ \/ output[j] = NoFile /\ NewFile(f)
             \/ output[j] = f /\ UNCHANGED next_file_number
          /\ output' = [output EXCEPT ![j] = f]
          /\ state' = [state EXCEPT ![f] = "kInit"]
          /\ recs' = [recs EXCEPT ![f] = @ \cup {e[2]}]
          /\ rewrite_batches' = [rewrite_batches EXCEPT ![j] = @ \cup {e}]
          /\ todo' = [todo EXCEPT ![j] = @ \ {e}]
    BY Zenon, <1>3 DEF RunGCRewrite
  <2>2. e \in File \X Record /\ e[2] \in Record
    BY DEF TypeOK, GCType
  <2>3. "kInit" \in AnyState
    BY Zenon DEF AnyState, FileState
  <2>4. state' \in [File -> AnyState] /\ recs' \in [File -> SUBSET Record]
    BY Zenon, <2>1, <2>2, <2>3 DEF TypeOK, FileType
  <2>5. /\ next_file_number' \in 2..(MaxFile + 1)
        /\ logged' \in 2..next_file_number'
    <3>1. \/ next_file_number' = next_file_number
          \/ next_file_number \in File /\ next_file_number' = next_file_number + 1
      BY Zenon, <2>1 DEF NewFile
    <3>2. logged' = logged
      BY Zenon, <1>3 DEF RunGCRewrite
    <3>3. next_file_number \in 2..(MaxFile + 1) /\ logged \in 2..next_file_number
      BY Zenon DEF TypeOK, FileType
    <3> QED
      BY <3>1, <3>2, <3>3 DEF File
  <2>6. FileType'
    BY Zenon, <1>3, <2>4, <2>5 DEF RunGCRewrite, TypeOK, FileType, lsmVars
  <2>7. GCType'
    BY <1>3, <2>1, <2>2 DEF RunGCRewrite, TypeOK, GCType, File, lsmVars
  <2> QED
    BY Zenon, <1>3, <2>6, <2>7, TypeKept DEF RunGCRewrite, TypeOK, lsmVars
<1>4. CASE InstallOutputBlobFiles(j)
  <2>1. state' \in [File -> AnyState]
    BY Zenon, <1>4, TransitType DEF InstallOutputBlobFiles, TypeOK, FileType
  <2>2. FileType'
    BY <1>4, <2>1 DEF InstallOutputBlobFiles, TypeOK, FileType, lsmVars
  <2>3. GCType'
    BY Zenon, <1>4 DEF InstallOutputBlobFiles, TypeOK, GCType, lsmVars
  <2> QED
    BY Zenon, <1>4, <2>2, <2>3, TypeKept
       DEF InstallOutputBlobFiles, TypeOK, lsmVars
<1>5. CASE InstallOutputBuilderFails(j)
  <2>1. "none" \in AnyState
    BY Zenon DEF AnyState
  <2>2. FileType'
    BY Zenon, <1>5, <2>1
       DEF InstallOutputBuilderFails, TypeOK, FileType, lsmVars
  <2>3. GCType'
    BY Zenon, <1>5 DEF InstallOutputBuilderFails, TypeOK, GCType, lsmVars
  <2> QED
    BY Zenon, <1>5, <2>2, <2>3, TypeKept
       DEF InstallOutputBuilderFails, TypeOK, lsmVars
<1>6. CASE RewriteValidKeyToLSM(j)
  <2>1. PICK e \in rewrite_batches[j] :
          /\ WriteLSM([key |-> e[2][1], file |-> output[j], orig |-> e[2][2]])
          /\ rewrite_batches' = [rewrite_batches EXCEPT ![j] = @ \ {e}]
    BY Zenon, <1>6 DEF RewriteValidKeyToLSM
  <2>2. e[2][1] \in Key /\ e[2][2] \in 0..MaxSeq /\ output[j] \in 0..MaxFile
    BY DEF TypeOK, GCType, Record, SeqNo
  <2>3. [key |-> e[2][1], file |-> output[j], orig |-> e[2][2]] \in Version
    BY Zenon, <2>2 DEF Version
  <2>4. LSMType' /\ last_sequence' \in 0..MaxSeq /\ last_sequence <= last_sequence'
    BY <2>1, <2>3, WriteLSMType
  <2>5. last_sequence \in 0..MaxSeq
    BY DEF TypeOK, LSMType
  <2>6. GCType'
    BY <1>6, <2>1, <2>4, <2>5 DEF RewriteValidKeyToLSM, TypeOK, GCType
  <2> QED
    BY Zenon, <1>6, <2>4, <2>6, TypeGrow DEF RewriteValidKeyToLSM, TypeOK
<1>7. CASE ReadObsoleteSequence(j)
  <2>1. GCType'
    BY <1>7 DEF ReadObsoleteSequence, TypeOK, GCType, LSMType, lsmVars
  <2> QED
    BY Zenon, <1>7, <2>1, TypeKept DEF ReadObsoleteSequence, TypeOK, lsmVars
<1>8. CASE DeleteInputBlobFiles(j)
  <2> DEFINE st == [f \in File |-> IF f \in inputs[j]
                                   THEN FileStateTransit(state[f], "kDelete")
                                   ELSE state[f]]
  <2>1. st \in [File -> AnyState]
    BY Zenon, TransitType DEF TypeOK, FileType
  <2>2. ReleaseGcFiles(j, st) /\ UNCHANGED last_sequence
    BY Zenon, <1>8 DEF DeleteInputBlobFiles, lsmVars
  <2> HIDE DEF st
  <2>3. state' \in [File -> AnyState] /\ GCType'
    BY Zenon, <2>1, <2>2, TypeRelease
  <2>4. obsolete_sequence' \in [File -> 0..last_sequence]
    BY Zenon, <1>8 DEF DeleteInputBlobFiles, TypeOK, FileType, GCType
  <2>5. FileType'
    BY <1>8, <2>3, <2>4 DEF DeleteInputBlobFiles, TypeOK, FileType, lsmVars
  <2> QED
    BY Zenon, <1>8, <2>3, <2>5, TypeKept
       DEF DeleteInputBlobFiles, TypeOK, lsmVars
<1>9. CASE GCFails(j)
  <2>1. state' \in [File -> AnyState] /\ GCType'
    BY Zenon, <1>9, TypeRelease DEF GCFails, TypeOK, FileType, lsmVars
  <2>2. FileType'
    BY Zenon, <1>9, <2>1 DEF GCFails, TypeOK, FileType, lsmVars
  <2>3. PurgeType'
    BY Zenon, <1>9 DEF GCFails, TypeOK, PurgeType, purgeVars, lsmVars
  <2> QED
    BY Zenon, <1>9, <2>1, <2>2, <2>3, TypeKept DEF GCFails, TypeOK, lsmVars
<1> QED
  BY Zenon, <1>1, <1>2, <1>3, <1>4, <1>5, <1>6, <1>7, <1>8, <1>9
     DEF BackgroundGC

\* The purge keeps the types.
LEMMA TypePurge ==
  TypeOK /\ (GetOldestSnapshotSequence \/ GetObsoleteFiles) => TypeOK'
<1> USE ConstantsAssumption
<1>1. ASSUME TypeOK, GetOldestSnapshotSequence PROVE TypeOK'
  <2>1. PICK o \in {snapshot[r] : r \in Reader} \cup {kMaxSequenceNumber} :
          oldest_sequence' = o
    BY Zenon, <1>1 DEF GetOldestSnapshotSequence
  <2>2. kMaxSequenceNumber \in 0..kMaxSequenceNumber
    BY DEF kMaxSequenceNumber
  <2>3. o \in 0..kMaxSequenceNumber
    BY <1>1, <2>2 DEF TypeOK, PurgeType, LSMType, kMaxSequenceNumber
  <2>4. PurgeType'
    BY Zenon, <1>1, <2>1, <2>3
       DEF GetOldestSnapshotSequence, TypeOK, PurgeType, lsmVars
  <2> QED
    BY Zenon, <1>1, <2>4, TypeKept
       DEF GetOldestSnapshotSequence, TypeOK, lsmVars
<1>2. ASSUME TypeOK, GetObsoleteFiles PROVE TypeOK'
  <2>1. kMaxSequenceNumber \in 0..kMaxSequenceNumber
    BY DEF kMaxSequenceNumber
  <2>2. PurgeType'
    BY Zenon, <1>2, <2>1 DEF GetObsoleteFiles, TypeOK, PurgeType, lsmVars
  <2>3. "none" \in AnyState /\ last_sequence \in Nat
    BY <1>2 DEF AnyState, TypeOK, LSMType
  <2>4. FileType'
    BY <1>2, <2>3 DEF GetObsoleteFiles, TypeOK, FileType, lsmVars
  <2> QED
    BY Zenon, <1>2, <2>2, <2>4, TypeKept DEF GetObsoleteFiles, TypeOK, lsmVars
<1> QED
  BY Zenon, <1>1, <1>2

\* Recovery brings every variable back in its type.
LEMMA TypeRestart ==
  ASSUME NEW n \in 0..MaxSeq PROVE TypeOK /\ Restart(n) => TypeOK'
<1> SUFFICES ASSUME TypeOK, Restart(n) PROVE TypeOK'
  BY Zenon
<1> USE ConstantsAssumption
<1>1. n \in flushed..last_sequence
  BY DEF Restart, TypeOK, LSMType
<1>2. LSMType'
  <2>1. lsm' \in [SeqNo -> Version \cup {NoVersion}]
    BY DEF Restart, TypeOK, LSMType
  <2>2. \A t \in 1..n : lsm'[t] \in Version
    BY <1>1 DEF Restart, TypeOK, LSMType, SeqNo
  <2> QED
    BY <1>1, <2>1, <2>2 DEF Restart, TypeOK, LSMType
<1>3. FileType'
  <2>1. "none" \in AnyState /\ FileStateTransit("kInit", "kDbRestart") \in AnyState
    BY Zenon, TransitType DEF AnyState, FileState
  <2>2. state' \in [File -> AnyState] /\ recs' \in [File -> SUBSET Record]
    BY Zenon, <2>1 DEF Restart, TypeOK, FileType
  <2>3. obsolete_sequence' \in [File -> 0..last_sequence']
    BY DEF Restart
  <2>4. next_file_number' \in 2..(MaxFile + 1) /\ logged' \in 2..next_file_number'
    BY DEF Restart, TypeOK, FileType
  <2> QED
    BY Zenon, <2>2, <2>3, <2>4 DEF FileType
<1>4. PurgeType'
  <2>1. kMaxSequenceNumber \in 0..kMaxSequenceNumber
    BY DEF kMaxSequenceNumber
  <2> QED
    BY Zenon, <2>1 DEF Restart, PurgeType
<1>5. FlushType'
  BY DEF Restart, FlushType, NoFile
<1>6. GCType'
  BY DEF Restart, GCType, NoFile
<1> QED
  BY Zenon, <1>2, <1>3, <1>4, <1>5, <1>6 DEF TypeOK

\* Every step keeps the types.
LEMMA TypeStep == TypeOK /\ [Next]_vars => TypeOK'
<1> SUFFICES ASSUME TypeOK, [Next]_vars PROVE TypeOK'
  BY Zenon
<1>1. CASE UNCHANGED vars
  <2>1. /\ UNCHANGED lsmVars /\ UNCHANGED fileVars /\ UNCHANGED flushVars
        /\ UNCHANGED gcVars /\ UNCHANGED <<bg_error, snapshot, purgeVars>>
    BY Zenon, <1>1 DEF vars
  <2> QED
    BY Zenon, <2>1, TypeKept DEF TypeOK, lsmVars
<1> QED
  BY Zenon, <1>1, TypeUser, TypeFlush, TypeGC, TypePurge, TypeRestart DEF Next

\* Every variable of the model has its type in every reachable state, whatever
\* faults the environment injects.
THEOREM TypeCorrect == Spec => []TypeOK
BY TypeInit, TypeStep, PTL DEF Spec

-----------------------------------------------------------------------------
(* Writes and the flush                                                    *)

\* The transitions this mode takes from the states they are taken in.
LEMMA Transits ==
  /\ FileStateTransit("kInit", "kFlushOrCompactionOutput") = "kPendingLSM"
  /\ FileStateTransit("kInit", "kGCOutput") = "kPendingGC"
  /\ FileStateTransit("kInit", "kDbRestart") = "kNormal"
  /\ FileStateTransit("kNormal", "kGCBegin") = "kBeingGC"
  /\ FileStateTransit("kBeingGC", "kDelete") = "kObsolete"
  /\ FileStateTransit("kObsolete", "kGCCompleted") = "kObsolete"
  /\ FileStateTransit("kBeingGC", "kGCCompleted") = "kNormal"
  /\ FileStateTransit("kPendingGC", "kGCCompleted") = "kNormal"
  /\ FileStateTransit("kPendingLSM", "kFlushCompleted") = "kNormal"
  /\ \A st \in {"kPendingGC", "kNormal", "kBeingGC", "kObsolete"} :
       FileStateTransit(st, "kFlushCompleted") = st
BY Zenon DEF FileStateTransit, FileStateAssert, kAssertFailed

\* The invariant holds initially.
LEMMA InvInit == Init => IInv
<1> SUFFICES ASSUME Init PROVE IInv
  BY Zenon
<1>1. TypeOK
  BY Zenon, TypeInit
<1>2. FilesOK
  BY Zenon DEF Init, FilesOK, InStorage
<1>3. IndexesOK
  BY DEF Init, IndexesOK
<1>4. FlushOK
  BY Zenon DEF Init, FlushOK
<1>5. ASSUME NEW j \in Job PROVE JobOK(j)
  BY DEF Init, JobOK
<1>6. JobsDisjoint
  BY Zenon DEF Init, JobsDisjoint
<1> QED
  BY Zenon, <1>1, <1>2, <1>3, <1>4, <1>5, <1>6 DEF IInv

\* A step that touches neither the base DB, nor files, nor jobs keeps it.
LEMMA InvKept ==
  ASSUME IInv, TypeOK', UNCHANGED <<lsmVars, fileVars, flushVars, gcVars>>
  PROVE  IInv'
<1> USE DEF lsmVars, fileVars, flushVars, gcVars
<1>1. FilesOK'
  BY Zenon DEF IInv, FilesOK, InStorage
<1>2. IndexesOK'
  BY Zenon DEF IInv, IndexesOK, InStorage, Rec, Shadowed
<1>3. FlushOK'
  BY Zenon DEF IInv, FlushOK, Values, Rec
<1>4. ASSUME NEW j \in Job PROVE JobOK(j)'
  <2>1. JobOK(j)
    BY Zenon DEF IInv
  <2> QED
    BY Zenon, <2>1 DEF JobOK, Rec, Shadowed
<1>5. JobsDisjoint'
  BY Zenon DEF IInv, JobsDisjoint
<1> QED
  BY Zenon, <1>1, <1>2, <1>3, <1>4, <1>5 DEF IInv

\* What a write of the base DB leaves as it was.
LEMMA WriteFacts ==
  ASSUME TypeOK, NEW v \in Version, WriteLSM(v)
  PROVE  /\ last_sequence \in Nat
         /\ last_sequence' = last_sequence + 1
         /\ \A t \in 1..last_sequence : lsm'[t] = lsm[t]
         /\ lsm'[last_sequence'] = v
         /\ \A t \in 1..last_sequence' : t \in 1..last_sequence \/ t = last_sequence'
BY ConstantsAssumption DEF TypeOK, LSMType, WriteLSM, SeqNo

\* A write of a version that needs no file, or whose record is in a file that
\* GC or flush still owns, keeps what is said of blob indexes.
LEMMA WriteIndexes ==
  ASSUME IInv, NEW v \in Version, WriteLSM(v), UNCHANGED fileVars,
         v.file # InLSM => /\ v.file < logged
                           /\ state[v.file] \in {"kPendingGC", "kPendingLSM"}
                           /\ <<v.key, v.orig>> \in recs[v.file]
  PROVE  IndexesOK'
<1> SUFFICES ASSUME NEW t \in 1..last_sequence', lsm'[t].file # InLSM
             PROVE  LET f == lsm'[t].file IN
                    /\ f < logged
                    /\ state[f] # "kInit"
                    /\ InStorage(f) => <<lsm'[t].key, lsm'[t].orig>> \in recs[f]
                    /\ state[f] = "kObsolete" =>
                         \E u \in (t + 1)..obsolete_sequence[f] :
                            lsm'[u].key = lsm'[t].key
                    /\ state[f] = "none" =>
                         \E u \in (t + 1)..last_sequence' :
                            lsm'[u].key = lsm'[t].key
  BY Zenon DEF IndexesOK, InStorage, Rec, Shadowed, fileVars
<1>1. /\ last_sequence \in Nat
      /\ last_sequence' = last_sequence + 1
      /\ \A u \in 1..last_sequence : lsm'[u] = lsm[u]
      /\ lsm'[last_sequence'] = v
      /\ t \in 1..last_sequence \/ t = last_sequence'
  BY Zenon, WriteFacts DEF IInv
<1>2. CASE t = last_sequence'
  BY Zenon, <1>1, <1>2
<1>3. CASE t \in 1..last_sequence
  <2> DEFINE f == lsm[t].file
  <2>1. f # InLSM /\ lsm'[t] = lsm[t] /\ f \in File
    BY <1>1, <1>3, ConstantsAssumption
       DEF IInv, TypeOK, LSMType, Version, InLSM, File
  <2>2. /\ f < logged
        /\ state[f] # "kInit"
        /\ InStorage(f) => <<lsm[t].key, lsm[t].orig>> \in recs[f]
        /\ state[f] = "kObsolete" =>
             \E u \in (t + 1)..obsolete_sequence[f] : lsm[u].key = lsm[t].key
        /\ state[f] = "none" =>
             \E u \in (t + 1)..last_sequence : lsm[u].key = lsm[t].key
    BY Zenon, <1>3, <2>1 DEF IInv, IndexesOK, Rec, Shadowed
  <2>3. obsolete_sequence[f] \in 0..last_sequence
    BY Zenon, <2>1 DEF IInv, TypeOK, FileType
  <2> HIDE DEF f
  <2>4. \A u \in (t + 1)..last_sequence : u \in 1..last_sequence /\ u \in (t + 1)..last_sequence'
    BY <1>1, <1>3
  <2>5. \A u \in (t + 1)..obsolete_sequence[f] : u \in 1..last_sequence
    BY <1>1, <1>3, <2>3
  <2> QED
    BY Zenon, <1>1, <1>3, <2>1, <2>2, <2>4, <2>5 DEF f
<1> QED
  BY Zenon, <1>1, <1>2, <1>3

\* A write keeps what is said of the flush job.
LEMMA WriteFlush ==
  ASSUME IInv, NEW v \in Version, WriteLSM(v), UNCHANGED fileVars,
         UNCHANGED flushVars
  PROVE  FlushOK'
<1>1. \A t \in flush_kept : lsm'[t] = lsm[t]
  BY Zenon, WriteFacts DEF IInv, TypeOK, FlushType
<1>2. UNCHANGED flushed
  BY Zenon DEF WriteLSM
<1> QED
  BY Zenon, <1>1, <1>2 DEF IInv, FlushOK, Values, Rec, fileVars, flushVars

\* A write keeps what is said of a GC job that does not take part in it.
LEMMA WriteJob ==
  ASSUME IInv, NEW v \in Version, WriteLSM(v), UNCHANGED fileVars,
         UNCHANGED flush_file, NEW j \in Job, v.file \notin inputs[j],
         UNCHANGED <<gc_pc[j], inputs[j], todo[j], rewrite_batches[j], output[j],
                     gc_obsolete[j]>>
  PROVE  JobOK(j)'
<1>1. /\ last_sequence \in Nat
      /\ last_sequence' = last_sequence + 1
      /\ \A u \in 1..last_sequence : lsm'[u] = lsm[u]
      /\ lsm'[last_sequence'] = v
      /\ \A t \in 1..last_sequence' : t \in 1..last_sequence \/ t = last_sequence'
      /\ gc_obsolete[j] \in 0..last_sequence
  BY Zenon, WriteFacts DEF IInv, TypeOK, GCType
<1>2. ASSUME NEW t \in 1..last_sequence', lsm'[t].file \in inputs[j]
      PROVE  IF gc_pc[j] = "delete"
             THEN \E u \in (t + 1)..gc_obsolete[j] : lsm'[u].key = lsm'[t].key
             ELSE \/ <<lsm'[t].file, <<lsm'[t].key, lsm'[t].orig>> >>
                       \in todo[j] \cup rewrite_batches[j]
                  \/ \E u \in (t + 1)..last_sequence' : lsm'[u].key = lsm'[t].key
  <2>1. t \in 1..last_sequence /\ lsm'[t] = lsm[t]
    BY Zenon, <1>1, <1>2
  <2>2. IF gc_pc[j] = "delete"
        THEN \E u \in (t + 1)..gc_obsolete[j] : lsm[u].key = lsm[t].key
        ELSE \/ <<lsm[t].file, <<lsm[t].key, lsm[t].orig>> >>
                  \in todo[j] \cup rewrite_batches[j]
             \/ \E u \in (t + 1)..last_sequence : lsm[u].key = lsm[t].key
    <3>1. JobOK(j) /\ lsm[t].file \in inputs[j]
      BY Zenon, <1>2, <2>1 DEF IInv
    <3> QED
      BY Zenon, <2>1, <3>1 DEF JobOK, Rec, Shadowed
  <2> QED
    BY <1>1, <2>1, <2>2
<1>3. JobOK(j)
  BY Zenon DEF IInv
<1>4. UNCHANGED <<state, recs, flush_file, gc_pc[j], inputs[j], todo[j], rewrite_batches[j],
                  output[j], gc_obsolete[j]>>
  BY Zenon DEF fileVars
<1> QED
  BY Zenon, <1>2, <1>3, <1>4 DEF JobOK, Rec, Shadowed

\* User operations keep the invariant.
LEMMA InvUser == IInv /\ User => IInv'
<1> SUFFICES ASSUME IInv, User PROVE IInv'
  BY Zenon
<1>1. TypeOK'
  BY Zenon, TypeUser DEF IInv
<1>2. ASSUME NEW v \in Version, v.file = InLSM, WriteLSM(v),
             UNCHANGED <<fileVars, flushVars, gcVars>>
      PROVE  IInv'
  <2>1. FilesOK'
    BY Zenon, <1>2 DEF IInv, FilesOK, InStorage, fileVars
  <2>2. IndexesOK'
    BY Zenon, <1>2, WriteIndexes
  <2>3. FlushOK'
    BY Zenon, <1>2, WriteFlush
  <2>4. ASSUME NEW j \in Job PROVE JobOK(j)'
    <3>1. v.file \notin inputs[j]
      BY <1>2, ConstantsAssumption DEF IInv, TypeOK, GCType, File, InLSM
    <3> QED
      BY Zenon, <1>2, <3>1, WriteJob DEF flushVars, gcVars
  <2>5. JobsDisjoint'
    BY Zenon, <1>2 DEF IInv, JobsDisjoint, gcVars
  <2> QED
    BY Zenon, <1>1, <2>1, <2>2, <2>3, <2>4, <2>5 DEF IInv
<1>3. ASSUME NEW k \in Key, Put(k) PROVE IInv'
  <2> DEFINE v == [key |-> k, file |-> InLSM, orig |-> last_sequence + 1]
  <2>1. last_sequence + 1 \in 0..MaxSeq
    BY <1>3, ConstantsAssumption DEF Put, WriteLSM, IInv, TypeOK, LSMType
  <2>2. v \in Version /\ v.file = InLSM
    BY <2>1, ConstantsAssumption DEF Version, InLSM
  <2>3. WriteLSM(v) /\ UNCHANGED <<fileVars, flushVars, gcVars>>
    BY Zenon, <1>3 DEF Put
  <2> HIDE DEF v
  <2> QED
    BY Zenon, <1>2, <2>2, <2>3
<1>4. ASSUME NEW k \in Key, Delete(k) PROVE IInv'
  <2> DEFINE v == [key |-> k, file |-> InLSM, orig |-> Deleted]
  <2>1. v \in Version /\ v.file = InLSM
    BY ConstantsAssumption DEF Version, InLSM, Deleted
  <2>2. WriteLSM(v) /\ UNCHANGED <<fileVars, flushVars, gcVars>>
    BY Zenon, <1>4 DEF Delete
  <2> HIDE DEF v
  <2> QED
    BY Zenon, <1>2, <2>1, <2>2
<1>5. ASSUME NEW r \in Reader, GetSnapshot(r) \/ ReleaseSnapshot(r) PROVE IInv'
  BY Zenon, <1>1, <1>5, InvKept DEF GetSnapshot, ReleaseSnapshot
<1> QED
  BY Zenon, <1>3, <1>4, <1>5 DEF User

\* A number that is about to be handed out is not in use anywhere.
LEMMA FreshFile ==
  ASSUME IInv, NEW f \in File, f = next_file_number
  PROVE  /\ state[f] = "none"
         /\ \A t \in 1..last_sequence : lsm[t].file # f
         /\ flush_file # f
         /\ \A j \in Job : f \notin inputs[j] /\ output[j] # f
<1> USE ConstantsAssumption
<1>1. f \in Nat /\ logged \in Nat /\ logged <= f
  BY DEF IInv, TypeOK, FileType, File
<1>2. state[f] = "none"
  BY <1>1 DEF IInv, FilesOK
<1>3. \A t \in 1..last_sequence : lsm[t].file # f
  BY <1>1 DEF IInv, IndexesOK, InLSM, File
<1>4. f # NoFile
  BY DEF File, NoFile
<1>5. flush_file # f
  BY Zenon, <1>2, <1>4 DEF IInv, FlushOK
<1>6. ASSUME NEW j \in Job PROVE f \notin inputs[j] /\ output[j] # f
  BY Zenon, <1>2, <1>4 DEF IInv, JobOK
<1> QED
  BY Zenon, <1>2, <1>3, <1>5, <1>6

\* A step that changes states of files, but leaves the base DB, the records and
\* the obsolete files as they are, keeps what is said of blob indexes.
LEMMA StateIndexes ==
  ASSUME IInv, TypeOK',
         UNCHANGED <<lsm, last_sequence, obsolete_sequence>>,
         logged <= logged',
         \A t \in 1..last_sequence : lsm[t].file # InLSM =>
           LET f == lsm[t].file IN
           /\ recs'[f] = recs[f]
           /\ \/ state'[f] = state[f]
              \/ /\ state[f] \in {"kPendingLSM", "kNormal", "kBeingGC", "kPendingGC"}
                 /\ state'[f] \in {"kPendingLSM", "kNormal", "kBeingGC", "kPendingGC"}
  PROVE  IndexesOK'
<1> SUFFICES ASSUME NEW t \in 1..last_sequence, lsm[t].file # InLSM
             PROVE  LET f == lsm[t].file IN
                    /\ f < logged'
                    /\ state'[f] # "kInit"
                    /\ InStorage(f)' => Rec(t) \in recs'[f]
                    /\ state'[f] = "kObsolete" => Shadowed(t, obsolete_sequence[f])
                    /\ state'[f] = "none" => Shadowed(t, last_sequence)
  BY DEF IndexesOK, InStorage, Rec, Shadowed
<1> DEFINE f == lsm[t].file
<1>1. /\ f < logged
      /\ state[f] # "kInit"
      /\ InStorage(f) => Rec(t) \in recs[f]
      /\ state[f] = "kObsolete" => Shadowed(t, obsolete_sequence[f])
      /\ state[f] = "none" => Shadowed(t, last_sequence)
  BY Zenon DEF IInv, IndexesOK
<1>2. f \in Nat /\ logged \in Nat /\ logged' \in Nat
  BY ConstantsAssumption DEF IInv, TypeOK, LSMType, FileType, Version
<1> QED
  BY <1>1, <1>2 DEF InStorage

\* A step that leaves the base DB, a GC job and the files it owns alone keeps
\* what is said of the job.
LEMMA JobFrame ==
  ASSUME IInv, NEW j \in Job, UNCHANGED <<lsm, last_sequence>>,
         UNCHANGED <<gc_pc[j], inputs[j], todo[j], rewrite_batches[j], output[j],
                     gc_obsolete[j]>>,
         \A f \in inputs[j] : state'[f] = state[f],
         output[j] # NoFile => /\ state'[output[j]] = state[output[j]]
                               /\ recs[output[j]] \subseteq recs'[output[j]]
                               /\ output[j] # flush_file'
  PROVE  JobOK(j)'
BY DEF IInv, JobOK, Rec, Shadowed

\* What the invariant says of files and indexes stays true when neither they nor
\* the files of the GC jobs change.
LEMMA SameFiles ==
  ASSUME IInv, UNCHANGED <<lsm, last_sequence, fileVars, inputs, output>>
  PROVE  FilesOK' /\ IndexesOK' /\ JobsDisjoint'
<1>1. FilesOK'
  BY Zenon DEF IInv, FilesOK, InStorage, fileVars
<1>2. IndexesOK'
  BY Zenon DEF IInv, IndexesOK, InStorage, Rec, Shadowed, fileVars
<1>3. JobsDisjoint'
  BY Zenon DEF IInv, JobsDisjoint
<1> QED
  BY Zenon, <1>1, <1>2, <1>3

\* The steps of the flush job keep the invariant.
LEMMA InvFlush == IInv /\ Flush => IInv'
<1> SUFFICES ASSUME IInv, Flush PROVE IInv'
  BY Zenon
<1> USE ConstantsAssumption
<1>1. TypeOK'
  BY Zenon, TypeFlush DEF IInv
<1>2. CASE FlushBuild
  <2> DEFINE kept == {t \in (flushed + 1)..last_sequence :
                        lsm[t].orig # Deleted /\ Needed(t)}
  <2>1. /\ UNCHANGED <<lsm, last_sequence, flushed, obsolete_sequence, logged>>
        /\ UNCHANGED gcVars
        /\ flush_pc = "idle" /\ flush_pc' = "built"
        /\ flush_kept' = kept /\ flush_upto' = last_sequence
    BY Zenon, <1>2 DEF FlushBuild, lsmVars
  <2>2. CASE Values(kept) = {}
    <3>1. flush_file' = NoFile /\ UNCHANGED <<state, recs, next_file_number>>
      BY Zenon, <1>2, <2>2 DEF FlushBuild
    <3>2. FilesOK' /\ IndexesOK' /\ JobsDisjoint'
      BY Zenon, <2>1, <3>1, SameFiles DEF fileVars, gcVars
    <3>3. FlushOK'
      <4>1. Values(flush_kept)' = {}
        BY Zenon, <2>1, <2>2 DEF Values
      <4>2. flushed <= last_sequence
        BY DEF IInv, TypeOK, LSMType
      <4> QED
        BY Zenon, <2>1, <3>1, <4>1, <4>2 DEF FlushOK
    <3>4. ASSUME NEW j \in Job PROVE JobOK(j)'
      BY Zenon, <2>1, <3>1, JobFrame DEF gcVars
    <3> QED
      BY Zenon, <1>1, <3>2, <3>3, <3>4 DEF IInv
  <2>3. CASE Values(kept) # {}
    <3>1. PICK f \in File :
            /\ f = next_file_number
            /\ next_file_number' = f + 1
            /\ flush_file' = f
            /\ state' = [state EXCEPT ![f] = "kInit"]
            /\ recs' = [recs EXCEPT ![f] =
                 {<<lsm[t].key, lsm[t].orig>> : t \in Values(kept)}]
      BY Zenon, <1>2, <2>3 DEF FlushBuild, NewFile
    <3>2. /\ state[f] = "none"
          /\ \A t \in 1..last_sequence : lsm[t].file # f
          /\ \A j \in Job : f \notin inputs[j] /\ output[j] # f
      BY Zenon, <3>1, FreshFile
    <3>3. /\ state'[f] = "kInit"
          /\ recs'[f] = {<<lsm[t].key, lsm[t].orig>> : t \in Values(kept)}
          /\ \A g \in File : g # f => state'[g] = state[g] /\ recs'[g] = recs[g]
      BY Zenon, <3>1 DEF IInv, TypeOK, FileType
    <3>4. FilesOK'
      BY <2>1, <3>1, <3>3 DEF IInv, FilesOK, InStorage, TypeOK, FileType, File
    <3>5. IndexesOK'
      <4>1. \A t \in 1..last_sequence : lsm[t].file # InLSM =>
              /\ recs'[lsm[t].file] = recs[lsm[t].file]
              /\ state'[lsm[t].file] = state[lsm[t].file]
        <5> SUFFICES ASSUME NEW t \in 1..last_sequence, lsm[t].file # InLSM
                     PROVE  lsm[t].file \in File /\ lsm[t].file # f
          BY Zenon, <3>3
        <5>1. lsm[t] \in Version
          BY Zenon DEF IInv, TypeOK, LSMType
        <5>2. lsm[t].file \in File
          BY <5>1 DEF Version, InLSM, File
        <5> QED
          BY Zenon, <3>2, <5>2
      <4>2. logged <= logged'
        BY <2>1 DEF IInv, TypeOK, FileType
      <4> QED
        BY Zenon, <1>1, <2>1, <4>1, <4>2, StateIndexes
    <3>6. FlushOK'
      <4>1. Values(flush_kept)' = Values(kept)
        BY Zenon, <2>1 DEF Values
      <4>2. \A t \in Values(kept) : Rec(t)' \in recs'[f]
        BY Zenon, <2>1, <3>3 DEF Rec
      <4>3. flushed <= last_sequence /\ f # NoFile
        BY DEF IInv, TypeOK, LSMType, File, NoFile
      <4> QED
        BY Zenon, <2>1, <3>1, <3>3, <4>1, <4>2, <4>3 DEF FlushOK
    <3>7. ASSUME NEW j \in Job PROVE JobOK(j)'
      <4>1. inputs[j] \subseteq File /\ output[j] \in File \cup {NoFile}
        BY DEF IInv, TypeOK, GCType, File, NoFile
      <4> QED
        BY <2>1, <3>1, <3>2, <3>3, <4>1, JobFrame DEF gcVars
    <3>8. JobsDisjoint'
      BY Zenon, <2>1 DEF IInv, JobsDisjoint, gcVars
    <3> QED
      BY Zenon, <1>1, <3>4, <3>5, <3>6, <3>7, <3>8 DEF IInv
  <2> QED
    BY Zenon, <2>2, <2>3
<1>3. CASE FlushFinish
  <2>1. /\ UNCHANGED <<lsm, last_sequence, flushed, recs, obsolete_sequence,
                       next_file_number, flush_file, flush_kept, flush_upto>>
        /\ UNCHANGED gcVars
        /\ flush_pc = "built" /\ flush_pc' = "finished"
        /\ logged' = next_file_number
    BY Zenon, <1>3 DEF FlushFinish, lsmVars
  <2>2. /\ flush_file # NoFile => /\ flush_file \in File
                                  /\ state[flush_file] = "kInit"
                                  /\ state'[flush_file] = "kPendingLSM"
        /\ \A g \in File : g # flush_file => state'[g] = state[g]
    BY <1>3, <2>1, Transits
       DEF FlushFinish, IInv, TypeOK, FileType, FlushType, FlushOK, File, NoFile
  <2>3. FilesOK'
    <3> SUFFICES ASSUME NEW f \in File
                 PROVE  /\ state'[f] \in {"none", "kInit", "kPendingLSM", "kNormal",
                                          "kBeingGC", "kPendingGC", "kObsolete"}
                        /\ state'[f] # "none" => f < next_file_number
      BY Zenon, <2>1 DEF FilesOK, InStorage
    <3>1. CASE f = flush_file
      BY <2>2, <3>1 DEF IInv, FilesOK, File, NoFile
    <3>2. CASE f # flush_file
      BY Zenon, <2>2, <3>2 DEF IInv, FilesOK
    <3> QED
      BY Zenon, <3>1, <3>2
  <2>4. IndexesOK'
    <3>1. \A t \in 1..last_sequence : lsm[t].file # InLSM =>
            /\ recs'[lsm[t].file] = recs[lsm[t].file]
            /\ state'[lsm[t].file] = state[lsm[t].file]
      <4> SUFFICES ASSUME NEW t \in 1..last_sequence, lsm[t].file # InLSM
                   PROVE  state'[lsm[t].file] = state[lsm[t].file]
        BY Zenon, <2>1
      <4>1. lsm[t].file \in File /\ lsm[t].file # NoFile
        BY DEF IInv, TypeOK, LSMType, Version, InLSM, File, NoFile
      <4>2. state[lsm[t].file] # "kInit"
        BY Zenon DEF IInv, IndexesOK
      <4> QED
        BY Zenon, <2>2, <4>1, <4>2
    <3>2. logged <= logged'
      BY <2>1 DEF IInv, TypeOK, FileType
    <3> QED
      BY Zenon, <1>1, <2>1, <3>1, <3>2, StateIndexes
  <2>5. FlushOK'
    BY Zenon, <2>1, <2>2 DEF IInv, FlushOK, Values, Rec
  <2>6. ASSUME NEW j \in Job PROVE JobOK(j)'
    <3>1. inputs[j] \subseteq File /\ output[j] \in File \cup {NoFile}
      BY DEF IInv, TypeOK, GCType, File, NoFile
    <3>2. /\ flush_file \notin inputs[j]
          /\ output[j] # NoFile => output[j] # flush_file
      <4>1. JobOK(j) /\ NoFile \notin File
        BY DEF IInv, File, NoFile
      <4>2. CASE flush_file = NoFile
        BY Zenon, <3>1, <4>1, <4>2
      <4>3. CASE flush_file # NoFile
        <5>1. state[flush_file] = "kInit"
          BY Zenon, <2>2, <4>3
        <5> QED
          BY Zenon, <3>1, <4>1, <5>1 DEF JobOK
      <4> QED
        BY Zenon, <4>2, <4>3
    <3> QED
      BY Zenon, <2>1, <2>2, <3>1, <3>2, JobFrame DEF gcVars
  <2>7. JobsDisjoint'
    BY Zenon, <2>1 DEF IInv, JobsDisjoint, gcVars
  <2> QED
    BY Zenon, <1>1, <2>3, <2>4, <2>5, <2>6, <2>7 DEF IInv
<1>4. CASE FlushFinishFails \/ FlushInstallFails
  <2>1. /\ UNCHANGED <<lsm, last_sequence, flushed, fileVars, gcVars>>
        /\ flush_pc' = "idle" /\ flush_file' = NoFile
    BY Zenon, <1>4 DEF FlushFinishFails, FlushInstallFails, lsmVars
  <2>2. FilesOK' /\ IndexesOK' /\ JobsDisjoint'
    BY Zenon, <2>1, SameFiles DEF gcVars
  <2>3. FlushOK'
    BY Zenon, <2>1 DEF FlushOK
  <2>4. ASSUME NEW j \in Job PROVE JobOK(j)'
    BY Zenon, <2>1, JobFrame DEF fileVars, gcVars
  <2> QED
    BY Zenon, <1>1, <2>2, <2>3, <2>4 DEF IInv
<1>5. CASE FlushInstall
  <2>1. /\ UNCHANGED <<last_sequence, fileVars, flush_file, flush_kept,
                       flush_upto, gcVars>>
        /\ flush_pc = "finished" /\ flush_pc' = "installed"
    BY Zenon, <1>5 DEF FlushInstall
  <2>2. ASSUME NEW t \in 1..last_sequence
        PROVE  /\ lsm'[t].key = lsm[t].key
               /\ lsm'[t].orig = lsm[t].orig
               /\ t \in Values(flush_kept) => lsm'[t].file = flush_file
               /\ t \notin Values(flush_kept) => lsm'[t] = lsm[t]
    <3>1. t \in SeqNo /\ lsm[t] \in Version
      BY DEF IInv, TypeOK, LSMType, SeqNo
    <3>2. lsm'[t] = IF t \in Values(flush_kept)
                    THEN [lsm[t] EXCEPT !.file = flush_file] ELSE lsm[t]
      BY Zenon, <1>5, <3>1 DEF FlushInstall
    <3> QED
      BY Zenon, <3>1, <3>2 DEF Version
  <2>3. \A t \in Values(flush_kept) : /\ flush_file # NoFile
                                      /\ flush_file \in File
                                      /\ Rec(t) \in recs[flush_file]
                                      /\ state[flush_file] = "kPendingLSM"
    <3>1. FlushOK /\ flush_file \in 0..MaxFile
      BY Zenon DEF IInv, TypeOK, FlushType
    <3>2. flush_file # NoFile => flush_file \in File
      BY <3>1 DEF File, NoFile
    <3> QED
      BY Zenon, <2>1, <3>1, <3>2 DEF FlushOK
  <2>4. ASSUME NEW t \in 1..last_sequence, NEW s \in 0..last_sequence,
               Shadowed(t, s)
        PROVE  \E u \in (t + 1)..s : lsm'[u].key = lsm'[t].key
    BY <2>2, <2>4 DEF Shadowed, IInv, TypeOK, LSMType
  <2>5. FilesOK' /\ JobsDisjoint'
    BY Zenon, <2>1 DEF IInv, FilesOK, JobsDisjoint, InStorage, fileVars, gcVars
  <2>6. IndexesOK'
    <3> SUFFICES ASSUME NEW t \in 1..last_sequence, lsm'[t].file # InLSM
                 PROVE  LET f == lsm'[t].file IN
                        /\ f < logged
                        /\ state[f] # "kInit"
                        /\ InStorage(f) => <<lsm'[t].key, lsm'[t].orig>> \in recs[f]
                        /\ state[f] = "kObsolete" =>
                             \E u \in (t + 1)..obsolete_sequence[f] :
                                lsm'[u].key = lsm'[t].key
                        /\ state[f] = "none" =>
                             \E u \in (t + 1)..last_sequence :
                                lsm'[u].key = lsm'[t].key
      BY Zenon, <2>1 DEF IndexesOK, InStorage, Rec, Shadowed, fileVars
    <3>1. CASE t \in Values(flush_kept)
      <4>1. flush_file < logged
        BY Zenon, <2>3, <3>1 DEF IInv, FilesOK, InStorage
      <4> QED
        BY Zenon, <2>2, <2>3, <3>1, <4>1 DEF Rec
    <3>2. CASE t \notin Values(flush_kept)
      <4> DEFINE f == lsm[t].file
      <4>1. lsm'[t] = lsm[t] /\ f # InLSM /\ f \in File
        BY <2>2, <3>2 DEF IInv, TypeOK, LSMType, Version, File, InLSM
      <4>2. /\ f < logged
            /\ state[f] # "kInit"
            /\ InStorage(f) => Rec(t) \in recs[f]
            /\ state[f] = "kObsolete" => Shadowed(t, obsolete_sequence[f])
            /\ state[f] = "none" => Shadowed(t, last_sequence)
        BY Zenon, <4>1 DEF IInv, IndexesOK
      <4>3. /\ obsolete_sequence[f] \in 0..last_sequence
            /\ last_sequence \in 0..last_sequence
        BY <4>1 DEF IInv, TypeOK, FileType, LSMType
      <4> QED
        BY Zenon, <2>4, <4>1, <4>2, <4>3 DEF Rec
    <3> QED
      BY Zenon, <3>1, <3>2
  <2>7. FlushOK'
    BY Zenon, <2>1 DEF IInv, FlushOK, fileVars
  <2>8. ASSUME NEW j \in Job PROVE JobOK(j)'
    <3>1. ASSUME NEW t \in 1..last_sequence, lsm'[t].file \in inputs[j]
          PROVE  IF gc_pc[j] = "delete"
                 THEN \E u \in (t + 1)..gc_obsolete[j] : lsm'[u].key = lsm'[t].key
                 ELSE \/ <<lsm'[t].file, <<lsm'[t].key, lsm'[t].orig>> >>
                           \in todo[j] \cup rewrite_batches[j]
                      \/ \E u \in (t + 1)..last_sequence :
                            lsm'[u].key = lsm'[t].key
      <4>1. flush_file \notin inputs[j] \/ t \notin Values(flush_kept)
        BY Zenon, <2>3 DEF IInv, JobOK
      <4>2. lsm'[t] = lsm[t]
        BY Zenon, <2>2, <3>1, <4>1
      <4>3. IF gc_pc[j] = "delete"
            THEN Shadowed(t, gc_obsolete[j])
            ELSE \/ <<lsm[t].file, Rec(t)>> \in todo[j] \cup rewrite_batches[j]
                 \/ Shadowed(t, last_sequence)
        BY Zenon, <3>1, <4>2 DEF IInv, JobOK
      <4>4. /\ gc_obsolete[j] \in 0..last_sequence
            /\ last_sequence \in 0..last_sequence
        BY DEF IInv, TypeOK, GCType, LSMType
      <4> QED
        BY Zenon, <2>4, <4>2, <4>3, <4>4 DEF Rec
    <3> QED
      BY <2>1, <3>1 DEF IInv, JobOK, Rec, Shadowed, fileVars, gcVars
  <2> QED
    BY Zenon, <1>1, <2>5, <2>6, <2>7, <2>8 DEF IInv
<1>6. CASE OnFlushCompleted
  <2>1. /\ UNCHANGED <<lsm, last_sequence, flushed, recs, obsolete_sequence,
                       next_file_number, logged, gcVars>>
        /\ flush_pc = "installed"
        /\ flush_pc' = "idle" /\ flush_file' = NoFile
    BY Zenon, <1>6 DEF OnFlushCompleted, lsmVars
  <2>2. \A f \in File : \/ state'[f] = state[f]
                        \/ state[f] = "kPendingLSM" /\ state'[f] = "kNormal"
    <3> SUFFICES ASSUME NEW f \in File
                 PROVE  \/ state'[f] = state[f]
                        \/ state[f] = "kPendingLSM" /\ state'[f] = "kNormal"
      BY Zenon
    <3>1. state'[f] = IF InStorage(f) /\ \E t \in flush_kept : lsm[t].file = f
                      THEN FileStateTransit(state[f], "kFlushCompleted")
                      ELSE state[f]
      BY Zenon, <1>6 DEF OnFlushCompleted
    <3>2. InStorage(f) => state[f] \in {"kPendingLSM", "kNormal", "kBeingGC",
                                        "kPendingGC", "kObsolete"}
      BY Zenon DEF IInv, FilesOK, InStorage
    <3> QED
      BY <3>1, <3>2, Transits
  <2>3. FilesOK'
    BY Zenon, <2>1, <2>2 DEF IInv, FilesOK, InStorage
  <2>4. IndexesOK'
    <3>1. \A t \in 1..last_sequence : lsm[t].file # InLSM => lsm[t].file \in File
      BY DEF IInv, TypeOK, LSMType, Version, InLSM, File
    <3>2. logged <= logged'
      BY <2>1 DEF IInv, TypeOK, FileType
    <3>3. \A t \in 1..last_sequence : lsm[t].file # InLSM =>
            LET f == lsm[t].file IN
            /\ recs'[f] = recs[f]
            /\ \/ state'[f] = state[f]
               \/ state[f] = "kPendingLSM" /\ state'[f] = "kNormal"
      BY Zenon, <2>1, <2>2, <3>1
    <3> QED
      BY Zenon, <1>1, <2>1, <3>2, <3>3, StateIndexes
  <2>5. FlushOK'
    BY Zenon, <2>1 DEF FlushOK
  <2>6. ASSUME NEW j \in Job PROVE JobOK(j)'
    <3>1. /\ \A f \in inputs[j] : f \in File /\ state[f] = "kBeingGC"
          /\ output[j] # NoFile => /\ output[j] \in File
                                   /\ state[output[j]] \in {"kInit", "kPendingGC"}
      BY DEF IInv, JobOK, TypeOK, GCType, File, NoFile
    <3> QED
      BY Zenon, <2>1, <2>2, <3>1, JobFrame DEF gcVars
  <2>7. JobsDisjoint'
    BY Zenon, <2>1 DEF IInv, JobsDisjoint, gcVars
  <2> QED
    BY Zenon, <1>1, <2>3, <2>4, <2>5, <2>6, <2>7 DEF IInv
<1> QED
  BY Zenon, <1>2, <1>3, <1>4, <1>5, <1>6 DEF Flush

\* What a GC job owns: its inputs and its output are files of their own.
LEMMA JobFiles ==
  ASSUME IInv, NEW j \in Job
  PROVE  /\ \A f \in inputs[j] : f \in File /\ state[f] = "kBeingGC"
         /\ output[j] # NoFile => /\ output[j] \in File
                                  /\ state[output[j]] \in {"kInit", "kPendingGC"}
                                  /\ output[j] # flush_file
         /\ output[j] \in File \cup {NoFile}
BY ConstantsAssumption DEF IInv, JobOK, TypeOK, GCType, File, NoFile

\* The file of a flush in progress.
LEMMA FlushFile ==
  ASSUME IInv, flush_file # NoFile
  PROVE  flush_file \in File /\ state[flush_file] \in {"kInit", "kPendingLSM"}
BY ConstantsAssumption DEF IInv, FlushOK, TypeOK, FlushType, File, NoFile

\* The file of a blob index is a file number.
LEMMA IndexFile ==
  ASSUME IInv, NEW t \in 1..last_sequence, lsm[t].file # InLSM
  PROVE  lsm[t].file \in File
BY ConstantsAssumption DEF IInv, TypeOK, LSMType, Version, InLSM, File

\* A step that leaves the base DB's history, the flush job and its file alone
\* keeps what is said of the flush job.
LEMMA FlushFrame ==
  ASSUME IInv, UNCHANGED <<lsm, flushed, flushVars>>,
         flush_file # NoFile => /\ state'[flush_file] = state[flush_file]
                                /\ recs'[flush_file] = recs[flush_file]
  PROVE  FlushOK'
BY Zenon DEF IInv, FlushOK, Values, Rec, flushVars

\* Jobs that do not move stay apart from one that keeps or gives up its files.
LEMMA DisjointFrame ==
  ASSUME IInv, NEW j \in Job,
         \A i \in Job : i # j => UNCHANGED <<inputs[i], output[i]>>,
         inputs'[j] \subseteq inputs[j],
         output'[j] \in {output[j], NoFile}
  PROVE  JobsDisjoint'
BY DEF IInv, JobsDisjoint

=============================================================================
