--------------------------- MODULE TitanDB_proofs ---------------------------
(***************************************************************************)
(* GC keeps TitanDB's inductive invariant; the invariant, and what follows *)
(* from it, for every set of keys, readers and GC jobs and every bound.    *)
(***************************************************************************)
EXTENDS TitanDB_writes

-----------------------------------------------------------------------------
(* A GC job picks files, copies records and installs its output            *)

\* Picking files for GC keeps the invariant.
LEMMA InvPick ==
  ASSUME IInv, NEW j \in Job, NEW fs \in SUBSET File, PickBlobGC(j, fs)
  PROVE  IInv'
<1>1. TypeOK'
  BY Zenon, TypeGC DEF IInv, BackgroundGC
<1>2. /\ UNCHANGED <<lsm, last_sequence, flushed, recs, obsolete_sequence,
                     next_file_number, logged, flushVars, rewrite_batches,
                     output, gc_obsolete>>
      /\ gc_pc[j] = "idle"
  BY Zenon DEF PickBlobGC, lsmVars
<1>3. \A f \in fs : state[f] = "kNormal" /\ state'[f] = "kBeingGC"
  BY Zenon, Transits DEF PickBlobGC, CheckBlobFile
<1>4. \A f \in File \ fs : state'[f] = state[f]
  BY Zenon DEF PickBlobGC
<1>5. /\ gc_pc'[j] = "run" /\ inputs'[j] = fs
      /\ todo'[j] = {e \in File \X Record : e[1] \in fs /\ e[2] \in recs[e[1]]}
      /\ \A i \in Job : i # j => UNCHANGED <<gc_pc[i], inputs[i], todo[i]>>
  BY Zenon DEF PickBlobGC, IInv, TypeOK, GCType
<1>6. FilesOK'
  BY Zenon, <1>2, <1>3, <1>4 DEF IInv, FilesOK, InStorage
<1>7. IndexesOK'
  <2>1. logged <= logged'
    BY <1>2, ConstantsAssumption DEF IInv, TypeOK, FileType
  <2>2. \A t \in 1..last_sequence : lsm[t].file # InLSM =>
          LET f == lsm[t].file IN
          /\ recs'[f] = recs[f]
          /\ \/ state'[f] = state[f]
             \/ state[f] = "kNormal" /\ state'[f] = "kBeingGC"
    BY Zenon, <1>2, <1>3, <1>4, IndexFile
  <2> QED
    BY Zenon, <1>1, <1>2, <2>1, <2>2, StateIndexes
<1>8. FlushOK'
  BY Zenon, <1>2, <1>3, <1>4, FlushFile, FlushFrame
<1>9. ASSUME NEW i \in Job PROVE JobOK(i)'
  <2>1. CASE i = j
    <3>1. output[j] = NoFile /\ rewrite_batches[j] = {}
      BY Zenon, <1>2 DEF IInv, JobOK
    <3>2. ASSUME NEW t \in 1..last_sequence, lsm[t].file \in fs
          PROVE  <<lsm[t].file, Rec(t)>> \in todo'[j]
      <4> InLSM \notin File
        BY DEF File, InLSM
      <4>1. lsm[t].file \in File /\ lsm[t].file # InLSM
        BY Zenon, <3>2
      <4>2. Rec(t) \in recs[lsm[t].file]
        BY Zenon, <1>3, <3>2, <4>1 DEF IInv, IndexesOK, InStorage
      <4>3. Rec(t) \in Record
        BY Zenon, <4>1, <4>2 DEF IInv, TypeOK, FileType
      <4> QED
        BY Zenon, <1>5, <3>2, <4>1, <4>2, <4>3
    <3> QED
      BY Zenon, <1>2, <1>3, <1>5, <2>1, <3>1, <3>2 DEF JobOK, Rec
  <2>2. CASE i # j
    BY <1>2, <1>3, <1>4, <1>5, <2>2, JobFiles, JobFrame DEF flushVars
  <2> QED
    BY Zenon, <2>1, <2>2
<1>10. JobsDisjoint'
  <2>1. \A i \in Job : i # j => inputs[i] \cap fs = {}
    BY Zenon, <1>3, JobFiles
  <2> QED
    BY <1>2, <1>5, <2>1 DEF IInv, JobsDisjoint
<1> QED
  BY Zenon, <1>1, <1>6, <1>7, <1>8, <1>9, <1>10 DEF IInv

\* Discarding a record keeps the invariant: no latest version needs it.
LEMMA InvDiscard ==
  ASSUME IInv, NEW j \in Job, RunGCDiscard(j)
  PROVE  IInv'
<1>1. TypeOK'
  BY Zenon, TypeGC DEF IInv, BackgroundGC
<1>2. /\ UNCHANGED <<lsm, last_sequence, flushed, fileVars, flushVars,
                     gc_pc, inputs, rewrite_batches, output, gc_obsolete>>
      /\ gc_pc[j] = "run"
  BY Zenon DEF RunGCDiscard, lsmVars
<1>3. PICK e \in todo[j] : /\ DiscardEntry(e[1], e[2])
                           /\ todo' = [todo EXCEPT ![j] = @ \ {e}]
  BY Zenon DEF RunGCDiscard
<1>4. /\ todo'[j] = todo[j] \ {e}
      /\ \A i \in Job : i # j => todo'[i] = todo[i]
  BY Zenon, <1>3 DEF IInv, TypeOK, GCType
<1>5. FilesOK' /\ IndexesOK' /\ JobsDisjoint'
  BY <1>2 DEF IInv, FilesOK, IndexesOK, JobsDisjoint, InStorage, Rec, Shadowed,
              fileVars
<1>6. FlushOK'
  BY Zenon, <1>2, FlushFrame DEF fileVars
<1>7. ASSUME NEW i \in Job PROVE JobOK(i)'
  <2>1. CASE i = j
    <3>1. ASSUME NEW t \in 1..last_sequence, e = <<lsm[t].file, Rec(t)>>
          PROVE  Shadowed(t, last_sequence)
      <4>1. lsm[t] = [key |-> e[2][1], file |-> e[1], orig |-> e[2][2]]
        BY <3>1 DEF IInv, TypeOK, LSMType, Version, Rec
      <4> QED
        BY Zenon, <1>3, <4>1 DEF DiscardEntry
    <3>2. ASSUME NEW t \in 1..last_sequence, lsm[t].file \in inputs[j]
          PROVE  \/ <<lsm[t].file, Rec(t)>> \in todo'[j] \cup rewrite_batches[j]
                 \/ Shadowed(t, last_sequence)
      BY Zenon, <1>2, <1>4, <3>1, <3>2 DEF IInv, JobOK
    <3> QED
      BY <1>2, <2>1, <3>2 DEF IInv, JobOK, Rec, Shadowed, fileVars, flushVars
  <2>2. CASE i # j
    BY Zenon, <1>2, <1>4, <2>2, JobFiles, JobFrame DEF fileVars, flushVars
  <2> QED
    BY Zenon, <2>1, <2>2
<1> QED
  BY Zenon, <1>1, <1>5, <1>6, <1>7 DEF IInv

\* Copying a record to the output keeps the invariant.
LEMMA InvRewrite ==
  ASSUME IInv, NEW j \in Job, RunGCRewrite(j)
  PROVE  IInv'
<1>1. TypeOK'
  BY Zenon, TypeGC DEF IInv, BackgroundGC
<1>2. /\ UNCHANGED <<lsm, last_sequence, flushed, obsolete_sequence, logged,
                     flushVars, gc_pc, inputs, gc_obsolete>>
      /\ gc_pc[j] = "run"
  BY Zenon DEF RunGCRewrite, lsmVars
<1>3. PICK e \in todo[j], f \in File :
        /\ \/ output[j] = NoFile /\ f = next_file_number /\ next_file_number' = f + 1
           \/ output[j] = f /\ UNCHANGED next_file_number
        /\ output' = [output EXCEPT ![j] = f]
        /\ state' = [state EXCEPT ![f] = "kInit"]
        /\ recs' = [recs EXCEPT ![f] = @ \cup {e[2]}]
        /\ rewrite_batches' = [rewrite_batches EXCEPT ![j] = @ \cup {e}]
        /\ todo' = [todo EXCEPT ![j] = @ \ {e}]
  BY Zenon DEF RunGCRewrite, NewFile
<1>4. /\ output'[j] = f /\ todo'[j] = todo[j] \ {e}
      /\ rewrite_batches'[j] = rewrite_batches[j] \cup {e}
      /\ \A i \in Job : i # j => UNCHANGED <<output[i], todo[i], rewrite_batches[i]>>
  BY Zenon, <1>3 DEF IInv, TypeOK, GCType
<1>5. /\ state'[f] = "kInit" /\ recs'[f] = recs[f] \cup {e[2]}
      /\ \A g \in File : g # f => state'[g] = state[g] /\ recs'[g] = recs[g]
  BY Zenon, <1>3 DEF IInv, TypeOK, FileType
<1>6. f # NoFile /\ f \in Nat
  BY DEF File, NoFile
<1>7. /\ \A t \in 1..last_sequence : lsm[t].file # f
      /\ flush_file # f
      /\ \A i \in Job : f \notin inputs[i] /\ (i # j => output[i] # f)
      /\ output[j] = NoFile \/ output[j] = f
  <2>1. CASE f = next_file_number
    BY Zenon, <1>3, <2>1, FreshFile
  <2>2. CASE output[j] = f
    <3>1. state[f] = "kInit" /\ flush_file # f
      BY Zenon, <1>2, <1>6, <2>2 DEF IInv, JobOK
    <3>2. \A t \in 1..last_sequence : lsm[t].file # f
      BY Zenon, <1>6, <3>1 DEF IInv, IndexesOK, InLSM, NoFile
    <3>3. \A i \in Job : i # j => output[i] # f
      BY Zenon, <1>6, <2>2 DEF IInv, JobsDisjoint
    <3> QED
      BY Zenon, <2>2, <3>1, <3>2, <3>3, JobFiles
  <2> QED
    BY Zenon, <1>3, <2>1, <2>2
<1>8. FilesOK'
  <2> SUFFICES ASSUME NEW g \in File
               PROVE  /\ state'[g] \in {"none", "kInit", "kPendingLSM", "kNormal",
                                        "kBeingGC", "kPendingGC", "kObsolete"}
                      /\ state'[g] # "none" => g < next_file_number'
                      /\ state'[g] \notin {"none", "kInit"} => g < logged
    BY Zenon, <1>2 DEF FilesOK, InStorage
  <2>1. next_file_number \in Nat /\ g \in Nat
    BY ConstantsAssumption DEF IInv, TypeOK, FileType, File
  <2>2. next_file_number <= next_file_number' /\ f < next_file_number'
    <3>1. CASE f = next_file_number /\ next_file_number' = f + 1
      BY <2>1, <3>1
    <3>2. CASE output[j] = f /\ UNCHANGED next_file_number
      <4>1. state[f] = "kInit"
        BY Zenon, <1>2, <1>6, <3>2 DEF IInv, JobOK
      <4> QED
        BY <2>1, <3>2, <4>1 DEF IInv, FilesOK
    <3> QED
      BY Zenon, <1>3, <3>1, <3>2
  <2>3. CASE g = f
    BY Zenon, <1>5, <2>2, <2>3
  <2>4. CASE g # f
    <3>1. state'[g] = state[g]
      BY Zenon, <1>5, <2>4
    <3> QED
      BY <1>1, <2>1, <2>2, <3>1 DEF IInv, FilesOK, InStorage, TypeOK, FileType
  <2> QED
    BY Zenon, <2>3, <2>4
<1>9. IndexesOK'
  <2>1. logged <= logged'
    BY <1>2, ConstantsAssumption DEF IInv, TypeOK, FileType
  <2>2. \A t \in 1..last_sequence : lsm[t].file # InLSM =>
          /\ recs'[lsm[t].file] = recs[lsm[t].file]
          /\ state'[lsm[t].file] = state[lsm[t].file]
    BY Zenon, <1>5, <1>7, IndexFile
  <2> QED
    BY Zenon, <1>1, <1>2, <2>1, <2>2, StateIndexes
<1>10. FlushOK'
  BY Zenon, <1>2, <1>5, <1>7, FlushFile, FlushFrame
<1>11. ASSUME NEW i \in Job PROVE JobOK(i)'
  <2>1. CASE i = j
    <3>1. \A g \in inputs[j] : state'[g] = "kBeingGC"
      BY <1>5, <1>7, JobFiles
    <3>2. \A b \in rewrite_batches'[j] : b[2] \in recs'[f]
      BY Zenon, <1>4, <1>5, <1>6, <1>7 DEF IInv, JobOK
    <3>3. \A t \in 1..last_sequence : lsm[t].file \in inputs[j] =>
            \/ <<lsm[t].file, Rec(t)>> \in todo'[j] \cup rewrite_batches'[j]
            \/ Shadowed(t, last_sequence)
      BY Zenon, <1>2, <1>4 DEF IInv, JobOK
    <3> QED
      BY <1>2, <1>4, <1>5, <1>6, <1>7, <2>1, <3>1, <3>2, <3>3
         DEF JobOK, Rec, Shadowed, flushVars
  <2>2. CASE i # j
    BY <1>2, <1>4, <1>5, <1>7, <2>2, JobFiles, JobFrame DEF flushVars
  <2> QED
    BY Zenon, <2>1, <2>2
<1>12. JobsDisjoint'
  BY <1>2, <1>4, <1>6, <1>7 DEF IInv, JobsDisjoint
<1> QED
  BY Zenon, <1>1, <1>8, <1>9, <1>10, <1>11, <1>12 DEF IInv

\* Installing the output keeps the invariant.
LEMMA InvInstall ==
  ASSUME IInv, NEW j \in Job, InstallOutputBlobFiles(j)
  PROVE  IInv'
<1>1. TypeOK'
  BY Zenon, TypeGC DEF IInv, BackgroundGC
<1>2. /\ UNCHANGED <<lsm, last_sequence, flushed, recs, obsolete_sequence,
                     next_file_number, flushVars, inputs, todo, rewrite_batches,
                     output, gc_obsolete>>
      /\ gc_pc[j] = "run" /\ todo[j] = {} /\ logged' = next_file_number
  BY Zenon DEF InstallOutputBlobFiles, lsmVars
<1>3. /\ gc_pc'[j] = "rewrite"
      /\ \A i \in Job : i # j => gc_pc'[i] = gc_pc[i]
  BY Zenon DEF InstallOutputBlobFiles, IInv, TypeOK, GCType
<1>4. /\ output[j] # NoFile => /\ output[j] \in File
                               /\ state[output[j]] = "kInit"
                               /\ state'[output[j]] = "kPendingGC"
      /\ \A g \in File : g # output[j] => state'[g] = state[g]
  <2>1. output[j] # NoFile => output[j] \in File /\ state[output[j]] = "kInit"
    BY Zenon, <1>2, JobFiles DEF IInv, JobOK
  <2> QED
    BY Zenon, <2>1, Transits DEF InstallOutputBlobFiles
<1>5. FilesOK'
  <2> SUFFICES ASSUME NEW g \in File
               PROVE  /\ state'[g] \in {"none", "kInit", "kPendingLSM", "kNormal",
                                        "kBeingGC", "kPendingGC", "kObsolete"}
                      /\ state'[g] # "none" => g < next_file_number
    BY Zenon, <1>2 DEF FilesOK, InStorage
  <2>1. g # NoFile
    BY DEF File, NoFile
  <2>2. CASE g = output[j]
    BY Zenon, <1>4, <2>1, <2>2 DEF IInv, FilesOK
  <2>3. CASE g # output[j]
    BY Zenon, <1>4, <2>3 DEF IInv, FilesOK
  <2> QED
    BY Zenon, <2>2, <2>3
<1>6. IndexesOK'
  <2>1. logged <= logged'
    BY <1>2, ConstantsAssumption DEF IInv, TypeOK, FileType
  <2>2. \A t \in 1..last_sequence : lsm[t].file # InLSM =>
          /\ recs'[lsm[t].file] = recs[lsm[t].file]
          /\ state'[lsm[t].file] = state[lsm[t].file]
    <3> SUFFICES ASSUME NEW t \in 1..last_sequence, lsm[t].file # InLSM
                 PROVE  state'[lsm[t].file] = state[lsm[t].file]
      BY Zenon, <1>2
    <3>1. lsm[t].file \in File /\ lsm[t].file # NoFile
      BY Zenon, IndexFile DEF InLSM, NoFile
    <3>2. state[lsm[t].file] # "kInit"
      BY Zenon DEF IInv, IndexesOK
    <3> QED
      BY Zenon, <1>4, <3>1, <3>2
  <2> QED
    BY Zenon, <1>1, <1>2, <2>1, <2>2, StateIndexes
<1>7. FlushOK'
  BY Zenon, <1>2, <1>4, FlushFile, JobFiles, FlushFrame
<1>8. ASSUME NEW i \in Job PROVE JobOK(i)'
  <2>1. CASE i = j
    <3>1. \A g \in inputs[j] : state'[g] = "kBeingGC"
      <4>1. \A g \in inputs[j] : g \in File /\ g # NoFile /\ state[g] = "kBeingGC"
        BY JobFiles DEF File, NoFile
      <4> QED
        BY Zenon, <1>4, <4>1
    <3>2. \A t \in 1..last_sequence : lsm[t].file \in inputs[j] =>
            \/ <<lsm[t].file, Rec(t)>> \in todo[j] \cup rewrite_batches[j]
            \/ Shadowed(t, last_sequence)
      BY Zenon, <1>2 DEF IInv, JobOK
    <3>3. \A e \in rewrite_batches[j] : output[j] # NoFile /\ e[2] \in recs[output[j]]
      BY Zenon DEF IInv, JobOK
    <3>4. output[j] # NoFile => output[j] # flush_file
      BY Zenon, JobFiles
    <3> QED
      BY Zenon, <1>2, <1>3, <1>4, <2>1, <3>1, <3>2, <3>3, <3>4
         DEF JobOK, Rec, Shadowed, flushVars
  <2>2. CASE i # j
    <3>1. output[i] # NoFile => output[i] # output[j]
      BY Zenon, <2>2 DEF IInv, JobsDisjoint
    <3>2. \A g \in inputs[i] : g # output[j]
      <4>1. \A g \in inputs[i] : g \in File /\ g # NoFile /\ state[g] = "kBeingGC"
        BY JobFiles DEF File, NoFile
      <4> QED
        BY Zenon, <1>4, <4>1
    <3> QED
      BY Zenon, <1>2, <1>3, <1>4, <2>2, <3>1, <3>2, JobFiles, JobFrame
         DEF flushVars
  <2> QED
    BY Zenon, <2>1, <2>2
<1>9. JobsDisjoint'
  BY Zenon, <1>2 DEF IInv, JobsDisjoint
<1> QED
  BY Zenon, <1>1, <1>5, <1>6, <1>7, <1>8, <1>9 DEF IInv

-----------------------------------------------------------------------------
(* A GC job rewrites keys, deletes its inputs or fails                     *)

\* Writing a new index keeps the invariant: the record is in the output, and
\* the version it was copied from is shadowed from now on.
LEMMA InvRewriteLSM ==
  ASSUME IInv, NEW j \in Job, RewriteValidKeyToLSM(j)
  PROVE  IInv'
<1>1. TypeOK'
  BY Zenon, TypeGC DEF IInv, BackgroundGC
<1>2. /\ UNCHANGED <<fileVars, flushVars, gc_pc, inputs, todo, output, gc_obsolete>>
      /\ gc_pc[j] = "rewrite"
  BY Zenon DEF RewriteValidKeyToLSM
<1>3. PICK e \in rewrite_batches[j] :
        /\ WriteLSM([key |-> e[2][1], file |-> output[j], orig |-> e[2][2]])
        /\ rewrite_batches' = [rewrite_batches EXCEPT ![j] = @ \ {e}]
  BY Zenon DEF RewriteValidKeyToLSM
<1> DEFINE v == [key |-> e[2][1], file |-> output[j], orig |-> e[2][2]]
<1>4. /\ e[2] \in Record /\ e[2][1] \in Key /\ e[2][2] \in 0..MaxSeq
      /\ e[2] = <<e[2][1], e[2][2]>>
      /\ output[j] \in 0..MaxFile
  BY DEF IInv, TypeOK, GCType, Record, SeqNo
<1>5. /\ v \in Version /\ v.file = output[j] /\ v.key = e[2][1]
      /\ <<v.key, v.orig>> = e[2]
  BY Zenon, <1>4 DEF Version
<1>6. WriteLSM(v)
  BY Zenon, <1>3
<1> HIDE DEF v
<1>7. /\ output[j] # NoFile /\ e[2] \in recs[output[j]]
      /\ state[output[j]] = "kPendingGC" /\ output[j] \in File
  BY Zenon, <1>2, JobFiles DEF IInv, JobOK
<1>8. output[j] < logged
  BY Zenon, <1>7 DEF IInv, FilesOK, InStorage
<1>9. \A i \in Job : v.file \notin inputs[i]
  BY Zenon, <1>5, <1>7, JobFiles
<1>10. /\ rewrite_batches'[j] = rewrite_batches[j] \ {e}
       /\ \A i \in Job : i # j => rewrite_batches'[i] = rewrite_batches[i]
  BY Zenon, <1>3 DEF IInv, TypeOK, GCType
<1>11. FilesOK' /\ JobsDisjoint'
  BY Zenon, <1>2 DEF IInv, FilesOK, JobsDisjoint, InStorage, fileVars
<1>12. IndexesOK'
  BY Zenon, <1>2, <1>5, <1>6, <1>7, <1>8, WriteIndexes
<1>13. FlushOK'
  BY Zenon, <1>2, <1>5, <1>6, WriteFlush
<1>14. ASSUME NEW i \in Job PROVE JobOK(i)'
  <2>1. CASE i = j
    <3>1. /\ last_sequence \in Nat
          /\ last_sequence' = last_sequence + 1
          /\ \A u \in 1..last_sequence : lsm'[u] = lsm[u]
          /\ lsm'[last_sequence'] = v
          /\ \A t \in 1..last_sequence' : t \in 1..last_sequence \/ t = last_sequence'
      BY Zenon, <1>5, <1>6, WriteFacts DEF IInv
    <3>2. ASSUME NEW t \in 1..last_sequence', lsm'[t].file \in inputs[j]
          PROVE  \/ <<lsm'[t].file, <<lsm'[t].key, lsm'[t].orig>> >>
                      \in todo[j] \cup rewrite_batches'[j]
                 \/ \E u \in (t + 1)..last_sequence' : lsm'[u].key = lsm'[t].key
      <4>1. t \in 1..last_sequence /\ lsm'[t] = lsm[t]
        BY Zenon, <1>9, <3>1, <3>2
      <4>2. \/ <<lsm[t].file, <<lsm[t].key, lsm[t].orig>> >>
                 \in todo[j] \cup rewrite_batches[j]
            \/ \E u \in (t + 1)..last_sequence : lsm[u].key = lsm[t].key
        BY <1>2, <3>2, <4>1 DEF IInv, JobOK, Rec, Shadowed
      <4>3. CASE e = <<lsm[t].file, <<lsm[t].key, lsm[t].orig>> >>
        <5>1. lsm[t].key = v.key
          BY Zenon, <1>5, <4>3
        <5> QED
          BY <3>1, <4>1, <5>1
      <4>4. CASE e # <<lsm[t].file, <<lsm[t].key, lsm[t].orig>> >>
        BY <1>10, <3>1, <4>1, <4>2, <4>4
      <4> QED
        BY Zenon, <4>3, <4>4
    <3> QED
      BY <1>2, <1>10, <2>1, <3>2
         DEF IInv, JobOK, Rec, Shadowed, fileVars, flushVars
  <2>2. CASE i # j
    BY Zenon, <1>2, <1>5, <1>6, <1>9, <1>10, <2>2, WriteJob DEF flushVars
  <2> QED
    BY Zenon, <2>1, <2>2
<1> QED
  BY Zenon, <1>1, <1>11, <1>12, <1>13, <1>14 DEF IInv

\* Reading the obsolete sequence keeps the invariant: every version in the
\* inputs is shadowed by then.
LEMMA InvReadObsolete ==
  ASSUME IInv, NEW j \in Job, ReadObsoleteSequence(j)
  PROVE  IInv'
<1>1. TypeOK'
  BY Zenon, TypeGC DEF IInv, BackgroundGC
<1>2. /\ UNCHANGED <<lsm, last_sequence, flushed, fileVars, flushVars, inputs,
                     todo, rewrite_batches, output>>
      /\ gc_pc[j] = "rewrite" /\ rewrite_batches[j] = {}
  BY Zenon DEF ReadObsoleteSequence, lsmVars
<1>3. /\ gc_pc'[j] = "delete" /\ gc_obsolete'[j] = last_sequence
      /\ \A i \in Job : i # j => UNCHANGED <<gc_pc[i], gc_obsolete[i]>>
  BY Zenon DEF ReadObsoleteSequence, IInv, TypeOK, GCType
<1>4. FilesOK' /\ IndexesOK' /\ JobsDisjoint'
  BY Zenon, <1>2, SameFiles
<1>5. FlushOK'
  BY Zenon, <1>2, FlushFrame DEF fileVars
<1>6. ASSUME NEW i \in Job PROVE JobOK(i)'
  <2>1. CASE i = j
    <3>1. \A t \in 1..last_sequence : lsm[t].file \in inputs[j] =>
            Shadowed(t, last_sequence)
      BY Zenon, <1>2 DEF IInv, JobOK
    <3> QED
      BY <1>2, <1>3, <2>1, <3>1 DEF IInv, JobOK, Shadowed, fileVars, flushVars
  <2>2. CASE i # j
    BY Zenon, <1>2, <1>3, <2>2, JobFiles, JobFrame DEF fileVars, flushVars
  <2> QED
    BY Zenon, <2>1, <2>2
<1> QED
  BY Zenon, <1>1, <1>4, <1>5, <1>6 DEF IInv

\* A job that ends owns nothing.
LEMMA ReleaseFacts ==
  ASSUME IInv, NEW j \in Job, NEW st, ReleaseGcFiles(j, st)
  PROVE  /\ gc_pc'[j] = "idle" /\ inputs'[j] = {} /\ todo'[j] = {}
         /\ rewrite_batches'[j] = {} /\ output'[j] = NoFile
         /\ \A i \in Job : i # j =>
              UNCHANGED <<gc_pc[i], inputs[i], todo[i], rewrite_batches[i],
                          output[i], gc_obsolete[i]>>
         /\ \A f \in inputs[j] : state'[f] = FileStateTransit(st[f], "kGCCompleted")
         /\ output[j] # NoFile /\ state[output[j]] = "kPendingGC" =>
              state'[output[j]] = FileStateTransit(st[output[j]], "kGCCompleted")
         /\ output[j] # NoFile /\ state[output[j]] = "kInit" =>
              state'[output[j]] = st[output[j]]
         /\ \A f \in File \ (inputs[j] \cup {output[j]}) : state'[f] = st[f]
<1>1. /\ gc_pc'[j] = "idle" /\ inputs'[j] = {} /\ todo'[j] = {}
      /\ rewrite_batches'[j] = {} /\ output'[j] = NoFile
      /\ \A i \in Job : i # j =>
           UNCHANGED <<gc_pc[i], inputs[i], todo[i], rewrite_batches[i],
                       output[i], gc_obsolete[i]>>
  BY Zenon DEF ReleaseGcFiles, IInv, TypeOK, GCType
<1>2. \A f \in File :
        state'[f] = IF f \in inputs[j] \/ (f = output[j] /\ InStorage(f))
                    THEN FileStateTransit(st[f], "kGCCompleted")
                    ELSE st[f]
  BY Zenon DEF ReleaseGcFiles
<1> QED
  BY Zenon, <1>1, <1>2, JobFiles DEF InStorage

\* A job that ends leaves what is said of jobs true.
LEMMA ReleaseJobs ==
  ASSUME IInv, NEW j \in Job, NEW st, ReleaseGcFiles(j, st),
         UNCHANGED <<lsm, last_sequence, recs, flush_file>>,
         \A f \in File \ (inputs[j] \cup {output[j]}) : st[f] = state[f]
  PROVE  JobsDisjoint' /\ \A i \in Job : JobOK(i)'
<1>1. JobsDisjoint'
  BY Zenon, ReleaseFacts, DisjointFrame
<1>2. ASSUME NEW i \in Job PROVE JobOK(i)'
  <2>1. CASE i = j
    BY Zenon, <2>1, ReleaseFacts DEF JobOK
  <2>2. CASE i # j
    <3>1. /\ inputs[i] \cap inputs[j] = {}
          /\ output[i] # NoFile => output[i] # output[j] /\ output[i] \notin inputs[j]
          /\ output[j] \notin inputs[i]
      <4>1. NoFile \notin File
        BY DEF File, NoFile
      <4> QED
        BY <2>2, <4>1, JobFiles DEF IInv, JobsDisjoint
    <3> QED
      BY <2>2, <3>1, ReleaseFacts, JobFiles, JobFrame
  <2> QED
    BY Zenon, <2>1, <2>2
<1> QED
  BY Zenon, <1>1, <1>2

\* Deleting the inputs keeps the invariant: they become obsolete at a sequence
\* at which every version in them is shadowed.
LEMMA InvDeleteInputs ==
  ASSUME IInv, NEW j \in Job, DeleteInputBlobFiles(j)
  PROVE  IInv'
<1> DEFINE st == [f \in File |-> IF f \in inputs[j]
                                 THEN FileStateTransit(state[f], "kDelete")
                                 ELSE state[f]]
<1>1. TypeOK'
  BY Zenon, TypeGC DEF IInv, BackgroundGC
<1>2. /\ UNCHANGED <<lsm, last_sequence, flushed, recs, next_file_number, flushVars>>
      /\ gc_pc[j] = "delete" /\ logged' = next_file_number
      /\ ReleaseGcFiles(j, st)
  BY Zenon DEF DeleteInputBlobFiles, lsmVars
<1>3. \A f \in File : obsolete_sequence'[f] = IF f \in inputs[j] THEN gc_obsolete[j]
                                              ELSE obsolete_sequence[f]
  BY Zenon DEF DeleteInputBlobFiles
<1>4. /\ \A f \in inputs[j] : st[f] = "kObsolete"
      /\ \A f \in File \ inputs[j] : st[f] = state[f]
  BY Zenon, JobFiles, Transits
<1> HIDE DEF st
<1>5. /\ \A f \in inputs[j] : state[f] = "kBeingGC" /\ state'[f] = "kObsolete"
      /\ output[j] # NoFile => /\ output[j] \in File /\ output[j] \notin inputs[j]
                               /\ state[output[j]] = "kPendingGC"
                               /\ state'[output[j]] = "kNormal"
      /\ \A f \in File \ (inputs[j] \cup {output[j]}) : state'[f] = state[f]
  <2>1. output[j] # NoFile => /\ output[j] \in File /\ output[j] \notin inputs[j]
                              /\ state[output[j]] = "kPendingGC"
    BY Zenon, <1>2, JobFiles DEF IInv, JobOK
  <2> QED
    BY <1>2, <1>4, <2>1, JobFiles, ReleaseFacts, Transits
<1>6. FilesOK'
  <2> SUFFICES ASSUME NEW f \in File
               PROVE  /\ state'[f] \in {"none", "kInit", "kPendingLSM", "kNormal",
                                        "kBeingGC", "kPendingGC", "kObsolete"}
                      /\ state'[f] # "none" => f < next_file_number
    BY Zenon, <1>2 DEF FilesOK, InStorage
  <2>1. f # NoFile
    BY DEF File, NoFile
  <2>2. state[f] # "none" => f < next_file_number
    BY Zenon DEF IInv, FilesOK
  <2>3. CASE f \in inputs[j]
    BY Zenon, <1>5, <2>2, <2>3
  <2>4. CASE f = output[j]
    BY Zenon, <1>5, <2>1, <2>2, <2>4
  <2>5. CASE f \notin inputs[j] \cup {output[j]}
    BY Zenon, <1>5, <2>5 DEF IInv, FilesOK
  <2> QED
    BY Zenon, <2>3, <2>4, <2>5
<1>7. IndexesOK'
  <2> SUFFICES ASSUME NEW t \in 1..last_sequence, lsm[t].file # InLSM
               PROVE  LET f == lsm[t].file IN
                      /\ f < logged'
                      /\ state'[f] # "kInit"
                      /\ state'[f] \notin {"none", "kInit"} => Rec(t) \in recs[f]
                      /\ state'[f] = "kObsolete" => Shadowed(t, obsolete_sequence'[f])
                      /\ state'[f] = "none" => Shadowed(t, last_sequence)
    BY Zenon, <1>2 DEF IndexesOK, InStorage, Rec, Shadowed
  <2> DEFINE f == lsm[t].file
  <2>1. /\ f < logged
        /\ state[f] # "kInit"
        /\ InStorage(f) => Rec(t) \in recs[f]
        /\ state[f] = "kObsolete" => Shadowed(t, obsolete_sequence[f])
        /\ state[f] = "none" => Shadowed(t, last_sequence)
    BY Zenon DEF IInv, IndexesOK
  <2>2. f \in File /\ f # NoFile /\ f < logged'
    <3>1. f \in File /\ f # NoFile
      BY Zenon, IndexFile DEF InLSM, NoFile
    <3> QED
      BY <1>2, <2>1, <3>1, ConstantsAssumption DEF IInv, TypeOK, FileType, File
  <2>3. CASE f \in inputs[j]
    <3>1. Shadowed(t, gc_obsolete[j])
      BY Zenon, <1>2, <2>3 DEF IInv, JobOK
    <3> QED
      BY Zenon, <1>3, <1>5, <2>1, <2>2, <2>3, <3>1 DEF InStorage
  <2>4. CASE f = output[j]
    BY Zenon, <1>5, <2>1, <2>2, <2>4 DEF InStorage
  <2>5. CASE f \notin inputs[j] \cup {output[j]}
    BY Zenon, <1>3, <1>5, <2>1, <2>2, <2>5 DEF InStorage
  <2> QED
    BY Zenon, <2>3, <2>4, <2>5
<1>8. FlushOK'
  <2>1. flush_file # NoFile =>
          flush_file \in File \ (inputs[j] \cup {output[j]})
    BY Zenon, <1>5, FlushFile, JobFiles
  <2> QED
    BY Zenon, <1>2, <1>5, <2>1, FlushFrame
<1>9. JobsDisjoint' /\ \A i \in Job : JobOK(i)'
  BY Zenon, <1>2, <1>4, ReleaseJobs DEF flushVars
<1> QED
  BY Zenon, <1>1, <1>6, <1>7, <1>8, <1>9 DEF IInv

\* A job that fails keeps the invariant.
LEMMA InvFails ==
  ASSUME IInv, NEW j \in Job, GCFails(j)
  PROVE  IInv'
<1>1. TypeOK'
  BY Zenon, TypeGC DEF IInv, BackgroundGC
<1>2. /\ UNCHANGED <<lsm, last_sequence, flushed, recs, obsolete_sequence,
                     next_file_number, logged, flushVars>>
      /\ ReleaseGcFiles(j, state)
  BY Zenon DEF GCFails, lsmVars
<1>3. \A f \in File :
        \/ state'[f] = state[f]
        \/ state[f] \in {"kBeingGC", "kPendingGC"} /\ state'[f] = "kNormal"
  <2> SUFFICES ASSUME NEW f \in File
               PROVE  \/ state'[f] = state[f]
                      \/ state[f] \in {"kBeingGC", "kPendingGC"} /\ state'[f] = "kNormal"
    BY Zenon
  <2>1. CASE f \in inputs[j]
    <3>1. state[f] = "kBeingGC"
      BY Zenon, <2>1, JobFiles
    <3>2. ReleaseGcFiles(j, state)
      BY Zenon, <1>2
    <3>3. \A g \in inputs[j] : state'[g] = FileStateTransit(state[g], "kGCCompleted")
      BY <3>2, ReleaseFacts
    <3> QED
      BY Zenon, <2>1, <3>1, <3>3, Transits
  <2>2. CASE f = output[j]
    <3>1. f # NoFile
      BY DEF File, NoFile
    <3>2. /\ output[j] # NoFile /\ state[output[j]] = "kPendingGC" =>
               state'[output[j]] = FileStateTransit(state[output[j]], "kGCCompleted")
          /\ output[j] # NoFile /\ state[output[j]] = "kInit" =>
               state'[output[j]] = state[output[j]]
      BY <1>2, ReleaseFacts
    <3>3. state[f] \in {"kInit", "kPendingGC"}
      BY Zenon, <2>2, <3>1, JobFiles
    <3> QED
      BY Zenon, <2>2, <3>1, <3>2, <3>3, Transits
  <2>3. CASE f \notin inputs[j] \cup {output[j]}
    BY <1>2, <2>3, ReleaseFacts
  <2> QED
    BY Zenon, <2>1, <2>2, <2>3
<1>4. FilesOK'
  BY Zenon, <1>2, <1>3 DEF IInv, FilesOK, InStorage
<1>5. IndexesOK'
  <2>1. logged <= logged'
    BY <1>2, ConstantsAssumption DEF IInv, TypeOK, FileType
  <2>2. \A t \in 1..last_sequence : lsm[t].file # InLSM =>
          LET f == lsm[t].file IN
          /\ recs'[f] = recs[f]
          /\ \/ state'[f] = state[f]
             \/ state[f] \in {"kBeingGC", "kPendingGC"} /\ state'[f] = "kNormal"
    BY Zenon, <1>2, <1>3, IndexFile
  <2> QED
    BY Zenon, <1>1, <1>2, <2>1, <2>2, StateIndexes
<1>6. FlushOK'
  BY Zenon, <1>2, <1>3, FlushFile, FlushFrame
<1>7. JobsDisjoint' /\ \A i \in Job : JobOK(i)'
  BY Zenon, <1>2, ReleaseJobs DEF flushVars
<1> QED
  BY Zenon, <1>1, <1>4, <1>5, <1>6, <1>7 DEF IInv

-----------------------------------------------------------------------------
(* The purge, reads and restarts; the theorems                             *)

\* The purge keeps the invariant: it only removes files in which every version
\* is shadowed.
LEMMA InvPurge ==
  IInv /\ (GetOldestSnapshotSequence \/ GetObsoleteFiles) => IInv'
<1>1. ASSUME IInv, GetOldestSnapshotSequence PROVE IInv'
  BY Zenon, <1>1, TypePurge, InvKept DEF GetOldestSnapshotSequence, IInv
<1>2. ASSUME IInv, GetObsoleteFiles PROVE IInv'
  <2>1. TypeOK'
    BY Zenon, <1>2, TypePurge DEF IInv
  <2>2. UNCHANGED <<lsm, last_sequence, flushed, next_file_number, logged,
                    flushVars, gcVars>>
    BY Zenon, <1>2 DEF GetObsoleteFiles, lsmVars
  <2>3. \A f \in File :
          \/ state[f] = "kObsolete" /\ state'[f] = "none"
          \/ UNCHANGED <<state[f], recs[f], obsolete_sequence[f]>>
    BY Zenon, <1>2 DEF GetObsoleteFiles, Removable
  <2>4. FilesOK'
    BY Zenon, <1>2, <2>2, <2>3 DEF IInv, FilesOK, InStorage
  <2>5. IndexesOK'
    <3> SUFFICES ASSUME NEW t \in 1..last_sequence, lsm[t].file # InLSM
                 PROVE  LET f == lsm[t].file IN
                        /\ f < logged
                        /\ state'[f] # "kInit"
                        /\ state'[f] \notin {"none", "kInit"} => Rec(t) \in recs'[f]
                        /\ state'[f] = "kObsolete" =>
                             Shadowed(t, obsolete_sequence'[f])
                        /\ state'[f] = "none" => Shadowed(t, last_sequence)
      BY Zenon, <2>2 DEF IndexesOK, InStorage, Rec, Shadowed
    <3> DEFINE f == lsm[t].file
    <3>1. /\ f < logged
          /\ state[f] # "kInit"
          /\ InStorage(f) => Rec(t) \in recs[f]
          /\ state[f] = "kObsolete" => Shadowed(t, obsolete_sequence[f])
          /\ state[f] = "none" => Shadowed(t, last_sequence)
      BY Zenon, <1>2 DEF IInv, IndexesOK
    <3>2. f \in File
      BY Zenon, <1>2, IndexFile
    <3>3. ASSUME Shadowed(t, obsolete_sequence[f]) PROVE Shadowed(t, last_sequence)
      <4>1. obsolete_sequence[f] \in 0..last_sequence /\ last_sequence \in Nat
        BY <1>2, <3>2, ConstantsAssumption DEF IInv, TypeOK, FileType, LSMType
      <4> QED
        BY <3>3, <4>1 DEF Shadowed
    <3> QED
      BY Zenon, <2>3, <3>1, <3>2, <3>3 DEF InStorage
  <2>6. FlushOK'
    BY Zenon, <1>2, <2>2, <2>3, FlushFile, FlushFrame
  <2>7. ASSUME NEW j \in Job PROVE JobOK(j)'
    BY Zenon, <1>2, <2>2, <2>3, JobFiles, JobFrame DEF gcVars, flushVars
  <2>8. JobsDisjoint'
    BY Zenon, <1>2, <2>2 DEF IInv, JobsDisjoint, gcVars
  <2> QED
    BY Zenon, <2>1, <2>4, <2>5, <2>6, <2>7, <2>8 DEF IInv
<1> QED
  BY Zenon, <1>1, <1>2

\* Recovery keeps the invariant when the base DB loses no write.
LEMMA InvRestart ==
  ASSUME IInv, "powerloss" \notin Faults, NEW n \in 0..MaxSeq, Restart(n)
  PROVE  IInv'
<1>1. TypeOK'
  BY Zenon, TypeRestart DEF IInv
<1>2. /\ n = last_sequence /\ last_sequence' = last_sequence
      /\ logged' = logged + 1 /\ next_file_number' = logged + 1
  BY Zenon DEF Restart
<1>3. \A t \in 1..last_sequence : lsm'[t] = lsm[t]
  <2>1. lsm' = [t \in SeqNo |-> IF t <= n THEN lsm[t] ELSE NoVersion]
    BY Zenon DEF Restart
  <2>2. \A t \in 1..last_sequence : t \in SeqNo /\ t <= n
    BY <1>2, ConstantsAssumption DEF SeqNo
  <2> QED
    BY Zenon, <2>1, <2>2
<1>4. \A f \in File :
        \/ /\ InStorage(f) /\ state[f] # "kObsolete"
           /\ state'[f] = "kNormal" /\ recs'[f] = recs[f]
        \/ /\ state[f] \in {"none", "kInit", "kObsolete"}
           /\ state'[f] = "none"
  BY Zenon, Transits DEF Restart, Recovered, InStorage
<1>5. logged \in Nat
  BY DEF IInv, TypeOK, FileType
<1>6. FilesOK'
  <2> SUFFICES ASSUME NEW f \in File
               PROVE  /\ state'[f] \in {"none", "kNormal"}
                      /\ state'[f] = "kNormal" => f < logged + 1
    BY Zenon, <1>2 DEF FilesOK, InStorage
  <2> QED
    BY <1>4, <1>5 DEF IInv, FilesOK, File
<1>7. IndexesOK'
  <2> SUFFICES ASSUME NEW t \in 1..last_sequence, lsm[t].file # InLSM
               PROVE  LET f == lsm[t].file IN
                      /\ f < logged'
                      /\ state'[f] \notin {"kInit", "kObsolete"}
                      /\ state'[f] \notin {"none", "kInit"} => Rec(t) \in recs'[f]
                      /\ state'[f] = "none" =>
                           \E u \in (t + 1)..last_sequence : lsm'[u].key = lsm'[t].key
    BY Zenon, <1>2, <1>3 DEF IndexesOK, InStorage, Rec, Shadowed
  <2> DEFINE f == lsm[t].file
  <2>1. /\ f < logged
        /\ state[f] # "kInit"
        /\ InStorage(f) => Rec(t) \in recs[f]
        /\ state[f] = "kObsolete" => Shadowed(t, obsolete_sequence[f])
        /\ state[f] = "none" => Shadowed(t, last_sequence)
    BY Zenon DEF IInv, IndexesOK
  <2>2. f \in File /\ f \in Nat
    BY IndexFile DEF File
  <2>3. obsolete_sequence[f] \in 0..last_sequence /\ last_sequence \in Nat
    BY <2>2, ConstantsAssumption DEF IInv, TypeOK, FileType, LSMType
  <2>4. state'[f] = "none" => \E u \in (t + 1)..last_sequence : lsm[u].key = lsm[t].key
    BY <1>4, <2>1, <2>2, <2>3 DEF Shadowed, InStorage
  <2>5. \A u \in (t + 1)..last_sequence : lsm'[u].key = lsm[u].key
    BY <1>3, <2>3
  <2> QED
    BY <1>2, <1>3, <1>4, <1>5, <2>1, <2>2, <2>4, <2>5 DEF InStorage
<1>8. FlushOK'
  BY Zenon DEF Restart, FlushOK
<1>9. ASSUME NEW j \in Job PROVE JobOK(j)'
  BY DEF Restart, JobOK
<1>10. JobsDisjoint'
  BY Zenon DEF Restart, JobsDisjoint
<1> QED
  BY Zenon, <1>1, <1>6, <1>7, <1>8, <1>9, <1>10 DEF IInv

\* Every step keeps the invariant when GC outputs finish and no write is lost.
LEMMA InvStep ==
  ASSUME Faults \cap {"finish", "powerloss"} = {}
  PROVE  IInv /\ [Next]_vars => IInv'
<1> SUFFICES ASSUME IInv, [Next]_vars PROVE IInv'
  BY Zenon
<1>1. CASE UNCHANGED vars
  <2>1. TypeOK'
    BY Zenon, <1>1, TypeStep DEF IInv
  <2>2. UNCHANGED <<lsmVars, fileVars, flushVars, gcVars>>
    BY Zenon, <1>1 DEF vars
  <2> QED
    BY Zenon, <2>1, <2>2, InvKept
<1>2. ASSUME NEW j \in Job, BackgroundGC(j) PROVE IInv'
  <2>1. ~InstallOutputBuilderFails(j)
    BY Zenon DEF InstallOutputBuilderFails
  <2> QED
    BY Zenon, <1>2, <2>1, InvPick, InvDiscard, InvRewrite, InvInstall,
       InvRewriteLSM,
       InvReadObsolete, InvDeleteInputs, InvFails
       DEF BackgroundGC
<1>3. ASSUME NEW n \in 0..MaxSeq, Restart(n) PROVE IInv'
  BY Zenon, <1>3, InvRestart
<1> QED
  BY Zenon, <1>1, <1>2, <1>3, InvUser, InvFlush, InvPurge DEF Next

\* Flush, GC, purge and restart keep the ownership of files and the coverage of
\* versions that IInv states, for any number of keys, readers and GC jobs.
THEOREM InvCorrect ==
  ASSUME Faults \cap {"finish", "powerloss"} = {}
  PROVE  Spec => []IInv
BY InvInit, InvStep, PTL DEF Spec

-----------------------------------------------------------------------------
(* What follows from the invariant.                                        *)

\* A version that is the latest of its key can be read: neither a concurrent
\* GC, nor the purge, nor a restart takes its record away (GetImpl,
\* BlobGCJob, PurgeObsoleteFilesImpl, BlobFileSet::Recover).
THEOREM LatestReadable ==
  ASSUME Faults \cap {"finish", "powerloss"} = {}
  PROVE  Spec => []LatestResolves
<1>1. IInv => LatestResolves
  <2> SUFFICES ASSUME IInv, NEW t \in 1..last_sequence,
                      VisibleAt(t, last_sequence), lsm[t].file # InLSM
               PROVE  /\ InStorage(lsm[t].file)
                      /\ <<lsm[t].key, lsm[t].orig>> \in recs[lsm[t].file]
    BY Zenon DEF LatestResolves, Resolves
  <2> QED
    BY Zenon DEF IInv, IndexesOK, VisibleAt, InStorage, Rec
<1> QED
  BY <1>1, InvCorrect, PTL

\* No assertion of FileStateTransit ever fails: every event reaches a file in a
\* state it is meant for.
THEOREM TransitionsLegal ==
  ASSUME Faults \cap {"finish", "powerloss"} = {}
  PROVE  Spec => []AssertsHold
<1>1. IInv => AssertsHold
  BY Zenon DEF IInv, FilesOK, AssertsHold, kAssertFailed
<1> QED
  BY <1>1, InvCorrect, PTL

\* No number that a version in the LSM names is handed out again, although a
\* restart hands out again the numbers not yet in the manifest.
THEOREM NumbersNotReused ==
  ASSUME Faults \cap {"finish", "powerloss"} = {}
  PROVE  Spec => FileNumbersNotReused
<1> DEFINE A == \A f \in File : state[f] # "kInit" /\ state'[f] = "kInit"
                  => \A t \in 1..last_sequence : lsm[t].file # f
<1>1. IInv /\ [Next]_vars => [A]_vars
  <2> SUFFICES ASSUME IInv, Next, NEW f \in File,
                      state[f] # "kInit", state'[f] = "kInit"
               PROVE  \A t \in 1..last_sequence : lsm[t].file # f
    BY Zenon
  <2>1. \A st : \A ev \in {"kFlushCompleted", "kGCCompleted", "kGCBegin", "kGCOutput",
                          "kFlushOrCompactionOutput", "kDelete"} :
          FileStateTransit(st, ev) = "kInit" => st = "kInit"
    BY DEF FileStateTransit, FileStateAssert, kAssertFailed
  <2>2. CASE f = next_file_number
    BY Zenon, <2>2, FreshFile
  <2>3. CASE f # next_file_number
    <3>1. CASE User \/ GetOldestSnapshotSequence
      BY Zenon, <3>1
         DEF User, Put, Delete, GetSnapshot, ReleaseSnapshot, fileVars,
                  GetOldestSnapshotSequence
    <3>2. CASE Flush
      <4>1. ~FlushBuild
        BY Zenon, <2>3 DEF FlushBuild, NewFile, IInv, TypeOK, FileType
      <4>2. CASE FlushFinish
        BY Zenon, <2>1, <4>2 DEF FlushFinish, IInv, TypeOK, FileType
      <4>3. CASE OnFlushCompleted
        BY Zenon, <2>1, <4>3 DEF OnFlushCompleted
      <4> QED
        BY Zenon, <3>2, <4>1, <4>2, <4>3
           DEF Flush, FlushFinishFails, FlushInstall, FlushInstallFails, fileVars
    <3>3. ASSUME NEW j \in Job, BackgroundGC(j) PROVE FALSE
      <4>1. ASSUME NEW fs \in SUBSET File, PickBlobGC(j, fs) PROVE FALSE
        BY Zenon, <2>1, <4>1 DEF PickBlobGC
      <4>2. f # output[j] \/ gc_pc[j] # "run"
        BY <3>3 DEF IInv, JobOK, File, NoFile
      <4>3. ~InstallOutputBlobFiles(j)
        BY <2>1 DEF InstallOutputBlobFiles
      <4>4. ASSUME RunGCRewrite(j) PROVE FALSE
        <5>1. PICK g \in File : /\ g = next_file_number \/ output[j] = g
                               /\ state' = [state EXCEPT ![g] = "kInit"]
          BY Zenon, <4>4 DEF RunGCRewrite, NewFile
        <5>2. g # f
          BY Zenon, <2>3, <4>2, <4>4, <5>1 DEF RunGCRewrite
        <5> QED
          BY Zenon, <5>1, <5>2 DEF IInv, TypeOK, FileType
      <4>5. ~DeleteInputBlobFiles(j)
        BY <2>1 DEF DeleteInputBlobFiles, ReleaseGcFiles
      <4>6. ~GCFails(j)
        BY <2>1 DEF GCFails, ReleaseGcFiles
      <4> QED
        BY Zenon, <3>3, <4>1, <4>3, <4>4, <4>5, <4>6
           DEF BackgroundGC, RunGCDiscard, InstallOutputBuilderFails,
               RewriteValidKeyToLSM, ReadObsoleteSequence, fileVars
    <3>4. ~GetObsoleteFiles
      BY Zenon DEF GetObsoleteFiles
    <3>5. ASSUME NEW n \in 0..MaxSeq, Restart(n) PROVE FALSE
      BY Zenon, <3>5, Transits DEF Restart
    <3> QED
      BY Zenon, <3>1, <3>2, <3>3, <3>4, <3>5 DEF Next
  <2> QED
    BY Zenon, <2>2, <2>3
<1> QED
  BY <1>1, InvCorrect, PTL DEF Spec, FileNumbersNotReused

\* Only the purge and a restart make a file of the storage disappear.
LEMMA FilesStay ==
  ASSUME IInv, Next, Faults \cap {"finish", "powerloss"} = {},
         NEW f \in File, InStorage(f), state'[f] = "none"
  PROVE  GetObsoleteFiles \/ \E n \in 0..MaxSeq : Restart(n)
<1>1. state[f] # "none" /\ state \in [File -> AnyState]
  BY Zenon DEF InStorage, IInv, TypeOK, FileType
<1>2. \A st : \A ev \in {"kFlushCompleted", "kGCCompleted", "kGCBegin", "kGCOutput",
                         "kFlushOrCompactionOutput", "kDelete"} :
        FileStateTransit(st, ev) = "none" => st = "none"
  BY DEF FileStateTransit, FileStateAssert, kAssertFailed
<1>3. ~User /\ ~GetOldestSnapshotSequence
  BY Zenon, <1>1 DEF User, Put, Delete, GetSnapshot, ReleaseSnapshot, fileVars,
              GetOldestSnapshotSequence
<1>4. ~Flush
  <2>1. ~FlushBuild
    BY Zenon, <1>1 DEF FlushBuild
  <2>2. ~FlushFinish
    BY Zenon, <1>1, <1>2 DEF FlushFinish
  <2>3. ~OnFlushCompleted
    BY <1>1, <1>2 DEF OnFlushCompleted
  <2> QED
    BY Zenon, <1>1, <2>1, <2>2, <2>3
       DEF Flush, FlushFinishFails, FlushInstall, FlushInstallFails, fileVars
<1>5. ASSUME NEW j \in Job, BackgroundGC(j) PROVE FALSE
  <2>1. ASSUME NEW fs \in SUBSET File, PickBlobGC(j, fs) PROVE FALSE
    BY Zenon, <1>1, <1>2, <2>1 DEF PickBlobGC
  <2>2. ~RunGCRewrite(j)
    BY Zenon, <1>1 DEF RunGCRewrite
  <2>3. ~InstallOutputBlobFiles(j)
    BY <1>1, <1>2 DEF InstallOutputBlobFiles
  <2>4. ~DeleteInputBlobFiles(j)
    BY <1>1, <1>2 DEF DeleteInputBlobFiles, ReleaseGcFiles
  <2>5. ~GCFails(j)
    BY <1>1, <1>2 DEF GCFails, ReleaseGcFiles
  <2> QED
    BY Zenon, <1>1, <1>5, <2>1, <2>2, <2>3, <2>4, <2>5
       DEF BackgroundGC, RunGCDiscard, InstallOutputBuilderFails,
           RewriteValidKeyToLSM, ReadObsoleteSequence, fileVars
<1> QED
  BY Zenon, <1>3, <1>4, <1>5 DEF Next

\* A snapshot that is held keeps every version it can read, unless a purge
\* under way read the oldest snapshot before this one was taken
\* (PurgeObsoleteFilesImpl, BlobStorage::GetObsoleteFiles, DeleteInputBlobFiles).
THEOREM SnapshotsKept ==
  ASSUME Faults \cap {"finish", "powerloss"} = {}
  PROVE  Spec => SnapshotStaysReadable
<1> DEFINE A == \A r \in Reader, t \in SeqNo :
                  /\ snapshot[r] # kMaxSequenceNumber
                  /\ snapshot'[r] = snapshot[r]
                  /\ VisibleAt(t, snapshot[r])
                  /\ Resolves(t)
                  /\ ~Resolves(t)'
                  => purge_pc = "purge" /\ oldest_sequence > snapshot[r]
<1>1. IInv /\ [Next]_vars /\ IInv' => [A]_vars
  <2> SUFFICES ASSUME IInv, Next, IInv', NEW r \in Reader, NEW t \in SeqNo,
                      snapshot[r] # kMaxSequenceNumber,
                      snapshot'[r] = snapshot[r],
                      VisibleAt(t, snapshot[r]), Resolves(t), ~Resolves(t)'
               PROVE  purge_pc = "purge" /\ oldest_sequence > snapshot[r]
    BY Zenon
  <2>1. snapshot[r] \in 0..last_sequence
    BY Zenon DEF IInv, TypeOK, PurgeType
  <2>2. t \in 1..last_sequence /\ last_sequence \in Nat
    BY <2>1, ConstantsAssumption DEF VisibleAt, IInv, TypeOK, LSMType
  <2>3. \A n \in 0..MaxSeq : ~Restart(n)
    BY Zenon DEF Restart
  <2>4. t \in 1..last_sequence'
    <3>1. ASSUME NEW v, WriteLSM(v) PROVE last_sequence' = last_sequence + 1
      BY Zenon, <3>1 DEF WriteLSM
    <3>2. UNCHANGED last_sequence \/ last_sequence' = last_sequence + 1
      BY Zenon, <2>3, <3>1
         DEF Next, User, Put, Delete, GetSnapshot, ReleaseSnapshot,
         Flush, FlushBuild, FlushFinish, FlushFinishFails, FlushInstall,
         FlushInstallFails, OnFlushCompleted, BackgroundGC, PickBlobGC,
         RunGCDiscard, RunGCRewrite, InstallOutputBlobFiles,
         InstallOutputBuilderFails, RewriteValidKeyToLSM, ReadObsoleteSequence,
         DeleteInputBlobFiles, GCFails, GetOldestSnapshotSequence,
         GetObsoleteFiles, lsmVars
    <3> QED
      BY <2>2, <3>2
  <2>5. lsm'[t].file # InLSM /\ state'[lsm'[t].file] = "none"
    BY Zenon, <2>4 DEF Resolves, IInv, IndexesOK, InStorage, Rec
  <2>6. lsm'[t].file \in File
    BY <2>4, <2>5, ConstantsAssumption
       DEF IInv, TypeOK, LSMType, Version, InLSM, File
  <2>7. lsm'[t].file = lsm[t].file \/ state'[lsm'[t].file] = "kPendingLSM"
    <3>1. CASE FlushInstall
      <4>1. lsm'[t] = IF t \in Values(flush_kept)
                      THEN [lsm[t] EXCEPT !.file = flush_file] ELSE lsm[t]
        BY Zenon, <3>1 DEF FlushInstall
      <4>2. lsm[t] \in Version
        BY <2>2 DEF IInv, TypeOK, LSMType
      <4>3. CASE t \in Values(flush_kept)
        BY Zenon, <3>1, <4>1, <4>2, <4>3
           DEF FlushInstall, IInv, FlushOK, Version, fileVars
      <4> QED
        BY Zenon, <4>1, <4>3
    <3>2. CASE ~FlushInstall
      <4>1. ASSUME NEW v, WriteLSM(v) PROVE lsm'[t] = lsm[t]
        BY <2>2, <4>1, ConstantsAssumption DEF WriteLSM, IInv, TypeOK, LSMType
      <4> QED
        BY Zenon, <2>3, <3>2, <4>1 DEF Next, User, Put, Delete, GetSnapshot,
         ReleaseSnapshot, Flush, FlushBuild, FlushFinish, FlushFinishFails,
         FlushInstallFails, OnFlushCompleted, BackgroundGC, PickBlobGC,
         RunGCDiscard, RunGCRewrite, InstallOutputBlobFiles,
         InstallOutputBuilderFails, RewriteValidKeyToLSM, ReadObsoleteSequence,
         DeleteInputBlobFiles, GCFails, GetOldestSnapshotSequence,
         GetObsoleteFiles, lsmVars
    <3> QED
      BY Zenon, <3>1, <3>2
  <2> DEFINE f == lsm[t].file
  <2>8. /\ f \in File /\ f # InLSM /\ InStorage(f)
        /\ state'[f] = "none"
    BY Zenon, <2>5, <2>6, <2>7 DEF Resolves
  <2>9. GetObsoleteFiles
    BY Zenon, <2>3, <2>8, FilesStay
  <2>10. Removable(f)
    BY Zenon, <2>8, <2>9 DEF GetObsoleteFiles, InStorage
  <2>11. Shadowed(t, obsolete_sequence[f])
    BY Zenon, <2>2, <2>8, <2>10 DEF IInv, IndexesOK, Removable
  <2>12. /\ obsolete_sequence[f] \in 0..last_sequence
         /\ oldest_sequence \in Nat
    BY <2>8, ConstantsAssumption
       DEF IInv, TypeOK, FileType, PurgeType, kMaxSequenceNumber
  <2>13. snapshot[r] < obsolete_sequence[f]
    BY <2>1, <2>2, <2>11, <2>12 DEF VisibleAt, Shadowed
  <2> QED
    BY <2>1, <2>9, <2>10, <2>12, <2>13 DEF GetObsoleteFiles, Removable
<1> QED
  BY <1>1, InvCorrect, PTL DEF Spec, SnapshotStaysReadable

=============================================================================
