------------------------------- MODULE GCMerge -------------------------------
(***************************************************************************)
(* BlobGCJob::Run on its input files (src/src/blob_gc_job.cc): the merge   *)
(* iterator over them (blob_file_iterator.cc), the loop of DoRunGC that     *)
(* drops or rewrites each record, and its output files.  A record is its   *)
(* input file and its place there; what the LSM still refers to is given   *)
(* (TitanDB models how it changes while the loop runs).                    *)
(***************************************************************************)
EXTENDS Naturals, Sequences, FiniteSets, SequencesExt

CONSTANTS
  Input,          \* the candidate files
  GCKey,          \* keys, in the order of the comparator
  MaxLen,         \* bound on the records of an input
  TargetSize,     \* blob_file_target_size; a record counts 1 or 2
  GCFaults        \* "open", "read", "lsm", "create", "shutdown"

VARIABLES
  contents,       \* keys of the records of each input
  live,           \* records the LSM refers to
  pos, istatus,   \* of each BlobFileIterator: next record read, status_
  min_heap, current, merge_status,      \* BlobFileMergeIterator
  outputs,        \* blob_file_builders_, each the sequence of its records
  output,         \* blob_file_builder, <<>> before its first record
  opened,         \* blob_file_handle is set
  out_size,       \* file_size
  gc_pc, gc_status

gcConst == <<contents, live>>
iterVars == <<pos, istatus, min_heap, current, merge_status>>
outVars == <<outputs, output, opened, out_size>>
vars == <<gcConst, iterVars, outVars, gc_pc, gc_status>>

NoIter == "none"
Records == {<<i, n>> : i \in Input, n \in 1..MaxLen}
Existing == {r \in Records : r[2] <= Len(contents[r[1]])}
KeyOf(r) == contents[r[1]][r[2]]
Size(r) == 1 + (r[2] % 2)
Sorted(s) == \A a, b \in DOMAIN s : a < b => s[a] <= s[b]

\* Blob files written by a flush or by GC are in key order.
Init ==
  /\ contents \in [Input -> {s \in BoundedSeq(GCKey, MaxLen) : s /= <<>> /\ Sorted(s)}]
  /\ live \in SUBSET Existing
  /\ pos = [i \in Input |-> 0] /\ istatus = [i \in Input |-> "ok"]
  /\ min_heap = {} /\ current = NoIter /\ merge_status = "ok"
  /\ outputs = <<>> /\ output = <<>> /\ opened = FALSE /\ out_size = 0
  /\ gc_pc = "build" /\ gc_status = "ok"

Return(s) == gc_pc' = "done" /\ gc_status' = s

\* Run: SampleCandidateFiles takes every input; BuildIterator opens them all.
BuildIterator ==
  /\ gc_pc = "build"
  /\ \/ gc_pc' = "seek" /\ UNCHANGED gc_status
     \/ "open" \in GCFaults /\ Return("error")
  /\ UNCHANGED <<gcConst, iterVars, outVars>>

\* Mutant: the queue gives the iterators back in any order.
AnyOf(heap, p) == heap

\* The iterators in heap that may be its top: any of those with the least key.
Tops(heap, p) ==
  {i \in heap : \A j \in heap : contents[i][p[i]] <= contents[j][p[j]]}

\* min_heap_.top() and pop(), or no iterator is left.
TakeTop(heap, p) ==
  IF heap = {} THEN current' = NoIter /\ min_heap' = {}
  ELSE \E i \in Tops(heap, p) : current' = i /\ min_heap' = heap \ {i}

\* SeekToFirst of all the iterators; the ones that fail are left out.
SeekToFirst ==
  /\ gc_pc = "seek"
  /\ \E failed \in IF "read" \in GCFaults THEN SUBSET Input ELSE {{}} :
       /\ istatus' = [i \in Input |-> IF i \in failed THEN "error" ELSE "ok"]
       /\ pos' = [i \in Input |-> IF i \in failed THEN 0 ELSE 1]
       /\ TakeTop(Input \ failed, pos')
       /\ merge_status' = IF failed = Input THEN "aborted" ELSE "ok"
  /\ gc_pc' = "loop"
  /\ UNCHANGED <<gcConst, outVars, gc_status>>

\* Mutant: an iterator ends before its last record.
HasMore(i, p) == p < Len(contents[i])

\* current_->Valid() once it has moved to p
IterValid(i, p) == p <= Len(contents[i])

\* BlobFileMergeIterator::Next: an iterator that fails is left out like one
\* that has ended.
MergeNext ==
  LET i == current IN
  /\ \/ /\ pos' = [pos EXCEPT ![i] = @ + 1] /\ UNCHANGED istatus
        /\ TakeTop(IF IterValid(i, pos[i] + 1) THEN min_heap \cup {i} ELSE min_heap, pos')
     \/ /\ "read" \in GCFaults /\ IterValid(i, pos[i] + 1)
        /\ istatus' = [istatus EXCEPT ![i] = "error"] /\ UNCHANGED pos
        /\ TakeTop(min_heap, pos)
  /\ UNCHANGED merge_status

Valid == current /= NoIter /\ merge_status = "ok"

\* The loop ends early; the output that is being written is dropped.
Break ==
  /\ gc_pc = "loop" /\ Valid
  /\ \/ "shutdown" \in GCFaults /\ Return("shutdown")
     \/ "lsm" \in GCFaults /\ Return("error")
  /\ UNCHANGED <<gcConst, iterVars, outVars>>

\* DiscardEntry: the LSM refers to something else.
Discard ==
  /\ gc_pc = "loop" /\ Valid /\ <<current, pos[current]>> \notin live
  /\ MergeNext
  /\ UNCHANGED <<gcConst, outVars, gc_pc, gc_status>>

\* Mutant: the size of the output is carried over to the next one.
FullAfter(size, fresh) == out_size + size

SizeAfter(size, fresh) == IF fresh THEN size ELSE out_size + size

\* The record goes to the output, a new one if there is none or it is full.
Rewrite ==
  LET r == <<current, pos[current]>>
      full  == out_size >= TargetSize
      fresh == ~opened \/ full IN
  /\ gc_pc = "loop" /\ Valid /\ r \in live
  /\ outputs' = IF full THEN Append(outputs, output) ELSE outputs
  /\ \/ /\ output' = IF fresh THEN <<r>> ELSE Append(output, r)
        /\ out_size' = SizeAfter(Size(r), fresh)
        /\ opened' = TRUE
        /\ MergeNext /\ UNCHANGED <<gc_pc, gc_status>>
     \/ /\ fresh /\ "create" \in GCFaults
        /\ output' = <<>> /\ opened' = FALSE
        /\ Return("error") /\ UNCHANGED <<iterVars, out_size>>
  /\ UNCHANGED gcConst

\* The loop is over: the last output joins the others.
EndLoop ==
  /\ gc_pc = "loop" /\ ~Valid
  /\ IF merge_status = "ok"
     THEN /\ outputs' = IF opened THEN Append(outputs, output) ELSE outputs
          /\ Return("ok")
     ELSE Return(merge_status) /\ UNCHANGED outputs
  /\ UNCHANGED <<gcConst, iterVars, output, opened, out_size>>

Next ==
  \/ BuildIterator
  \/ SeekToFirst
  \/ Break
  \/ Discard
  \/ Rewrite
  \/ EndLoop

Spec == Init /\ [][Next]_vars
-----------------------------------------------------------------------------
Written == FlattenSeq(outputs)
SizeOf(s) == FoldSeq(LAMBDA r, n : n + Size(r), 0, s)
Finished == gc_pc = "done" /\ gc_status = "ok"

\* A DoRunGC that returns OK has rewritten every record the LSM refers to,
\* each once: after it the inputs are deleted.  A read of an input that fails
\* is the exception: BlobFileMergeIterator takes it for the end of the input.
RewritesAllLive ==
  Finished /\ (\A i \in Input : istatus[i] = "ok") => Len(Written) = Cardinality(live) /\ ToSet(Written) = live

\* From inputs in key order DoRunGC writes outputs in key order, each output
\* behind the one before: "The keys added into blob files are in order"
\* (blob_file_builder.cc).
OutputsInOrder ==
  Sorted([n \in DOMAIN Written |-> KeyOf(Written[n])])

\* Every output but the last has reached blob_file_target_size, and none is
\* more than one record above it.
OutputsFilled ==
  Finished =>
    /\ \A n \in 1..Len(outputs) - 1 : SizeOf(outputs[n]) >= TargetSize
    /\ \A n \in DOMAIN outputs : SizeOf(outputs[n]) < TargetSize + 2

=============================================================================
