----------------------------- MODULE SortedRuns -----------------------------
(***************************************************************************)
(* TitanDBImpl::MarkFileIfNeedMerge (src/src/db_impl.cc): the two ends of   *)
(* every blob file are sorted, and one scan marks the files that overlap   *)
(* more than max_sorted_runs files.  The scan is one step for each end.    *)
(***************************************************************************)
EXTENDS Naturals, Sequences, FiniteSets, SequencesExt

CONSTANTS NumFiles, NumKeys, MaxSortedRuns

File == 1..NumFiles
Key  == 1..NumKeys
End  == File \X BOOLEAN          \* a file, and whether this is its smallest end

VARIABLES
  smallest, largest,             \* the range of each file
  blob_ends,                     \* sorted, once sorted is TRUE
  sorted, i,
  cur_add, cur_remove, tmp,      \* tmp[f]: cur_remove when f began, or NoRecord
  marked, missed                 \* missed: "maybe bug in mark range merge"

vars == <<smallest, largest, blob_ends, sorted, i, cur_add, cur_remove, tmp,
          marked, missed>>

NoRecord == 2 * NumFiles + 1

EndKey(e) == IF e[2] THEN smallest[e[1]] ELSE largest[e[1]]

\* blob_ends_cmp: end d goes before end e.
blob_ends_cmp(d, e) ==
  \/ EndKey(d) < EndKey(e)
  \/ /\ EndKey(d) = EndKey(e)
     /\ IF d[1] = e[1] THEN d[2] ELSE ~d[2] /\ e[2]

Init ==
  /\ smallest \in [File -> Key] /\ largest \in [File -> Key]
  /\ \A f \in File : smallest[f] <= largest[f]
  /\ blob_ends = <<>> /\ sorted = FALSE /\ i = 1
  /\ cur_add = 0 /\ cur_remove = 0 /\ tmp = [f \in File |-> NoRecord]
  /\ marked = {} /\ missed = {}

\* std::sort leaves no two neighbours in the wrong order; where the comparator
\* is not an order that is all that is known of the result.
Sort ==
  /\ ~sorted /\ sorted' = TRUE
  /\ blob_ends' \in {s \in SetToSeqs(End) :
       \A j \in 1..Len(s) - 1 : ~blob_ends_cmp(s[j + 1], s[j])}
  /\ UNCHANGED <<smallest, largest, i, cur_add, cur_remove, tmp, marked, missed>>

\* Mutant: files that ended before this one began are not taken off.
RunsSinceStart(f) == cur_add

\* cur_add - record->second: the files begun so far without those that had
\* ended when f began.
Runs(f) == cur_add - tmp[f]

Begin(f) ==
  /\ cur_add' = cur_add + 1
  /\ tmp' = [tmp EXCEPT ![f] = cur_remove]
  /\ UNCHANGED <<cur_remove, marked, missed>>

Finish(f) ==
  /\ cur_remove' = cur_remove + 1
  /\ IF tmp[f] = NoRecord
       THEN missed' = missed \cup {f} /\ UNCHANGED marked
       ELSE /\ marked' = IF Runs(f) > MaxSortedRuns THEN marked \cup {f} ELSE marked
            /\ UNCHANGED missed
  /\ UNCHANGED <<cur_add, tmp>>

Scan ==
  /\ sorted /\ i <= Len(blob_ends)
  /\ IF blob_ends[i][2] THEN Begin(blob_ends[i][1]) ELSE Finish(blob_ends[i][1])
  /\ i' = i + 1
  /\ UNCHANGED <<smallest, largest, blob_ends, sorted>>

Done == sorted /\ i > Len(blob_ends)

Next == Sort \/ Scan \/ (Done /\ UNCHANGED vars)

Spec == Init /\ [][Next]_vars

-----------------------------------------------------------------------------
(* Properties                                                              *)

\* No file with a single key has that key in common with an end of another:
\* where this fails blob_ends_cmp is not an order.
Ordered ==
  \A f, g \in File :
    f # g /\ smallest[f] = largest[f] => smallest[f] \notin {smallest[g], largest[g]}

Overlap(f, g) ==
  f = g \/ (smallest[f] < largest[g] /\ smallest[g] < largest[f])

\* The scan marks exactly the files whose range, ends aside, meets the range of
\* more than max_sorted_runs files, the file itself included.
MarksOverlappingFiles ==
  Done /\ Ordered =>
    marked = {f \in File : Cardinality({g \in File : Overlap(f, g)}) > MaxSortedRuns}

\* The scan meets the smallest end of a file before its largest; otherwise it
\* reports "maybe bug in mark range merge" and leaves the file out.
SmallestEndFirst == missed = {}

=============================================================================
