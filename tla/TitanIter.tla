------------------------------ MODULE TitanIter ------------------------------
(***************************************************************************)
(* TitanDBIterator (src/src/db_iter.h) over the base DB's iterator, with a *)
(* BlobFilePrefetcher for each blob file it meets (blob_file_reader.cc),   *)
(* and TitanDBImpl::Scan.  The entries are those of the iterator's         *)
(* snapshot: entry k is the k-th key, its value is k, stored inline or in  *)
(* a blob file.                                                            *)
(***************************************************************************)
EXTENDS Naturals, Sequences, FiniteSetsExt, Functions, TLC

CONSTANTS
  NumEntries, BlobFiles,
  Kind,             \* subset of {"inline", "empty", "blob"}
  FreshVectors,     \* the caller of Scan passes empty vectors
  MaxPrefetch,      \* kMaxReadaheadSize
  IterFaults        \* "base", "open", "read": calls that may fail

VARIABLES
  entry,            \* kind and file of each entry
  key_only,
  base_pos,         \* iter_: 0 and NumEntries + 1 are not valid
  base_status,      \* its status
  status_, record_, \* of the TitanDBIterator
  files_,           \* the prefetchers, by file
  keys, vals, len,  \* the vectors of the last Scan and the length it returned
  scanned           \* its arguments, and whether a call of it failed

vars == <<entry, key_only, base_pos, base_status, status_, record_, files_, keys,
          vals, len, scanned>>
scanVars == <<keys, vals, len, scanned>>

Entry == 1..NumEntries
Empty == 0                      \* the empty string
Dangling == NumEntries + 1      \* a slice whose buffer has been released
Size == 2
Offset(k) == 8 + Size * k
ValueOf(k) == IF entry[k].kind = "empty" THEN Empty ELSE k

\* NewIterator: nothing has been read.
Init ==
  /\ entry \in [Entry -> [kind : Kind, file : BlobFiles]]
  /\ key_only \in BOOLEAN
  /\ base_pos = 0 /\ base_status = "ok" /\ status_ = "ok" /\ record_ = Empty
  /\ files_ = <<>>
  /\ keys = [i \in Entry |-> Empty] /\ vals = [i \in Entry |-> Empty] /\ len = 0
  /\ scanned = [target |-> 0, len |-> 0, failed |-> FALSE]

\* Mutant: the window is not made to hold the record.
Doubled(size) == size

Grown(size) == Max({Size, size})

\* BlobFilePrefetcher::Get: the readahead state after a read at offset o.
Prefetched(p, o) ==
  IF o = p.last
  THEN IF o + Size > p.limit
       THEN [last |-> o + Size, limit |-> o + Grown(p.size),
             size |-> Min({MaxPrefetch, 2 * Grown(p.size)})]
       ELSE [p EXCEPT !.last = o + Size]
  ELSE [last |-> o + Size, limit |-> 0, size |-> 0]

NewPrefetcher == [last |-> 0, limit |-> 0, size |-> 0]

Prefetcher(f) == IF f \in DOMAIN files_ THEN files_[f] ELSE NewPrefetcher

\* Mutant: the record is read only when the file is a new one.
ReadsFirstOf(k) == entry[k].file \notin DOMAIN files_

\* Every entry in a blob file is read.
ReadsRecord(k) == TRUE

\* GetBlobValue at entry k.
GetBlobValue(k) ==
  LET f == entry[k].file
      opened == (f :> Prefetched(Prefetcher(f), Offset(k))) @@ files_ IN
  \/ /\ files_' = opened /\ status_' = "ok"
     /\ record_' = IF ReadsRecord(k) THEN k ELSE record_
  \/ /\ "read" \in IterFaults
     /\ files_' = opened /\ record_' = Dangling /\ status_' = "error"
  \/ /\ "open" \in IterFaults /\ f \notin DOMAIN files_
     /\ status_' = "error" /\ UNCHANGED <<files_, record_>>

IsBlob(p) == p \in Entry /\ entry[p].kind = "blob"

\* The base iterator has moved to p: ShouldGetBlobValue and GetBlobValue.
Land(p) ==
  /\ scanned.target = 0
  /\ base_pos' = p /\ base_status' = "ok"
  /\ IF IsBlob(p) /\ ~key_only THEN GetBlobValue(p)
     ELSE status_' = "ok" /\ UNCHANGED <<files_, record_>>
  /\ UNCHANGED <<entry, key_only, scanVars>>

\* The base iterator fails: it is not valid and has a status.
BaseFails ==
  /\ "base" \in IterFaults /\ scanned.target = 0
  /\ base_pos' = 0 /\ base_status' = "error" /\ status_' = "error"
  /\ UNCHANGED <<entry, key_only, files_, record_, scanVars>>

Valid == base_pos \in Entry

SeekToFirst == Land(1) \/ BaseFails
SeekToLast == Land(NumEntries) \/ BaseFails
Seek(target) == Land(target) \/ BaseFails
SeekForPrev(target) == Land(Min({target, NumEntries})) \/ BaseFails
IterNext == Valid /\ (Land(base_pos + 1) \/ BaseFails)
Prev == Valid /\ (Land(base_pos - 1) \/ BaseFails)

status == IF status_ = "ok" THEN base_status ELSE status_

\* value()
value == IF entry[base_pos].kind = "blob" THEN record_ ELSE ValueOf(base_pos)
-----------------------------------------------------------------------------
\* TitanDBImpl::Scan, on an iterator of its own: a behaviour is either of an
\* iterator or of calls of Scan.

\* Mutant: the value of a blob entry is read at the place before.
Shifted(target, j) == target + j - 2

EntryOf(target, j) == target + j - 1

\* The values after the second loop: an empty one is taken from its blob file,
\* and a read that fails leaves the value of the read before.
ScanVals(v, target, n, failed) ==
  LET Record[j \in 0..n] ==
        IF j = 0 THEN Empty
        ELSE IF v[j] = Empty /\ j \notin failed THEN EntryOf(target, j)
        ELSE Record[j - 1]
  IN  [j \in Entry |-> IF j <= n /\ v[j] = Empty THEN Record[j] ELSE v[j]]

\* The first loop fills keys and the inline values and opens the files: if one
\* cannot be opened it returns without setting len.  An empty value makes the
\* second loop look for a file, which is undefined for an inline entry.
Scan(target, n) ==
  LET found == Min({n, NumEntries + 1 - target})
      at(j) == EntryOf(target, j)
      old   == IF FreshVectors THEN [i \in Entry |-> Empty] ELSE vals
      Inline(m) == [j \in Entry |-> IF j <= m /\ ~IsBlob(at(j)) THEN ValueOf(target + j - 1)
                                    ELSE old[j]]
      Filled(m) == [j \in Entry |-> IF j <= m THEN target + j - 1
                                    ELSE IF FreshVectors THEN Empty ELSE keys[j]]
      Blobs == {j \in 1..found : IsBlob(at(j))} IN
  /\ ~key_only /\ base_pos = 0 /\ files_ = <<>>
  /\ \/ /\ keys' = Filled(found) /\ len' = found
        /\ \E failed \in IF "read" \in IterFaults THEN SUBSET Blobs ELSE {{}} :
             /\ vals' = ScanVals(Inline(found), target, found, failed)
             /\ scanned' = [target |-> target, len |-> n, failed |-> failed /= {}]
     \/ /\ "open" \in IterFaults
        /\ \E j \in Blobs :
             keys' = Filled(j - 1) /\ vals' = Inline(j - 1) /\ len' = n
        /\ scanned' = [target |-> target, len |-> n, failed |-> TRUE]
  /\ UNCHANGED <<entry, key_only, base_pos, base_status, status_, record_, files_>>

Next ==
  \/ SeekToFirst
  \/ SeekToLast
  \/ \E t \in 1..NumEntries + 1 : Seek(t)
  \/ \E t \in 0..NumEntries : SeekForPrev(t)
  \/ IterNext
  \/ Prev
  \/ \E t \in Entry, n \in Entry : Scan(t, n)

Spec == Init /\ [][Next]_vars
-----------------------------------------------------------------------------
\* A valid iterator with an OK status gives the value of its entry at the
\* snapshot, after any moves and whatever reads failed on the way
\* (TitanDBIterator::value).
ValueOfEntry ==
  Valid /\ status = "ok" /\ ~key_only => value = ValueOf(base_pos)

\* A prefetcher that follows a run of reads has asked for everything up to the
\* record just read, and its window is bounded (BlobFilePrefetcher::Get).
PrefetchCoversRead ==
  \A f \in DOMAIN files_ :
    /\ files_[f].limit = 0 \/ files_[f].limit >= files_[f].last
    /\ files_[f].size <= Max({MaxPrefetch, 2 * Size})

\* A Scan in which no call failed returns the entries from its target on, as
\* many as there are up to the length asked for, each with its own value.  It
\* holds for empty vectors and as long as no value is the empty string.
ScanReturnsEntries ==
  scanned.target /= 0 /\ ~scanned.failed =>
    /\ len = Min({scanned.len, NumEntries + 1 - scanned.target})
    /\ \A j \in 1..len : keys[j] = scanned.target + j - 1
                         /\ vals[j] = ValueOf(scanned.target + j - 1)

=============================================================================
