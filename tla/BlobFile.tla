------------------------------ MODULE BlobFile ------------------------------
(***************************************************************************)
(* One blob file from BlobFileBuilder (src/src/blob_file_builder.cc) to    *)
(* its readers: BlobFileIterator, which GC uses (blob_file_iterator.cc),   *)
(* and BlobFileReader with the blob cache (blob_file_reader.cc).           *)
(*                                                                         *)
(* The file is the sequence of its records, each at its real offset and    *)
(* size: contents are a key and a value, sizes are those of the encoding   *)
(* in blob_format.cc.  A key is a number, which is also its length, so 0   *)
(* is the empty key; a value is its length.                                *)
(***************************************************************************)
EXTENDS Naturals, Sequences, FiniteSetsExt, Functions, TLC

CONSTANTS
  RecordKey, Value,        \* key and value lengths below 128: one length byte each
  Packed,            \* sizes a compressor may return; {} is kNoCompression
  MaxRecords,        \* bound on the records of the file
  PageSize, MinReadahead, MaxReadahead,   \* kDefaultPageSize, k{Min,Max}ReadaheadSize
  MinBlobSize,       \* min_blob_size
  IOFaults           \* "append", "read": which calls of the Env may fail

VARIABLES
  only_value,        \* records without keys: kSorted files under level_merge
  file,              \* the records in the file
  file_size,         \* GetFileSize() of the writer
  builder,           \* status_ of the BlobFileBuilder
  range,             \* its smallest_key_ and largest_key_
  added,             \* what Add was given, with the handle it returned
  iter,              \* BlobFileIterator
  at,                \* the record the iterator stands on, by its history
  blob_cache,        \* the records in the blob cache, by cache key
  reader,            \* what this behaviour reads the file with
  got                \* the last BlobFileReader::Get: handle and record

fileVars == <<only_value, file, file_size, builder, range, added, reader>>
vars     == <<fileVars, iter, at, blob_cache, got>>

kHeader == 8          \* BlobFileHeader::kEncodedLength
kRecordHeader == 9    \* kRecordHeaderSize
kFooter == 32         \* kBlobFooterSize
Nothing == [key |-> 0, value |-> 0]

\* BlobRecord::EncodeTo
RawSize(k, v) == IF only_value THEN v ELSE 1 + k + 1 + v

\* GoodCompressionRatio and Compress: the compressed form is kept only if it
\* saves an eighth.
Encodings(raw) == {raw} \cup {c \in Packed : c < raw - (raw \div 8)}

Smallest(k) == IF range.smallest = 0 THEN k ELSE range.smallest
Largest(k)  == IF range.smallest = 0 THEN k ELSE range.largest

\* Mutant: only the largest key is moved.
KeyRangeInOrder(k) ==
  [smallest |-> Smallest(k), largest |-> IF k > Largest(k) THEN k ELSE Largest(k)]

\* The key range after record k: an empty smallest_key_ is an unset one.
KeyRange(k) ==
  IF k > Largest(k) THEN [smallest |-> Smallest(k), largest |-> k]
  ELSE IF k < Smallest(k) THEN [smallest |-> k, largest |-> Largest(k)]
  ELSE [smallest |-> Smallest(k), largest |-> Largest(k)]

Init ==
  /\ only_value \in BOOLEAN
  /\ file = <<>> /\ added = <<>> /\ at = 0 /\ blob_cache = <<>>
  /\ reader \in {"iterator", "reader"}
  /\ range = [smallest |-> 0, largest |-> 0]
  /\ \/ builder = "ok" /\ file_size = kHeader
     \/ "append" \in IOFaults /\ builder = "error" /\ file_size = 0
  /\ iter = [init |-> FALSE, status |-> "ok", valid |-> FALSE, offset |-> 0,
             cur |-> Nothing, cur_offset |-> 0, cur_size |-> 0,
             ra |-> [begin |-> 0, end |-> 0, size |-> MinReadahead]]
  /\ got = [handle |-> [offset |-> 0, size |-> 0], record |-> Nothing, status |-> "none"]

\* BlobFileBuilder::Add: nothing happens once the builder has failed.
Add(k, v) ==
  /\ builder = "ok" /\ Len(added) < MaxRecords
  /\ \E c \in Encodings(RawSize(k, v)) :
       LET handle == [offset |-> file_size, size |-> kRecordHeader + c]
           record == [key |-> IF only_value THEN 0 ELSE k, value |-> v] IN
       /\ file' = Append(file, [handle |-> handle, record |-> record])
       /\ file_size' = file_size + handle.size
       /\ added' = Append(added, [handle |-> handle, key |-> k, value |-> v])
  /\ range' = KeyRange(k)
  /\ UNCHANGED <<only_value, reader, builder, iter, at, blob_cache, got>>

\* The append of a record or of the footer fails: the builder is not ok from
\* then on, and its file is never read.
AppendFails ==
  /\ "append" \in IOFaults /\ builder = "ok"
  /\ builder' = "error"
  /\ UNCHANGED <<only_value, reader, file, file_size, range, added, iter, at, blob_cache, got>>

\* BlobFileBuilder::Finish: the footer and Flush.  The callers finish no file
\* without records.
Finish ==
  /\ builder = "ok" /\ added /= <<>>
  /\ builder' = "finished"
  /\ file_size' = file_size + kFooter
  /\ UNCHANGED <<only_value, reader, file, range, added, iter, at, blob_cache, got>>
-----------------------------------------------------------------------------
\* BlobFileIterator.

Readable == builder = "finished"
end_of_blob_record == file_size - kFooter

\* DecodeHeader and DecodeRecord of what is at an offset.
RecordAt(o) == CHOOSE i \in DOMAIN file : file[i].handle.offset = o
SizeAt(o)   == file[RecordAt(o)].handle.size

\* A read of the file returns an error: the iterator keeps its place.
ReadFails(offset, init) ==
  /\ "read" \in IOFaults
  /\ iter' = [iter EXCEPT !.status = "error", !.offset = offset, !.init = init]

\* The readahead part of PrefetchAndGet at the offset o.
Readahead(o) ==
  LET reset == iter.ra.begin > o \/ iter.ra.end < o
      begin == IF reset THEN o - (o % PageSize) ELSE iter.ra.begin
      end   == IF reset THEN begin ELSE iter.ra.end
      size  == IF reset THEN MinReadahead ELSE iter.ra.size
      min   == o + kRecordHeader + MinBlobSize
      Grown[s \in Nat] == IF end + s <= min /\ s < MaxReadahead THEN Grown[2 * s] ELSE s
  IN  IF end <= min
      THEN [begin |-> begin, end |-> end + Grown[size],
            size |-> Min({MaxReadahead, 2 * Grown[size]})]
      ELSE [begin |-> begin, end |-> end, size |-> size]

\* Mutant: the window does not follow a record longer than it.
WindowAsRead(ra, o) == ra

\* The end of PrefetchAndGet: the window reaches at least the next record.
Window(ra, o) == [ra EXCEPT !.end = Max({ra.end, o})]

\* Mutant: the record that holds the offset is passed over.
SkipBack(o, before) == o

\* IterateForPrev steps back when it went past the offset it looks for.
StepBack(o, before) == before

\* GetBlobRecord
GetBlobRecord(o) ==
  LET f == file[RecordAt(o)] IN
  iter' = [init |-> TRUE, status |-> "ok", valid |-> TRUE, offset |-> o + f.handle.size,
           cur |-> f.record, cur_offset |-> o, cur_size |-> f.handle.size,
           ra |-> Window(Readahead(o), o + f.handle.size)]

\* PrefetchAndGet from the offset o.
PrefetchAndGet(o) ==
  IF o >= end_of_blob_record
  THEN iter' = [iter EXCEPT !.valid = FALSE, !.offset = o, !.init = TRUE]
  ELSE \/ GetBlobRecord(o)
       \/ /\ "read" \in IOFaults
          /\ iter' = [iter EXCEPT !.status = "error", !.offset = o, !.init = TRUE,
                                  !.ra = Window(Readahead(o), o)]

\* SeekToFirst: Init reads the header and the footer once; its failure leaves
\* the iterator uninitialized.
SeekToFirst ==
  /\ Readable /\ reader = "iterator" /\ ~only_value
  /\ \/ PrefetchAndGet(kHeader) /\ at' = IF iter'.status = "ok" THEN 1 ELSE 0
     \/ ~iter.init /\ ReadFails(iter.offset, FALSE) /\ UNCHANGED at
  /\ UNCHANGED <<fileVars, blob_cache, got>>

\* BlobFileIterator::Next, after a read that failed too: the same record is tried again.
IteratorNext ==
  /\ Readable /\ iter.init
  /\ PrefetchAndGet(iter.offset)
  /\ at' = IF iter.offset < end_of_blob_record /\ iter'.status = "ok" THEN at + 1
           ELSE IF iter.offset >= end_of_blob_record THEN Len(file) + 1 ELSE at
  /\ UNCHANGED <<fileVars, blob_cache, got>>

\* IterateForPrev(offset): the header of every record before the offset is
\* read; an offset behind the records is refused.
IterateForPrev(offset) ==
  LET Walk[o \in Nat] == IF o < offset THEN Walk[o + SizeAt(o)] ELSE o
      Last[o \in Nat] == IF o + SizeAt(o) < Walk[kHeader] THEN Last[o + SizeAt(o)] ELSE o
      start == IF Walk[kHeader] > offset /\ offset > kHeader
               THEN StepBack(Walk[kHeader], Last[kHeader]) ELSE Walk[kHeader]
  IN
  /\ Readable /\ reader = "iterator" /\ ~only_value
  /\ \/ /\ offset >= end_of_blob_record
        /\ iter' = [iter EXCEPT !.init = TRUE, !.offset = offset,
                                !.status = "invalid_argument"]
        /\ at' = Len(file) + 1
     \/ /\ offset < end_of_blob_record
        /\ iter' = [iter EXCEPT !.init = TRUE, !.offset = start, !.status = "ok",
                                !.valid = FALSE]
        /\ at' = Max({0} \cup {i - 1 : i \in {j \in DOMAIN file :
                                              file[j].handle.offset <= offset}})
     \/ ~iter.init /\ ReadFails(iter.offset, FALSE) /\ UNCHANGED at
     \/ /\ offset < end_of_blob_record
        /\ \E i \in DOMAIN file :
             /\ file[i].handle.offset < offset
             /\ ReadFails(file[i].handle.offset, TRUE)
             /\ at' = i - 1
  /\ UNCHANGED <<fileVars, blob_cache, got>>
-----------------------------------------------------------------------------
\* BlobFileReader.

\* Mutant: the cache key is made of the size.
CacheKeyOfSize(h) == h.size

\* EncodeBlobCache
CacheKey(h) == h.offset

\* Get: the blob cache, else ReadRecord, and its record goes into the cache.
Get(h) ==
  /\ Readable /\ reader = "reader"
  /\ \/ /\ CacheKey(h) \in DOMAIN blob_cache
        /\ got' = [handle |-> h, record |-> blob_cache[CacheKey(h)], status |-> "ok"]
        /\ UNCHANGED blob_cache
     \/ /\ CacheKey(h) \notin DOMAIN blob_cache /\ h.size = SizeAt(h.offset)
        /\ LET record == file[RecordAt(h.offset)].record IN
           /\ got' = [handle |-> h, record |-> record, status |-> "ok"]
           /\ blob_cache' = blob_cache @@ (CacheKey(h) :> record)
     \/ /\ "read" \in IOFaults /\ CacheKey(h) \notin DOMAIN blob_cache
        /\ got' = [handle |-> h, record |-> Nothing, status |-> "error"]
        /\ UNCHANGED blob_cache
  /\ UNCHANGED <<fileVars, iter, at>>

\* The cache drops an entry.
CacheEvict ==
  /\ \E o \in DOMAIN blob_cache : blob_cache' = Restrict(blob_cache, DOMAIN blob_cache \ {o})
  /\ UNCHANGED <<fileVars, iter, at, got>>

\* IterateForPrev is asked for the first byte of a record, for one inside it
\* and for the end of the records.
Offsets == {0, end_of_blob_record} \cup
           UNION {{f.handle.offset, f.handle.offset + 1} : f \in Range(file)}

Next ==
  \/ \E k \in RecordKey, v \in Value : Add(k, v)
  \/ AppendFails
  \/ Finish
  \/ SeekToFirst
  \/ IteratorNext
  \/ \E o \in Offsets : IterateForPrev(o)
  \/ \E i \in DOMAIN added : Get(added[i].handle)
  \/ CacheEvict

Spec == Init /\ [][Next]_vars

-----------------------------------------------------------------------------
(* Properties                                                              *)

\* BlobFileBuilder::Add keeps [smallest_key_, largest_key_] around every key
\* it was given, in whatever order they come (range deletion and the merge
\* marks rely on it).  It holds without the empty key.
KeyRangeCovers ==
  \A i \in DOMAIN added : range.smallest <= added[i].key /\ added[i].key <= range.largest

\* Whatever mix of SeekToFirst, Next and IterateForPrev has run, and whichever
\* reads failed in between, a valid BlobFileIterator shows the record its
\* history leads to with the handle Add returned for it, the next one is where
\* it will read, and it ends only behind the last record.
IteratorFollowsBuilder ==
  iter.init /\ iter.status = "ok" =>
    /\ iter.valid =>
         /\ at \in DOMAIN added
         /\ iter.cur = [key |-> added[at].key, value |-> added[at].value]
         /\ [offset |-> iter.cur_offset, size |-> iter.cur_size] = added[at].handle
    /\ at < Len(added) => iter.offset = added[at + 1].handle.offset
    /\ at >= Len(added) => iter.offset >= end_of_blob_record

\* The readahead window of PrefetchAndGet holds the record just read and its
\* size stays within its limits.
ReadaheadCoversRecord ==
  /\ iter.ra.size \in MinReadahead..MaxReadahead
  /\ iter.valid /\ iter.status = "ok" =>
       iter.ra.begin <= iter.cur_offset /\ iter.cur_offset + iter.cur_size <= iter.ra.end

\* BlobFileReader::Get returns, from the file or from the blob cache, the
\* record Add returned the handle for.
GetReturnsRecord ==
  got.status = "ok" =>
    \E i \in DOMAIN added :
      /\ added[i].handle = got.handle
      /\ got.record.value = added[i].value
      /\ only_value \/ got.record.key = added[i].key

=============================================================================
