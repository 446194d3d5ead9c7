-------------------------- MODULE VersionEditCodec ---------------------------
(***************************************************************************)
(* VersionEdit::EncodeTo and DecodeFrom (src/src/version_edit.cc) and the  *)
(* BlobFileMeta inside them (blob_format.cc).  The encoding is a sequence  *)
(* of tokens: a varint is one token, a length-prefixed key is two.         *)
(* DecodeFrom runs one step for each tag, on the encoding or on what is    *)
(* left of it when its end has been lost.                                  *)
(***************************************************************************)
EXTENDS Naturals, Sequences, SequencesExt

CONSTANTS
  EditNumber,       \* file numbers, sizes, entries, levels, types
  EditKey,          \* keys
  MaxFiles          \* bound on the added and on the deleted files

VARIABLES
  edit,             \* the edit that is written
  src,              \* what is left to decode
  cut,              \* tokens lost at the end
  decoded,          \* the edit that is read
  dec_status        \* "run", "ok" or "corruption"

vars == <<edit, src, cut, decoded, dec_status>>

\* enum Tag
kNextFileNumber == 1
kColumnFamilyID == 10
kAddedBlobFile == 11
kDeletedBlobFile == 12
kAddedBlobFileV2 == 13
kUpdateDiscardableSize == 14

Meta == [number : EditNumber, size : {5}, entries : {1}, type : {0, 1},
         level : {6}, smallest : EditKey, largest : EditKey]
NoNumber == 0

Edits ==
  [next : EditNumber \cup {NoNumber}, cf : {3}, added : BoundedSeq(Meta, MaxFiles),
   deleted : BoundedSeq(EditNumber, MaxFiles),
   updated : BoundedSeq(EditNumber \X EditNumber, 1)]

NewEdit == [next |-> NoNumber, cf |-> 0, added |-> <<>>, deleted |-> <<>>, updated |-> <<>>]

\* BlobFileMeta::EncodeTo; a key is its length and its bytes.
EncodeMeta(m) ==
  <<m.number, m.size, m.entries, m.type, m.level, Len(m.smallest), m.smallest,
    Len(m.largest), m.largest>>

\* VersionEdit::EncodeTo
EncodeTo(e) ==
  (IF e.next /= NoNumber THEN <<kNextFileNumber, e.next>> ELSE <<>>)
  \o <<kColumnFamilyID, e.cf>>
  \o FlattenSeq([i \in DOMAIN e.added |-> <<kAddedBlobFileV2>> \o EncodeMeta(e.added[i])])
  \o FlattenSeq([i \in DOMAIN e.deleted |-> <<kDeletedBlobFile, e.deleted[i]>>])
  \o FlattenSeq([i \in DOMAIN e.updated |->
                   <<kUpdateDiscardableSize, e.updated[i][1], e.updated[i][2]>>])

Init ==
  /\ edit \in Edits
  /\ cut \in 0..Len(EncodeTo(edit))
  /\ src = SubSeq(EncodeTo(edit), 1, Len(EncodeTo(edit)) - cut)
  /\ decoded = NewEdit /\ dec_status = "run"

\* Mutant: the two keys are taken in the wrong order.
MetaOfSwapped(s) ==
  [number |-> s[2], size |-> s[3], entries |-> s[4], type |-> s[5], level |-> s[6],
   smallest |-> s[10], largest |-> s[8]]

\* BlobFileMeta::DecodeFrom, behind the tag
MetaOf(s) ==
  [number |-> s[2], size |-> s[3], entries |-> s[4], type |-> s[5], level |-> s[6],
   smallest |-> s[8], largest |-> s[10]]

\* The tokens an item takes with its tag.
ItemLen(tag) ==
  CASE tag \in {kNextFileNumber, kColumnFamilyID, kDeletedBlobFile} -> 2
    [] tag \in {kAddedBlobFile, kUpdateDiscardableSize} -> 3
    [] tag = kAddedBlobFileV2 -> 10

\* Mutant: the second number of an update may be missing.
HasItemLoose(s) == Len(s) >= (IF s[1] = kUpdateDiscardableSize THEN 2 ELSE ItemLen(s[1]))

\* All the Get calls for the item succeed.
HasItem(s) == Len(s) >= ItemLen(s[1])

Item(s) ==
  CASE s[1] = kNextFileNumber -> [decoded EXCEPT !.next = s[2]]
    [] s[1] = kColumnFamilyID -> [decoded EXCEPT !.cf = s[2]]
    [] s[1] = kAddedBlobFileV2 -> [decoded EXCEPT !.added = Append(@, MetaOf(s))]
    [] s[1] = kDeletedBlobFile -> [decoded EXCEPT !.deleted = Append(@, s[2])]
    [] s[1] = kUpdateDiscardableSize ->
         [decoded EXCEPT !.updated = Append(@, <<s[2], IF Len(s) > 2 THEN s[3] ELSE 0>>)]

\* One turn of the loop of DecodeFrom.
Decode ==
  /\ dec_status = "run" /\ src /= <<>>
  /\ IF HasItem(src)
     THEN /\ decoded' = Item(src)
          /\ src' = SubSeq(src, ItemLen(src[1]) + 1, Len(src))
          /\ UNCHANGED dec_status
     ELSE dec_status' = "corruption" /\ UNCHANGED <<decoded, src>>
  /\ UNCHANGED <<edit, cut>>

EndDecode ==
  /\ dec_status = "run" /\ src = <<>> /\ dec_status' = "ok"
  /\ UNCHANGED <<edit, src, cut, decoded>>

Next == Decode \/ EndDecode

Spec == Init /\ [][Next]_vars
-----------------------------------------------------------------------------
\* DecodeFrom of a whole encoding succeeds and gives back every field of the
\* edit (the obsolete sequence is not written).
RoundTrip == cut = 0 => dec_status /= "corruption" /\ (dec_status = "ok" => decoded = edit)

\* DecodeFrom of an encoding that has lost its end never returns OK with a
\* field or a list item that was not written: what it accepts are the first
\* items of the edit, whole.
TornEditRefused ==
  dec_status = "ok" =>
    /\ decoded.next \in {NoNumber, edit.next} /\ decoded.cf \in {0, edit.cf}
    /\ IsPrefix(decoded.added, edit.added)
    /\ IsPrefix(decoded.deleted, edit.deleted)
    /\ IsPrefix(decoded.updated, edit.updated)

=============================================================================
