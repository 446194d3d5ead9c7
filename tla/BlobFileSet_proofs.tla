-------------------------- MODULE BlobFileSet_proofs ------------------------
(***************************************************************************)
(* Proofs about BlobFileSet, for any column families, number of files,     *)
(* length of the manifest and options, on a disk that may fail.            *)
(***************************************************************************)
EXTENDS BlobFileSet, Integers, TLAPS

-----------------------------------------------------------------------------
(* The inductive invariant.                                                *)

\* A version edit.
Edit == [add : Files, del : Files, next : 1..(MaxFile + 1)]

\* What the first k records delete.
DeletedBy(m, k, cf) == UNION {m[i].del[cf] : i \in 1..k}

\* File numbers grow, no file is added twice, and what a record deletes an
\* earlier one has added.
LogOK(m) ==
  /\ \A i, j \in 1..Len(m) : i < j => m[i].next <= m[j].next
  /\ \A i \in 1..Len(m), cf \in ColumnFamily : \A f \in m[i].add[cf] : f < m[i].next
  /\ \A i, j \in 1..Len(m), cf, c \in ColumnFamily :
       \A f \in m[i].add[cf] : f \in m[j].add[c] => i = j /\ cf = c
  /\ \A i \in 1..Len(m), cf \in ColumnFamily : \A f \in m[i].del[cf] :
       \E j \in 1..Len(m) : j < i /\ f \in m[j].add[cf]

\* Without a process there is nothing in memory; before Open returns, the
\* storages are the snapshot Recover has written.
PhaseOK ==
  /\ ~IsOpen => /\ handles = {} /\ column_families = {}
                /\ files = NoFiles /\ obsolete_files = NoFiles
                /\ building = {} /\ gc = NoFiles /\ purging = {}
  /\ IsOpen => manifest[Len(manifest)].next <= next_file_number
  /\ open_pc = "purge" => /\ building = {}
                          /\ column_families = OpenedCFs
                          /\ \A cf \in ColumnFamily : Added(manifest, cf) = files[cf]

\* A file that is being built is on disk under a number nobody else has.
BuildingOK ==
  \A b \in building :
    /\ b[1] < next_file_number /\ b[1] \in disk
    /\ base[b[2]] # "new"
    /\ \A cf \in ColumnFamily : b[1] \notin Added(manifest, cf)
    /\ \A d \in building : b[1] = d[1] => b = d

\* What the storages hold is in the manifest and on disk; obsolete is what the
\* synced manifest has deleted.
StoragesOK ==
  \A cf \in ColumnFamily :
    /\ files[cf] \subseteq Added(manifest, cf)
    /\ files[cf] \subseteq disk
    /\ obsolete_files[cf] \subseteq files[cf]
    /\ obsolete_files[cf] \subseteq DeletedBy(manifest, synced, cf)
    /\ cf \notin column_families => files[cf] = {}

\* Only files that the synced manifest has deleted are removed from disk.
PurgingOK ==
  \A f \in purging :
    /\ \A cf \in ColumnFamily : f \notin files[cf]
    /\ \E cf \in ColumnFamily : f \in Added(manifest, cf) /\ f \in DeletedBy(manifest, synced, cf)

\* Whatever a crash leaves in the manifest of a column family is on disk.
DiskOK ==
  \A cf \in ColumnFamily : base[cf] = "live" =>
    Added(manifest, cf) \ DeletedBy(manifest, synced, cf) \subseteq disk

\* A handle keeps its storage; nothing is known of a column family before it
\* is created.
HandlesOK ==
  /\ handles \subseteq column_families
  /\ \A cf \in ColumnFamily : base[cf] = "new" => /\ Added(manifest, cf) = {}
                                                  /\ cf \notin column_families

\* GC and drops exclude each other, and GC's inputs come from the manifest.
JobsOK ==
  /\ \A cf \in ColumnFamily : /\ gc[cf] \subseteq Added(manifest, cf)
                              /\ gc[cf] # {} => base[cf] = "live" /\ dropping = {}
  /\ \A cf \in destroyed : base[cf] = "dropped" \/ "destroy" \in Options

\* What every step preserves, whatever fails.
IInv ==
  /\ TypeOK
  /\ LogOK(manifest)
  /\ PhaseOK
  /\ BuildingOK
  /\ StoragesOK
  /\ PurgingOK
  /\ DiskOK
  /\ HandlesOK
  /\ JobsOK

-----------------------------------------------------------------------------
(* Manifests as sequences of edits.                                        *)

\* Appending a record to the manifest (log::Writer::AddRecord) keeps the
\* others where they are.
LEMMA AppendEdit ==
  ASSUME NEW m \in Seq(Edit), NEW r \in Edit
  PROVE  /\ Append(m, r) \in Seq(Edit)
         /\ Len(m) \in Nat
         /\ Len(Append(m, r)) = Len(m) + 1
         /\ \A i \in 1..Len(m) : Append(m, r)[i] = m[i]
         /\ Append(m, r)[Len(m) + 1] = r
  OBVIOUS

\* What a crash leaves of the manifest is a prefix with the same records.
LEMMA PrefixEdit ==
  ASSUME NEW m \in Seq(Edit), NEW n \in 1..Len(m)
  PROVE  /\ SubSeq(m, 1, n) \in Seq(Edit)
         /\ Len(SubSeq(m, 1, n)) = n
         /\ \A i \in 1..n : i \in 1..Len(m) /\ SubSeq(m, 1, n)[i] = m[i]
  OBVIOUS

\* What a record adds (EditCollector::AddEdit) joins what was added before.
LEMMA AddedAppend ==
  ASSUME NEW m \in Seq(Edit), NEW r \in Edit, NEW cf \in ColumnFamily
  PROVE  Added(Append(m, r), cf) = Added(m, cf) \cup r.add[cf]
<1> DEFINE M == Append(m, r)
<1>0. Len(m) \in Nat /\ Len(M) = Len(m) + 1 /\ M[Len(m) + 1] = r
      /\ \A i \in 1..Len(m) : M[i] = m[i]
  BY AppendEdit
<1>1. 1..Len(M) = 1..Len(m) \cup {Len(m) + 1}
  BY <1>0
<1> HIDE DEF M
<1>2. UNION {M[i].add[cf] : i \in 1..Len(M)}
       = (UNION {m[i].add[cf] : i \in 1..Len(m)}) \cup r.add[cf]
  BY <1>0, <1>1, ZenonT(40)
<1> QED BY Zenon, <1>2 DEF Added, M

\* A record appended to the manifest adds its deletions to the earlier ones.
LEMMA DeletedAppend ==
  ASSUME NEW m \in Seq(Edit), NEW r \in Edit, NEW cf \in ColumnFamily
  PROVE  Deleted(Append(m, r), cf) = Deleted(m, cf) \cup r.del[cf]
<1> DEFINE M == Append(m, r)
<1>0. Len(m) \in Nat /\ Len(M) = Len(m) + 1 /\ M[Len(m) + 1] = r
      /\ \A i \in 1..Len(m) : M[i] = m[i]
  BY AppendEdit
<1>1. 1..Len(M) = 1..Len(m) \cup {Len(m) + 1}
  BY <1>0
<1> HIDE DEF M
<1>2. UNION {M[i].del[cf] : i \in 1..Len(M)}
       = (UNION {m[i].del[cf] : i \in 1..Len(m)}) \cup r.del[cf]
  BY <1>0, <1>1, ZenonT(40)
<1> QED BY Zenon, <1>2 DEF Deleted, M

\* Records that are there twice or later only add to what is deleted.
LEMMA DeletedByMore ==
  ASSUME NEW m, NEW w, NEW k \in Nat, NEW n \in Nat, k <= n,
         NEW cf, \A i \in 1..k : m[i] = w[i]
  PROVE  DeletedBy(m, k, cf) \subseteq DeletedBy(w, n, cf)
<1>1. 1..k \subseteq 1..n
  OBVIOUS
<1> QED BY Zenon, <1>1 DEF DeletedBy

\* LogOK in terms of what was added so far.
LEMMA DeletedWasAdded ==
  ASSUME NEW m, LogOK(m), NEW cf \in ColumnFamily
  PROVE  Deleted(m, cf) \subseteq Added(m, cf)
<1>1. ASSUME NEW f \in Deleted(m, cf) PROVE f \in Added(m, cf)
  <2>1. PICK i \in 1..Len(m) : f \in m[i].del[cf]
    BY Zenon, <1>1 DEF Deleted
  <2>2. PICK j \in 1..Len(m) : f \in m[j].add[cf]
    BY <2>1 DEF LogOK
  <2> QED BY Zenon, <2>2 DEF Added
<1> QED BY Zenon, <1>1

\* A file belongs to one column family.
LEMMA OneOwner ==
  ASSUME NEW m, LogOK(m), NEW cf \in ColumnFamily, NEW c \in ColumnFamily,
         NEW f \in Added(m, cf), f \in Added(m, c)
  PROVE  cf = c
<1>1. PICK i \in 1..Len(m) : f \in m[i].add[cf]
  BY Zenon DEF Added
<1>2. PICK j \in 1..Len(m) : f \in m[j].add[c]
  BY Zenon DEF Added
<1> QED BY <1>1, <1>2 DEF LogOK

\* File numbers of the manifest are below its last next_file_number.
LEMMA AddedBelowNext ==
  ASSUME NEW m \in Seq(Edit), LogOK(m), Len(m) >= 1,
         NEW cf \in ColumnFamily, NEW f \in Added(m, cf)
  PROVE  f \in File /\ f < m[Len(m)].next
<1>1. PICK i \in 1..Len(m) : f \in m[i].add[cf]
  BY Zenon DEF Added
<1>2. m[i] \in Edit /\ m[Len(m)] \in Edit
  OBVIOUS
<1>3. f \in File
  BY <1>1, <1>2 DEF Edit, Files
<1>4. f < m[i].next
  BY Zenon, <1>1 DEF LogOK
<1>5. m[i].next <= m[Len(m)].next
  <2>1. CASE i = Len(m)
    BY <1>2, <2>1 DEF Edit
  <2>2. CASE i # Len(m)
    <3>1. i < Len(m) /\ Len(m) \in 1..Len(m)
      BY <2>2
    <3> QED BY Zenon, <3>1 DEF LogOK
  <2> QED BY <2>1, <2>2
<1>6. m[i].next \in Nat /\ m[Len(m)].next \in Nat /\ f \in Nat
  BY <1>2, <1>3, CatalogAssumption DEF Edit, File
<1> QED BY <1>3, <1>4, <1>5, <1>6

\* A prefix of a good manifest is one.
LEMMA LogPrefix ==
  ASSUME NEW m \in Seq(Edit), NEW n \in 1..Len(m), LogOK(m)
  PROVE  /\ LogOK(SubSeq(m, 1, n))
         /\ \A cf \in ColumnFamily : Added(SubSeq(m, 1, n), cf) \subseteq Added(m, cf)
<1> DEFINE w == SubSeq(m, 1, n)
<1>1. Len(w) = n /\ \A i \in 1..n : i \in 1..Len(m) /\ w[i] = m[i]
  BY PrefixEdit
<1> HIDE DEF w
<1>2. ASSUME NEW i \in 1..n, NEW j \in 1..Len(m), j < i
      PROVE  j \in 1..n
  BY <1>2
<1>3. LogOK(w)
  BY <1>1, <1>2, SMTT(40) DEF LogOK
<1>4. \A cf \in ColumnFamily : Added(w, cf) \subseteq Added(m, cf)
  BY Zenon, <1>1 DEF Added
<1> QED BY Zenon, <1>3, <1>4 DEF w

-----------------------------------------------------------------------------
(* Edits.                                                                  *)

\* What an edit of the running process is like.
EditOK(cf, add, del) ==
  /\ cf \in ColumnFamily /\ add \in SUBSET File /\ del \in SUBSET File
  /\ base[cf] # "new"
  /\ \A f \in add : /\ f < next_file_number /\ f \in disk
                    /\ \A c \in ColumnFamily : f \notin Added(manifest, c)
  /\ add = {} \/ (del = {} /\ \E f : add = {f})
  /\ del \subseteq Added(manifest, cf)
  /\ cf \notin column_families => del \subseteq gc[cf]

\* Every edit some thread may be logging is one.
LEMMA LoggingOK ==
  ASSUME IInv, NEW e \in Logging
  PROVE  EditOK(e[1], e[2], e[3])
<1> USE DEF IInv
<1>1. CASE e \in {<<b[2], {b[1]}, {}>> : b \in building}
  <2>1. PICK b \in building : e = <<b[2], {b[1]}, {}>>
    BY <1>1
  <2>2. b[1] \in File /\ b[2] \in ColumnFamily
    BY DEF TypeOK
  <2>3. /\ base[b[2]] # "new" /\ b[1] < next_file_number /\ b[1] \in disk
        /\ \A c \in ColumnFamily : b[1] \notin Added(manifest, c)
    BY Zenon DEF BuildingOK
  <2>4. e[1] = b[2] /\ e[2] = {b[1]} /\ e[3] = {}
    BY <2>1
  <2> QED BY Zenon, <2>2, <2>3, <2>4 DEF EditOK
<1>2. CASE e \in {<<cf, {}, gc[cf]>> : cf \in {c \in ColumnFamily : gc[c] # {}}}
  <2>1. PICK cf \in ColumnFamily : gc[cf] # {} /\ e = <<cf, {}, gc[cf]>>
    BY <1>2
  <2>2. gc[cf] \in SUBSET File
    BY DEF TypeOK, Files
  <2>3. gc[cf] \subseteq Added(manifest, cf) /\ base[cf] = "live"
    BY Zenon, <2>1 DEF JobsOK
  <2>4. e[1] = cf /\ e[2] = {} /\ e[3] = gc[cf]
    BY <2>1
  <2> QED BY <2>2, <2>3, <2>4 DEF EditOK
<1>3. CASE e \in {<<cf, {}, Live(cf)>> : cf \in dropping}
  <2>1. PICK cf \in dropping : e = <<cf, {}, Live(cf)>>
    BY <1>3
  <2>2. cf \in ColumnFamily /\ cf \in column_families
    BY DEF TypeOK
  <2>3. base[cf] # "new"
    BY Zenon, <2>2 DEF HandlesOK
  <2>4. Live(cf) \in SUBSET File /\ Live(cf) \subseteq Added(manifest, cf)
    BY <2>2 DEF TypeOK, Files, StoragesOK, Live
  <2>5. e[1] = cf /\ e[2] = {} /\ e[3] = Live(cf)
    BY <2>1
  <2> QED BY Zenon, <2>2, <2>3, <2>4, <2>5 DEF EditOK
<1>4. CASE e \in UNION {{<<cf, {}, fs>> : fs \in InRanges(cf)} : cf \in ColumnFamily}
  <2>1. PICK cf \in ColumnFamily : \E fs \in InRanges(cf) : e = <<cf, {}, fs>>
    BY <1>4
  <2>2. PICK fs \in InRanges(cf) : e = <<cf, {}, fs>>
    BY <2>1
  <2>3. cf \in column_families /\ fs \subseteq Live(cf)
    BY Zenon DEF InRanges
  <2>4. base[cf] # "new"
    BY Zenon, <2>3 DEF HandlesOK
  <2>5. Live(cf) \in SUBSET File /\ Live(cf) \subseteq Added(manifest, cf)
    BY <2>3 DEF TypeOK, Files, StoragesOK, Live
  <2>6. e[1] = cf /\ e[2] = {} /\ e[3] = fs
    BY <2>2
  <2> QED BY Zenon, <2>3, <2>4, <2>5, <2>6 DEF EditOK
<1> QED BY Zenon, <1>1, <1>2, <1>3, <1>4 DEF Logging

\* The record of an edit, one field at a time.
LEMMA RecordOf ==
  ASSUME TypeOK, NEW cf, NEW add, NEW del,
         cf \in ColumnFamily, add \in SUBSET File, del \in SUBSET File
  PROVE  /\ Record(cf, add, del) \in Edit
         /\ Record(cf, add, del).next = next_file_number
         /\ Record(cf, add, del).add[cf] = add
         /\ Record(cf, add, del).del[cf] = del
         /\ \A c \in ColumnFamily \ {cf} : /\ Record(cf, add, del).add[c] = {}
                                          /\ Record(cf, add, del).del[c] = {}
<1>1. Only(cf, add) \in Files /\ Only(cf, del) \in Files
  BY DEF Only, NoFiles, Files
<1>2. /\ Only(cf, add)[cf] = add /\ Only(cf, del)[cf] = del
      /\ \A c \in ColumnFamily \ {cf} : Only(cf, add)[c] = {} /\ Only(cf, del)[c] = {}
  BY DEF Only, NoFiles
<1> QED BY <1>1, <1>2 DEF Record, Edit, TypeOK

\* The manifest m after an edit was appended to it.
LogAfter(m, cf, add, del) ==
  /\ m \in Seq(Edit)
  /\ Len(m) = Len(manifest) + 1
  /\ \A i \in 1..Len(manifest) : m[i] = manifest[i]
  /\ LogOK(m)
  /\ m[Len(m)].next <= next_file_number
  /\ Added(m, cf) = Added(manifest, cf) \cup add
  /\ Deleted(m, cf) = Deleted(manifest, cf) \cup del
  /\ \A c \in ColumnFamily \ {cf} : /\ Added(m, c) = Added(manifest, c)
                                   /\ Deleted(m, c) = Deleted(manifest, c)
  /\ del \subseteq DeletedBy(m, Len(m), cf)

\* A manifest with one more record is as good as before (LogAndApply).
LEMMA LogAppend ==
  ASSUME IInv, IsOpen, NEW cf, NEW add, NEW del, EditOK(cf, add, del)
  PROVE  LogAfter(Append(manifest, Record(cf, add, del)), cf, add, del)
<1> DEFINE r == Record(cf, add, del)
           L == Len(manifest)
           M == Append(manifest, r)
<1>1. TypeOK /\ LogOK(manifest) /\ manifest[L].next <= next_file_number
  BY Zenon DEF IInv, PhaseOK
<1>2. cf \in ColumnFamily /\ add \in SUBSET File /\ del \in SUBSET File
  BY Zenon DEF EditOK
<1>3. manifest \in Seq(Edit) /\ L \in Nat /\ L >= 1 /\ next_file_number \in 1..(MaxFile + 1)
  BY <1>1 DEF TypeOK, Edit
<1>4. /\ r \in Edit /\ r.next = next_file_number /\ r.add[cf] = add /\ r.del[cf] = del
      /\ \A c \in ColumnFamily \ {cf} : r.add[c] = {} /\ r.del[c] = {}
  BY <1>1, <1>2, RecordOf
<1>5. M = Append(manifest, r)
  OBVIOUS
<1> HIDE DEF r, M
<1>6. /\ M \in Seq(Edit) /\ Len(M) = L + 1 /\ M[L + 1] = r
      /\ \A i \in 1..L : M[i] = manifest[i]
  BY <1>3, <1>4, <1>5, AppendEdit
<1>7. \A c \in ColumnFamily : /\ Added(M, c) = Added(manifest, c) \cup r.add[c]
                              /\ Deleted(M, c) = Deleted(manifest, c) \cup r.del[c]
  <2> TAKE c \in ColumnFamily
  <2>1. Added(Append(manifest, r), c) = Added(manifest, c) \cup r.add[c]
    BY Zenon, <1>3, <1>4, AddedAppend
  <2>2. Deleted(Append(manifest, r), c) = Deleted(manifest, c) \cup r.del[c]
    BY Zenon, <1>3, <1>4, DeletedAppend
  <2> QED BY Zenon, <1>5, <2>1, <2>2
<1>8. M[Len(M)].next <= next_file_number
  BY <1>3, <1>4, <1>6
<1>9. 1..Len(M) = 1..L \cup {L + 1}
  BY <1>3, <1>6
<1>10. \A i \in 1..L : manifest[i].next <= next_file_number
  <2> SUFFICES ASSUME NEW i \in 1..L PROVE manifest[i].next <= next_file_number
    OBVIOUS
  <2>1. manifest[i].next <= manifest[L].next
    <3>1. manifest[i] \in Edit
      BY <1>3
    <3>2. CASE i = L
      BY <3>1, <3>2, CatalogAssumption DEF Edit
    <3>3. CASE i # L
      BY <1>1, <1>3, <3>3 DEF LogOK
    <3> QED BY <3>2, <3>3
  <2>2. manifest[i] \in Edit /\ manifest[L] \in Edit
    BY <1>3
  <2>3. manifest[i].next \in Int /\ manifest[L].next \in Int
    BY <2>2, CatalogAssumption DEF Edit
  <2> QED BY <1>1, <1>3, <2>1, <2>3
<1>11. LogOK(M)
  <2>1. \A i, j \in 1..Len(M) : i < j => M[i].next <= M[j].next
    <3> SUFFICES ASSUME NEW i \in 1..Len(M), NEW j \in 1..Len(M), i < j
                 PROVE  M[i].next <= M[j].next
      OBVIOUS
    <3>1. i \in 1..L
      BY <1>3, <1>6
    <3>2. CASE j \in 1..L
      BY <1>1, <1>6, <3>1, <3>2 DEF LogOK
    <3>3. CASE j = L + 1
      BY <1>4, <1>6, <1>10, <3>1, <3>3
    <3> QED BY Zenon, <1>9, <3>2, <3>3
  <2>2. \A i \in 1..Len(M), c \in ColumnFamily : \A f \in M[i].add[c] : f < M[i].next
    <3> SUFFICES ASSUME NEW i \in 1..Len(M), NEW c \in ColumnFamily, NEW f \in M[i].add[c]
                 PROVE  f < M[i].next
      OBVIOUS
    <3>1. CASE i \in 1..L
      BY <1>1, <1>6, <3>1 DEF LogOK
    <3>2. CASE i = L + 1
      BY Zenon, <1>4, <1>6, <3>2 DEF EditOK
    <3> QED BY Zenon, <1>9, <3>1, <3>2
  <2>3. \A i, j \in 1..Len(M), d, c \in ColumnFamily :
          \A f \in M[i].add[d] : f \in M[j].add[c] => i = j /\ d = c
    <3> SUFFICES ASSUME NEW i \in 1..Len(M), NEW j \in 1..Len(M), NEW d \in ColumnFamily,
                        NEW c \in ColumnFamily, NEW f \in M[i].add[d], f \in M[j].add[c]
                 PROVE  i = j /\ d = c
      BY Zenon
    <3>1. ASSUME NEW k \in 1..L, NEW b \in ColumnFamily, f \in M[k].add[b]
          PROVE  f \in Added(manifest, b)
      BY Zenon, <1>6, <3>1 DEF Added
    <3>2. ASSUME NEW b \in ColumnFamily, f \in M[L + 1].add[b]
          PROVE  b = cf /\ \A x \in ColumnFamily : f \notin Added(manifest, x)
      BY Zenon, <1>4, <1>6, <3>2 DEF EditOK
    <3>3. CASE i \in 1..L /\ j \in 1..L
      BY <1>1, <1>6, <3>3 DEF LogOK
    <3>4. CASE i = L + 1 /\ j = L + 1
      BY Zenon, <3>2, <3>4
    <3>5. CASE i \in 1..L /\ j = L + 1
      BY Zenon, <3>1, <3>2, <3>5
    <3>6. CASE i = L + 1 /\ j \in 1..L
      BY Zenon, <3>1, <3>2, <3>6
    <3> QED BY Zenon, <1>9, <3>3, <3>4, <3>5, <3>6
  <2>4. \A i \in 1..Len(M), c \in ColumnFamily : \A f \in M[i].del[c] :
          \E j \in 1..Len(M) : j < i /\ f \in M[j].add[c]
    <3> SUFFICES ASSUME NEW i \in 1..Len(M), NEW c \in ColumnFamily, NEW f \in M[i].del[c]
                 PROVE  \E j \in 1..Len(M) : j < i /\ f \in M[j].add[c]
      OBVIOUS
    <3>1. CASE i \in 1..L
      BY <1>1, <1>6, <1>9, <3>1, SMTT(40) DEF LogOK
    <3>2. CASE i = L + 1
      <4>1. c = cf /\ f \in del
        BY Zenon, <1>4, <1>6, <3>2
      <4>2. PICK j \in 1..L : f \in manifest[j].add[c]
        BY <4>1 DEF EditOK, Added
      <4>3. j < i
        BY <1>3, <3>2
      <4> QED BY Zenon, <1>6, <1>9, <4>2, <4>3
    <3> QED BY Zenon, <1>9, <3>1, <3>2
  <2> QED BY Zenon, <2>1, <2>2, <2>3, <2>4 DEF LogOK
<1>12. del \subseteq DeletedBy(M, Len(M), cf)
  <2>1. M[L + 1].del[cf] = del /\ L + 1 \in 1..Len(M)
    BY <1>4, <1>6, <1>9
  <2> QED BY Zenon, <2>1 DEF DeletedBy
<1>13. /\ Added(M, cf) = Added(manifest, cf) \cup add
       /\ Deleted(M, cf) = Deleted(manifest, cf) \cup del
  BY Zenon, <1>2, <1>4, <1>7
<1>14. \A c \in ColumnFamily \ {cf} : /\ Added(M, c) = Added(manifest, c)
                                     /\ Deleted(M, c) = Deleted(manifest, c)
  BY <1>4, <1>7, Zenon
<1>15. LogAfter(M, cf, add, del)
  BY Zenon, <1>6, <1>8, <1>11, <1>12, <1>13, <1>14 DEF LogAfter
<1> QED BY Zenon, <1>15 DEF M, r

\* What BatchFinishFiles, DeleteInputBlobFiles, DeleteBlobFilesInRanges and
\* DropColumnFamilies have in common.
EditStep(cf, add, del) ==
  /\ open_pc = "open"
  /\ EditOK(cf, add, del)
  /\ \/ LogAndApply(cf, add, del)
     \/ LogAndApplyFails(cf, add, del)
     \/ UNCHANGED <<logVars, files, obsolete_files>>
  /\ building' \subseteq building /\ \A b \in building' : b[1] \notin add
  /\ dropping' \subseteq dropping
  /\ obsolete_columns' \subseteq obsolete_columns \cup dropping
  /\ gc' \in Files
  /\ \A c \in ColumnFamily : gc'[c] = gc[c] \/ gc'[c] = {}
  /\ del # {} /\ "ranges" \notin Options => gc'[cf] = {}
  /\ bg_error' \in BOOLEAN
  /\ UNCHANGED <<base, handles, column_families, destroyed, next_file_number,
                 disk, purging, open_pc>>

\* Every caller of LogAndApply makes such a step: its arguments are in order.
LEMMA EditsAreSteps ==
  ASSUME IInv, Edits
  PROVE  \E cf, add, del : EditStep(cf, add, del)
<1> USE DEF IInv
<1>0. gc \in Files /\ bg_error \in BOOLEAN /\ building \subseteq File \X ColumnFamily
  BY DEF TypeOK
<1>1. ASSUME NEW b \in building, BatchFinishFiles(b[1], b[2])
      PROVE  EditStep(b[2], {b[1]}, {})
  <2>1. b = <<b[1], b[2]>>
    BY <1>0
  <2>2. <<b[2], {b[1]}, {}>> \in Logging
    BY Zenon DEF Logging
  <2>3. EditOK(b[2], {b[1]}, {})
    BY <2>2, LoggingOK
  <2>4. building' = building \ {b}
    BY Zenon, <1>1, <2>1 DEF BatchFinishFiles
  <2>5. building' \subseteq building /\ \A d \in building' : d[1] \notin {b[1]}
    BY Zenon, <2>4 DEF BuildingOK
  <2> QED BY Zenon, <1>0, <1>1, <2>3, <2>5 DEF EditStep, BatchFinishFiles, logVars
<1>2. ASSUME NEW cf \in ColumnFamily, DeleteInputBlobFiles(cf)
      PROVE  EditStep(cf, {}, gc[cf])
  <2>1. <<cf, {}, gc[cf]>> \in Logging
    BY Zenon, <1>2 DEF Logging, DeleteInputBlobFiles
  <2>2. EditOK(cf, {}, gc[cf])
    BY <2>1, LoggingOK
  <2>3. gc' \in Files /\ gc'[cf] = {} /\ \A c \in ColumnFamily : gc'[c] = gc[c] \/ gc'[c] = {}
    BY <1>0, <1>2 DEF DeleteInputBlobFiles, Files
  <2> QED BY Zenon, <1>0, <1>2, <2>2, <2>3 DEF EditStep, DeleteInputBlobFiles
<1>3. ASSUME NEW cf \in ColumnFamily, NEW fs \in InRanges(cf), DeleteBlobFilesInRanges(cf, fs)
      PROVE  EditStep(cf, {}, fs)
  <2>1. <<cf, {}, fs>> \in Logging
    <3>1. <<cf, {}, fs>> \in {<<cf, {}, g>> : g \in InRanges(cf)}
      OBVIOUS
    <3> QED BY <3>1, ZenonT(40) DEF Logging
  <2>2. EditOK(cf, {}, fs)
    BY <2>1, LoggingOK
  <2>3. "ranges" \in Options
    BY Zenon DEF InRanges
  <2> QED BY Zenon, <1>0, <1>3, <2>2, <2>3 DEF EditStep, DeleteBlobFilesInRanges, jobVars
<1>4. ASSUME NEW cf \in ColumnFamily, DropColumnFamilies(cf)
      PROVE  EditStep(cf, {}, Live(cf))
  <2>1. cf \in dropping
    BY Zenon, <1>4 DEF DropColumnFamilies
  <2>2. <<cf, {}, Live(cf)>> \in Logging
    BY Zenon, <2>1 DEF Logging
  <2>3. EditOK(cf, {}, Live(cf))
    BY <2>2, LoggingOK
  <2>4. gc' = gc /\ gc[cf] = {}
    BY Zenon, <1>4, <2>1 DEF DropColumnFamilies, JobsOK
  <2> QED BY Zenon, <1>0, <1>4, <2>1, <2>3, <2>4 DEF EditStep, DropColumnFamilies
<1> QED BY Zenon, <1>1, <1>2, <1>3, <1>4 DEF Edits

\* What an edit does to the manifest and the storages, when it is logged and
\* applied, when it fails, and when its record is written but not synced.
EditDone(cf, add, del) ==
  /\ manifest' \in Seq(Edit) /\ synced' \in 1..Len(manifest')
  /\ LogOK(manifest')
  /\ manifest'[Len(manifest')].next <= next_file_number
  /\ Added(manifest, cf) \subseteq Added(manifest', cf)
  /\ Added(manifest', cf) \subseteq Added(manifest, cf) \cup add
  /\ \A c \in ColumnFamily \ {cf} : Added(manifest', c) = Added(manifest, c)
  /\ \A c \in ColumnFamily :
       DeletedBy(manifest, synced, c) \subseteq DeletedBy(manifest', synced', c)
  /\ \/ UNCHANGED <<files, obsolete_files>>
     \/ /\ cf \in column_families
        /\ files' = [files EXCEPT ![cf] = @ \cup add]
        /\ obsolete_files' = [obsolete_files EXCEPT ![cf] = @ \cup del]
        /\ add \subseteq Added(manifest', cf)
        /\ del \subseteq files[cf]
        /\ del \subseteq DeletedBy(manifest', synced', cf)

\* LogAndApply does that, whether the record is synced, lost or left unsynced.
LEMMA EditGrows ==
  ASSUME IInv, NEW cf, NEW add, NEW del, EditStep(cf, add, del)
  PROVE  EditDone(cf, add, del)
<1> DEFINE M == Append(manifest, Record(cf, add, del))
<1>1. manifest \in Seq(Edit) /\ synced \in 1..Len(manifest) /\ Len(manifest) \in Nat
  BY DEF IInv, TypeOK, Edit
<1>2. EditOK(cf, add, del) /\ cf \in ColumnFamily /\ IsOpen /\ LogOK(manifest)
      /\ manifest[Len(manifest)].next <= next_file_number
  BY Zenon DEF EditStep, EditOK, IsOpen, IInv, PhaseOK
<1>3. LogAfter(M, cf, add, del)
  BY <1>2, LogAppend
<1> HIDE DEF M
<1> USE DEF LogAfter
<1>4. CASE manifest' = manifest /\ synced' = synced /\ UNCHANGED <<files, obsolete_files>>
  BY Zenon, <1>1, <1>2, <1>4 DEF EditDone
<1>5. ASSUME NEW n \in synced..Len(M), NEW c \in ColumnFamily
      PROVE  DeletedBy(manifest, synced, c) \subseteq DeletedBy(M, n, c)
  <2>1. synced \in Nat /\ n \in Nat /\ synced <= n /\ \A i \in 1..synced : manifest[i] = M[i]
    BY <1>1, <1>3
  <2> QED BY <2>1, DeletedByMore
<1>6. CASE manifest' = M /\ synced' = synced /\ UNCHANGED <<files, obsolete_files>>
  <2>1. synced \in 1..Len(M) /\ synced \in synced..Len(M)
    BY <1>1, <1>3
  <2> QED BY Zenon, <1>3, <1>5, <1>6, <2>1 DEF EditDone
<1>7. CASE LogAndApply(cf, add, del)
  <2>1. manifest' = M /\ synced' = Len(M)
    BY Zenon, <1>7 DEF LogAndApply, M
  <2>2. Len(M) \in 1..Len(M) /\ Len(M) \in synced..Len(M)
    BY <1>1, <1>3
  <2>3. /\ manifest' \in Seq(Edit) /\ synced' \in 1..Len(manifest')
        /\ LogOK(manifest')
        /\ manifest'[Len(manifest')].next <= next_file_number
        /\ Added(manifest', cf) = Added(manifest, cf) \cup add
        /\ \A c \in ColumnFamily \ {cf} : Added(manifest', c) = Added(manifest, c)
        /\ \A c \in ColumnFamily :
             DeletedBy(manifest, synced, c) \subseteq DeletedBy(manifest', synced', c)
    BY Zenon, <1>3, <1>5, <2>1, <2>2
  <2>4. CASE cf \in column_families
    <3>1. del \subseteq files[cf]
      BY Zenon, <1>7, <2>4 DEF LogAndApply, Seal, Live
    <3>2. /\ files' = [files EXCEPT ![cf] = @ \cup add]
          /\ obsolete_files' = [obsolete_files EXCEPT ![cf] = @ \cup del]
      BY Zenon, <1>7, <2>4 DEF LogAndApply
    <3>3. del \subseteq DeletedBy(manifest', synced', cf)
      BY Zenon, <1>3, <2>1
    <3> QED BY Zenon, <2>3, <2>4, <3>1, <3>2, <3>3 DEF EditDone
  <2>5. CASE cf \notin column_families
    <3>1. UNCHANGED <<files, obsolete_files>>
      BY Zenon, <1>7, <2>5 DEF LogAndApply
    <3> QED BY Zenon, <2>3, <3>1 DEF EditDone
  <2> QED BY Zenon, <2>4, <2>5
<1> QED BY Zenon, <1>4, <1>6, <1>7 DEF EditStep, LogAndApplyFails, M, logVars

-----------------------------------------------------------------------------
(* IInv is preserved, one group of actions at a time.                      *)

\* The files the storages have after an edit.
LEMMA EditFiles ==
  ASSUME IInv, NEW cf, NEW add, NEW del, EditStep(cf, add, del)
  PROVE  /\ files' \in Files /\ obsolete_files' \in Files
         /\ \A c \in ColumnFamily :
              /\ files[c] \subseteq files'[c]
              /\ obsolete_files[c] \subseteq obsolete_files'[c]
              /\ \A f \in files'[c] :
                   \/ f \in files[c]
                   \/ /\ c = cf /\ f \in add /\ cf \in column_families
                      /\ f \in Added(manifest', c)
              /\ \A f \in obsolete_files'[c] :
                   \/ f \in obsolete_files[c]
                   \/ f \in files[c] /\ f \in DeletedBy(manifest', synced', c)
<1>1. EditDone(cf, add, del)
  BY EditGrows
<1>2. /\ cf \in ColumnFamily /\ add \in SUBSET File /\ del \in SUBSET File
      /\ files \in Files /\ obsolete_files \in Files
  BY DEF EditStep, EditOK, IInv, TypeOK
<1>3. CASE UNCHANGED <<files, obsolete_files>>
  BY Zenon, <1>2, <1>3
<1>4. CASE /\ cf \in column_families
           /\ files' = [files EXCEPT ![cf] = @ \cup add]
           /\ obsolete_files' = [obsolete_files EXCEPT ![cf] = @ \cup del]
           /\ add \subseteq Added(manifest', cf)
           /\ del \subseteq files[cf]
           /\ del \subseteq DeletedBy(manifest', synced', cf)
  <2>1. files' \in Files /\ obsolete_files' \in Files
    BY <1>2, <1>4 DEF Files
  <2>2. /\ files'[cf] = files[cf] \cup add
        /\ obsolete_files'[cf] = obsolete_files[cf] \cup del
        /\ \A c \in ColumnFamily \ {cf} : /\ files'[c] = files[c]
                                         /\ obsolete_files'[c] = obsolete_files[c]
    BY <1>2, <1>4 DEF Files
  <2> QED BY <1>4, <2>1, <2>2
<1> QED BY Zenon, <1>1, <1>3, <1>4 DEF EditDone

\* Edits preserve IInv (LogAndApply, its errors included).
LEMMA EditsKeep ==
  ASSUME IInv, Edits
  PROVE  IInv'
<1>1. PICK cf, add, del : EditStep(cf, add, del)
  BY EditsAreSteps
<1>2. EditDone(cf, add, del)
  BY <1>1, EditGrows
<1>3. /\ files' \in Files /\ obsolete_files' \in Files
      /\ \A c \in ColumnFamily :
           /\ files[c] \subseteq files'[c]
           /\ obsolete_files[c] \subseteq obsolete_files'[c]
           /\ \A f \in files'[c] :
                \/ f \in files[c]
                \/ /\ c = cf /\ f \in add /\ cf \in column_families
                   /\ f \in Added(manifest', c)
           /\ \A f \in obsolete_files'[c] :
                \/ f \in obsolete_files[c]
                \/ f \in files[c] /\ f \in DeletedBy(manifest', synced', c)
  BY <1>1, EditFiles
<1>4. /\ cf \in ColumnFamily /\ base[cf] # "new"
      /\ \A f \in add : /\ f \in disk
                        /\ \A c \in ColumnFamily : f \notin Added(manifest, c)
      /\ open_pc = "open" /\ open_pc' = "open"
      /\ base' = base /\ handles' = handles /\ column_families' = column_families
      /\ destroyed' = destroyed /\ next_file_number' = next_file_number
      /\ disk' = disk /\ purging' = purging
      /\ building' \subseteq building /\ \A b \in building' : b[1] \notin add
      /\ dropping' \subseteq dropping
      /\ obsolete_columns' \subseteq obsolete_columns \cup dropping
      /\ gc' \in Files /\ \A c \in ColumnFamily : gc'[c] = gc[c] \/ gc'[c] = {}
      /\ bg_error' \in BOOLEAN
  BY Zenon, <1>1 DEF EditStep, EditOK
<1>5. \A c \in ColumnFamily : /\ Added(manifest, c) \subseteq Added(manifest', c)
                              /\ \A f \in Added(manifest', c) :
                                   f \in Added(manifest, c) \/ (c = cf /\ f \in add)
  BY <1>2 DEF EditDone
<1>6. /\ manifest' \in Seq(Edit) /\ synced' \in 1..Len(manifest')
      /\ LogOK(manifest')
      /\ manifest'[Len(manifest')].next <= next_file_number
      /\ \A c \in ColumnFamily :
           DeletedBy(manifest, synced, c) \subseteq DeletedBy(manifest', synced', c)
  BY Zenon, <1>2 DEF EditDone
<1>7. TypeOK'
  BY <1>3, <1>4, <1>6 DEF IInv, TypeOK, Edit
<1>8. PhaseOK'
  BY Zenon, <1>4, <1>6 DEF PhaseOK, IsOpen
<1>9. BuildingOK'
  BY Zenon, <1>4, <1>5 DEF IInv, BuildingOK
<1>10. StoragesOK'
  BY <1>3, <1>4, <1>5, <1>6 DEF IInv, StoragesOK
<1>11. PurgingOK'
  BY Zenon, <1>3, <1>4, <1>5, <1>6 DEF IInv, PurgingOK
<1>12. DiskOK'
  BY <1>4, <1>5, <1>6 DEF IInv, DiskOK
<1>13. HandlesOK'
  BY Zenon, <1>4, <1>5 DEF IInv, HandlesOK
<1>14. JobsOK'
  BY Zenon, <1>4, <1>5 DEF IInv, JobsOK
<1> QED BY Zenon, <1>6, <1>7, <1>8, <1>9, <1>10, <1>11, <1>12, <1>13, <1>14 DEF IInv

\* Files come and go on disk (NewFile, BatchDeleteFiles, DeletePurgedFiles).
LEMMA DiskStepsKeep ==
  ASSUME IInv,
         \/ \E cf \in ColumnFamily : NewFile(cf)
         \/ \E b \in building : BatchDeleteFiles(b[1], b[2])
         \/ DeletePurgedFiles
  PROVE  IInv'
<1> USE DEF IInv
<1> USE DEF memVars, logVars, jobVars
<1>0. /\ manifest \in Seq(Edit) /\ Len(manifest) >= 1 /\ LogOK(manifest)
      /\ building \subseteq File \X ColumnFamily
      /\ manifest[Len(manifest)].next \in Int
      /\ next_file_number \in Int
      /\ File \subseteq Int
  <2>1. /\ manifest \in Seq(Edit) /\ synced \in 1..Len(manifest)
        /\ building \subseteq File \X ColumnFamily
        /\ next_file_number \in Int
    BY CatalogAssumption DEF TypeOK, Edit
  <2>2. Len(manifest) >= 1
    BY <2>1
  <2>3. manifest[Len(manifest)] \in Edit
    BY <2>1, <2>2
  <2>4. manifest[Len(manifest)].next \in Int
    BY <2>3, CatalogAssumption DEF Edit
  <2> QED BY <2>1, <2>2, <2>4, CatalogAssumption DEF File
<1>1. ASSUME NEW cf \in ColumnFamily, NewFile(cf) PROVE IInv'
  <2> DEFINE n == next_file_number
  <2>1. /\ open_pc = "open" /\ base[cf] = "live" /\ n \in File
        /\ next_file_number' = n + 1 /\ disk' = disk \cup {n}
        /\ building' = building \cup {<<n, cf>>}
        /\ UNCHANGED <<base, handles, column_families, obsolete_columns, files,
                       obsolete_files, destroyed, manifest, synced, dropping, gc,
                       purging, open_pc, bg_error>>
    BY Zenon, <1>1 DEF NewFile
  <2>2. manifest[Len(manifest)].next <= n
    BY Zenon, <2>1 DEF PhaseOK, IsOpen
  <2>3. \A c \in ColumnFamily : n \notin Added(manifest, c)
    <3> SUFFICES ASSUME NEW c \in ColumnFamily, n \in Added(manifest, c) PROVE FALSE
      BY Zenon
    <3>1. n < manifest[Len(manifest)].next
      BY <1>0, AddedBelowNext
    <3> QED BY <1>0, <2>2, <3>1
  <2>4. TypeOK'
    <3>1. /\ next_file_number' \in 1..(MaxFile + 1)
          /\ disk' \subseteq File
          /\ building' \subseteq File \X ColumnFamily
      BY <1>0, <2>1, CatalogAssumption DEF TypeOK, File
    <3> QED BY Zenon, <2>1, <3>1 DEF TypeOK
  <2>5. PhaseOK'
    <3>1. manifest[Len(manifest)].next <= n + 1
      BY <1>0, <2>2
    <3> QED BY Zenon, <2>1, <3>1 DEF PhaseOK, IsOpen
  <2>6. BuildingOK'
    <3>1. ASSUME NEW b \in building PROVE b[1] < n + 1 /\ b[1] # n /\ b[1] \in disk'
      <4>1. b[1] < n /\ b[1] \in disk
        BY Zenon DEF BuildingOK
      <4>2. b[1] \in Int
        BY <1>0, Zenon
      <4> QED BY <1>0, <2>1, <4>1, <4>2
    <3>2. <<n, cf>>[1] = n /\ <<n, cf>>[2] = cf /\ n < n + 1
      BY <1>0
    <3>3. \A b \in building' : b \in building \/ b = <<n, cf>>
      BY Zenon, <2>1
    <3> SUFFICES ASSUME NEW b \in building'
                 PROVE  /\ b[1] < next_file_number' /\ b[1] \in disk'
                        /\ base'[b[2]] # "new"
                        /\ \A c \in ColumnFamily : b[1] \notin Added(manifest', c)
                        /\ \A d \in building' : b[1] = d[1] => b = d
      BY Zenon DEF BuildingOK
    <3>4. CASE b \in building
      BY Zenon, <2>1, <3>1, <3>2, <3>3, <3>4 DEF BuildingOK
    <3>5. CASE b = <<n, cf>>
      <4>1. b[1] = n /\ b[2] = cf
        BY <3>5
      <4>2. "live" # "new" /\ n \in disk'
        BY <2>1
      <4> QED BY Zenon, <2>1, <2>3, <3>1, <3>2, <3>3, <3>5, <4>1, <4>2
    <3> QED BY Zenon, <3>3, <3>4, <3>5
  <2>7. StoragesOK'
    BY Zenon, <2>1 DEF StoragesOK
  <2>8. PurgingOK'
    BY Zenon, <2>1 DEF PurgingOK
  <2>9. DiskOK'
    BY <2>1 DEF DiskOK
  <2>10. HandlesOK' /\ JobsOK'
    BY Zenon, <2>1 DEF HandlesOK, JobsOK
  <2>11. LogOK(manifest)'
    BY Zenon, <2>1
  <2> QED BY Zenon, <2>4, <2>5, <2>6, <2>7, <2>8, <2>9, <2>10, <2>11
<1>2. ASSUME NEW gone, disk' = disk \ gone,
             \A b \in building' : b \in building /\ b[1] \notin gone,
             \A cf \in ColumnFamily, f \in gone : f \notin files[cf],
             \A cf \in ColumnFamily, f \in gone :
               f \in Added(manifest, cf) => f \in DeletedBy(manifest, synced, cf),
             purging' = purging \/ purging' = {},
             UNCHANGED <<base, handles, memVars, next_file_number, logVars,
                         dropping, gc, open_pc, bg_error>>
      PROVE  IInv'
  <2>1. TypeOK'
    BY <1>2 DEF TypeOK
  <2>2. PhaseOK'
    BY Zenon, <1>2 DEF PhaseOK, IsOpen, OpenedCFs
  <2>3. BuildingOK'
    BY <1>2 DEF BuildingOK
  <2>4. StoragesOK'
    BY <1>2 DEF StoragesOK
  <2>5. PurgingOK'
    BY Zenon, <1>2 DEF PurgingOK
  <2>6. DiskOK'
    BY <1>2 DEF DiskOK
  <2>7. HandlesOK' /\ JobsOK'
    BY Zenon, <1>2 DEF HandlesOK, JobsOK
  <2>8. LogOK(manifest)'
    BY Zenon, <1>2
  <2> QED BY Zenon, <2>1, <2>2, <2>3, <2>4, <2>5, <2>6, <2>7, <2>8
<1>3. ASSUME NEW b \in building, BatchDeleteFiles(b[1], b[2]) PROVE IInv'
  <2>1. b = <<b[1], b[2]>>
    BY <1>0
  <2>2. building' = building \ {b} /\ disk' = disk \ {b[1]}
    BY Zenon, <1>3, <2>1 DEF BatchDeleteFiles
  <2>3. \A d \in building' : d \in building /\ d[1] \notin {b[1]}
    BY Zenon, <2>2 DEF BuildingOK
  <2>4. \A cf \in ColumnFamily : b[1] \notin Added(manifest, cf)
    BY Zenon DEF BuildingOK
  <2>5. \A cf \in ColumnFamily, f \in {b[1]} : f \notin files[cf]
    <3>1. \A cf \in ColumnFamily : files[cf] \subseteq Added(manifest, cf)
      BY Zenon DEF StoragesOK
    <3> QED BY Zenon, <2>4, <3>1
  <2> QED BY <1>2, <1>3, <2>2, <2>3, <2>4, <2>5, ZenonT(40) DEF BatchDeleteFiles
<1>4. ASSUME DeletePurgedFiles PROVE IInv'
  <2>1. \A d \in building' : d \in building /\ d[1] \notin purging
    BY Zenon, <1>4 DEF DeletePurgedFiles, BuildingOK, PurgingOK
  <2>2. \A cf \in ColumnFamily, f \in purging : f \notin files[cf]
    BY Zenon DEF PurgingOK
  <2>3. ASSUME NEW cf \in ColumnFamily, NEW f \in purging, f \in Added(manifest, cf)
        PROVE  f \in DeletedBy(manifest, synced, cf)
    <3>1. PICK c \in ColumnFamily : f \in Added(manifest, c) /\ f \in DeletedBy(manifest, synced, c)
      BY Zenon DEF PurgingOK
    <3>2. cf = c
      BY Zenon, <1>0, <2>3, <3>1, OneOwner
    <3> QED BY Zenon, <3>1, <3>2
  <2> QED BY Zenon, <1>2, <1>4, <2>1, <2>2, <2>3 DEF DeletePurgedFiles
<1> QED BY Zenon, <1>1, <1>3, <1>4

\* GC starts, column families are created and dropped in the base DB.
LEMMA JobStepsKeep ==
  ASSUME IInv, NEW cf \in ColumnFamily,
         \/ \E fs \in SUBSET Live(cf) : PickBlobGC(cf, fs)
         \/ CreateColumnFamily(cf)
         \/ BaseDropColumnFamily(cf)
  PROVE  IInv'
<1> USE DEF IInv
<1> USE DEF memVars, logVars, jobVars
<1>0. /\ base \in [ColumnFamily -> {"new", "live", "dropped"}]
      /\ gc \in Files /\ files \in Files
  BY DEF TypeOK
<1>1. ASSUME NEW fs \in SUBSET Live(cf), PickBlobGC(cf, fs) PROVE IInv'
  <2>1. /\ open_pc = "open" /\ dropping = {} /\ base[cf] = "live"
        /\ gc' = [gc EXCEPT ![cf] = fs]
        /\ UNCHANGED <<base, handles, column_families, obsolete_columns, files,
                       obsolete_files, destroyed, next_file_number, manifest,
                       synced, disk, building, dropping, purging, open_pc, bg_error>>
    BY Zenon, <1>1 DEF PickBlobGC
  <2>2. gc'[cf] = fs /\ \A c \in ColumnFamily \ {cf} : gc'[c] = gc[c]
    BY <1>0, <2>1 DEF Files
  <2>3. fs \subseteq files[cf] /\ fs \subseteq Added(manifest, cf)
    BY Zenon DEF Live, StoragesOK
  <2>4. gc' \in Files
    BY <1>0, <2>1, <2>3 DEF Files
  <2>5. TypeOK'
    BY Zenon, <2>1, <2>4 DEF TypeOK
  <2>6. PhaseOK'
    BY Zenon, <2>1 DEF PhaseOK, IsOpen
  <2>7. BuildingOK' /\ StoragesOK' /\ PurgingOK' /\ DiskOK' /\ HandlesOK' /\ LogOK(manifest)'
    BY Zenon, <2>1 DEF BuildingOK, StoragesOK, PurgingOK, DiskOK, HandlesOK
  <2>8. JobsOK'
    BY <2>1, <2>2, <2>3 DEF JobsOK
  <2> QED BY Zenon, <2>5, <2>6, <2>7, <2>8
<1>2. ASSUME CreateColumnFamily(cf) PROVE IInv'
  <2>1. /\ open_pc = "open" /\ base[cf] = "new"
        /\ base' = [base EXCEPT ![cf] = "live"]
        /\ handles' = handles \cup {cf}
        /\ column_families' = column_families \cup {cf}
        /\ UNCHANGED <<obsolete_columns, files, obsolete_files, destroyed,
                       next_file_number, manifest, synced, disk, building,
                       dropping, gc, purging, open_pc, bg_error>>
    BY Zenon, <1>2 DEF CreateColumnFamily
  <2>2. base'[cf] = "live" /\ \A c \in ColumnFamily \ {cf} : base'[c] = base[c]
    BY <1>0, <2>1
  <2>3. cf \notin column_families /\ Added(manifest, cf) = {}
    BY Zenon, <2>1 DEF HandlesOK
  <2>4. TypeOK'
    BY <2>1, <2>3 DEF TypeOK
  <2>5. PhaseOK'
    BY Zenon, <2>1 DEF PhaseOK, IsOpen
  <2>6. BuildingOK'
    <3>1. \A b \in building : b[2] \in ColumnFamily
      BY DEF TypeOK
    <3>2. \A b \in building : base'[b[2]] # "new"
      BY <2>2, <3>1 DEF BuildingOK
    <3> QED BY Zenon, <2>1, <3>2 DEF BuildingOK
  <2>7. StoragesOK' /\ PurgingOK' /\ LogOK(manifest)'
    BY Zenon, <2>1 DEF StoragesOK, PurgingOK
  <2>8. DiskOK'
    BY <2>1, <2>2, <2>3 DEF DiskOK
  <2>9. HandlesOK'
    BY <2>1, <2>2 DEF HandlesOK
  <2>10. JobsOK'
    <3>1. destroyed \subseteq ColumnFamily /\ cf \notin destroyed
      BY Zenon, <2>3 DEF TypeOK
    <3> QED BY <2>1, <2>2, <3>1 DEF JobsOK
  <2> QED BY Zenon, <2>4, <2>5, <2>6, <2>7, <2>8, <2>9, <2>10
<1>3. ASSUME BaseDropColumnFamily(cf) PROVE IInv'
  <2>1. /\ open_pc = "open" /\ base[cf] = "live" /\ cf \in handles
        /\ \A c \in ColumnFamily : gc[c] = {}
        /\ base' = [base EXCEPT ![cf] = "dropped"]
        /\ dropping' = dropping \cup {cf}
        /\ UNCHANGED <<handles, column_families, obsolete_columns, files,
                       obsolete_files, destroyed, next_file_number, manifest,
                       synced, disk, building, gc, purging, open_pc, bg_error>>
    BY Zenon, <1>3 DEF BaseDropColumnFamily, NoGCRunning
  <2>2. base'[cf] = "dropped" /\ \A c \in ColumnFamily \ {cf} : base'[c] = base[c]
    BY <1>0, <2>1
  <2>3. TypeOK'
    BY <2>1 DEF TypeOK, HandlesOK
  <2>4. PhaseOK'
    BY Zenon, <2>1 DEF PhaseOK, IsOpen
  <2>5. BuildingOK'
    <3>1. \A b \in building : b[2] \in ColumnFamily
      BY DEF TypeOK
    <3>2. \A b \in building : base'[b[2]] # "new"
      BY <2>2, <3>1 DEF BuildingOK
    <3> QED BY Zenon, <2>1, <3>2 DEF BuildingOK
  <2>6. StoragesOK' /\ PurgingOK' /\ LogOK(manifest)'
    BY Zenon, <2>1 DEF StoragesOK, PurgingOK
  <2>7. DiskOK' /\ HandlesOK'
    BY <2>1, <2>2 DEF DiskOK, HandlesOK
  <2>8. JobsOK'
    <3>1. destroyed \subseteq ColumnFamily
      BY Zenon DEF TypeOK
    <3> QED BY <2>1, <2>2, <3>1 DEF JobsOK
  <2> QED BY Zenon, <2>3, <2>4, <2>5, <2>6, <2>7, <2>8
<1> QED BY Zenon, <1>1, <1>2, <1>3

\* Storages are erased, of destroyed column families without obsolete files
\* (MarkDestroyed, MaybeRemove, GetObsoleteFiles).
LEMMA StorageStepsKeep ==
  ASSUME IInv,
         \/ \E cf \in ColumnFamily : DestroyColumnFamilyHandle(cf)
         \/ \E rem \in SUBSET Purgeable : GetObsoleteFiles(rem)
  PROVE  IInv'
<1> USE DEF IInv
<1> USE DEF memVars, logVars, jobVars
<1>0. files \in Files /\ obsolete_files \in Files
  BY DEF TypeOK
<1>1. ASSUME NEW cf \in ColumnFamily, DestroyColumnFamilyHandle(cf) PROVE IInv'
  <2>1. /\ open_pc = "open" /\ cf \in handles /\ cf \notin dropping
        /\ base[cf] = "dropped" \/ "destroy" \in Options
        /\ handles' = handles \ {cf}
        /\ obsolete_columns' = obsolete_columns \ {cf}
        /\ UNCHANGED <<base, next_file_number, manifest, synced, disk, building,
                       dropping, gc, purging, open_pc, bg_error>>
        /\ MarkDestroyed(cf)
    BY Zenon, <1>1 DEF DestroyColumnFamilyHandle, MaybeDestroyColumnFamily
  <2>2. /\ files' \in Files /\ obsolete_files' \in Files
        /\ column_families' \subseteq column_families
        /\ destroyed' \subseteq destroyed \cup {cf}
        /\ destroyed' \subseteq column_families'
        /\ \A c \in column_families : c \in column_families' \/ c = cf
        /\ \A c \in ColumnFamily :
             /\ files'[c] \subseteq files[c]
             /\ obsolete_files'[c] \subseteq obsolete_files[c]
             /\ obsolete_files'[c] \subseteq files'[c]
             /\ c \notin column_families' => files'[c] = {}
    <3>1. /\ cf \in column_families /\ destroyed \subseteq column_families
          /\ \A c \in ColumnFamily : /\ obsolete_files[c] \subseteq files[c]
                                     /\ c \notin column_families => files[c] = {}
      BY Zenon, <2>1 DEF HandlesOK, TypeOK, StoragesOK
    <3>2. CASE MaybeRemove(cf, destroyed \cup {cf}, obsolete_files)
      <4>1. Erase({cf}, files, obsolete_files)
        BY Zenon, <2>1, <3>2 DEF MarkDestroyed
      <4> QED BY <1>0, <3>1, <4>1 DEF Erase, Files
    <3>3. CASE ~MaybeRemove(cf, destroyed \cup {cf}, obsolete_files)
      <4>1. /\ destroyed' = destroyed \cup {cf}
            /\ UNCHANGED <<column_families, files, obsolete_files>>
        BY Zenon, <2>1, <3>3 DEF MarkDestroyed
      <4> QED BY Zenon, <1>0, <3>1, <4>1
    <3> QED BY Zenon, <3>2, <3>3
  <2>3. TypeOK'
    BY <2>1, <2>2 DEF TypeOK
  <2>4. PhaseOK'
    BY Zenon, <2>1 DEF PhaseOK, IsOpen
  <2>5. BuildingOK' /\ DiskOK' /\ LogOK(manifest)'
    BY Zenon, <2>1 DEF BuildingOK, DiskOK
  <2>6. StoragesOK'
    BY <2>1, <2>2 DEF StoragesOK
  <2>7. PurgingOK'
    BY Zenon, <2>1, <2>2 DEF PurgingOK
  <2>8. HandlesOK'
    BY Zenon, <2>1, <2>2 DEF HandlesOK
  <2>9. JobsOK'
    BY Zenon, <2>1, <2>2 DEF JobsOK
  <2> QED BY Zenon, <2>3, <2>4, <2>5, <2>6, <2>7, <2>8, <2>9
<1>2. ASSUME NEW rem \in SUBSET Purgeable, GetObsoleteFiles(rem) PROVE IInv'
  <2> DEFINE left == [cf \in ColumnFamily |-> obsolete_files[cf] \ rem]
             kept == [cf \in ColumnFamily |-> files[cf] \ rem]
             cfs  == {cf \in column_families \ obsolete_columns :
                        MaybeRemove(cf, destroyed, left)}
  <2>1. /\ open_pc = "open" /\ purging' = rem
        /\ Erase(cfs, kept, left)
        /\ UNCHANGED <<base, handles, obsolete_columns, next_file_number, manifest,
                       synced, disk, building, dropping, gc, open_pc, bg_error>>
    BY Zenon, <1>2 DEF GetObsoleteFiles
  <2>2. cfs \subseteq destroyed /\ destroyed \subseteq column_families \ handles
    BY Zenon DEF MaybeRemove, TypeOK
  <2> HIDE DEF cfs
  <2>3. /\ column_families' = column_families \ cfs
        /\ destroyed' = destroyed \ cfs
        /\ files' \in Files /\ obsolete_files' \in Files
        /\ \A c \in ColumnFamily :
             /\ files'[c] \subseteq files[c] \ rem
             /\ obsolete_files'[c] \subseteq obsolete_files[c]
             /\ obsolete_files'[c] \subseteq files'[c]
             /\ c \notin column_families' => files'[c] = {}
    <3>1. \A c \in ColumnFamily : /\ obsolete_files[c] \subseteq files[c]
                                  /\ c \notin column_families => files[c] = {}
      BY Zenon DEF StoragesOK
    <3> QED BY <1>0, <2>1, <3>1 DEF Erase, Files
  <2>4. \A f \in rem : \E c \in ColumnFamily : f \in obsolete_files[c]
    BY Zenon DEF Purgeable, TypeOK
  <2>5. TypeOK'
    <3>1. rem \subseteq File
      BY <1>0, <2>4 DEF Files
    <3> QED BY <2>1, <2>2, <2>3, <3>1 DEF TypeOK
  <2>6. PhaseOK'
    BY Zenon, <2>1 DEF PhaseOK, IsOpen
  <2>7. BuildingOK' /\ DiskOK' /\ LogOK(manifest)'
    BY Zenon, <2>1 DEF BuildingOK, DiskOK
  <2>8. StoragesOK'
    BY <2>1, <2>3, Zenon DEF StoragesOK
  <2>9. PurgingOK'
    <3> SUFFICES ASSUME NEW f \in rem
                 PROVE  /\ \A cf \in ColumnFamily : f \notin files'[cf]
                        /\ \E cf \in ColumnFamily : /\ f \in Added(manifest, cf)
                                                    /\ f \in DeletedBy(manifest, synced, cf)
      BY Zenon, <2>1 DEF PurgingOK
    <3>1. \A cf \in ColumnFamily : f \notin files'[cf]
      BY Zenon, <2>3
    <3>2. PICK c \in ColumnFamily : f \in obsolete_files[c]
      BY Zenon, <2>4
    <3>3. f \in Added(manifest, c) /\ f \in DeletedBy(manifest, synced, c)
      BY Zenon, <3>2 DEF StoragesOK
    <3> QED BY Zenon, <3>1, <3>3
  <2>10. HandlesOK'
    BY <2>1, <2>2, <2>3 DEF HandlesOK
  <2>11. JobsOK'
    BY Zenon, <2>1, <2>3 DEF JobsOK
  <2> QED BY Zenon, <2>5, <2>6, <2>7, <2>8, <2>9, <2>10, <2>11
<1> QED BY Zenon, <1>1, <1>2

\* A crash leaves a good manifest, wherever it hits.
LEMMA CrashKeeps ==
  ASSUME IInv, (\E n \in 1..MaxLog : Crash(n)) \/ CrashInLog
  PROVE  IInv'
<1> USE DEF IInv
<1>0. /\ manifest \in Seq(Edit) /\ synced \in 1..Len(manifest) /\ Len(manifest) \in Nat
      /\ LogOK(manifest)
  BY DEF TypeOK, Edit
<1>1. ASSUME LosesMemory, manifest' \in Seq(Edit), synced' = Len(manifest'),
             Len(manifest') >= 1, LogOK(manifest'),
             \A cf \in ColumnFamily :
               /\ DeletedBy(manifest, synced, cf) \subseteq DeletedBy(manifest', synced', cf)
               /\ \A f \in Added(manifest', cf) :
                    f \in Added(manifest, cf) \/ (base[cf] # "new" /\ f \in disk)
      PROVE  IInv'
  <2>1. /\ open_pc' = "closed" /\ handles' = {} /\ column_families' = {}
        /\ obsolete_columns' = {} /\ files' = NoFiles /\ obsolete_files' = NoFiles
        /\ destroyed' = {} /\ next_file_number' = 1 /\ building' = {}
        /\ dropping' = {} /\ gc' = NoFiles /\ purging' = {} /\ bg_error' = FALSE
        /\ base' = base /\ disk' = disk
    BY Zenon, <1>1 DEF LosesMemory
  <2>2. NoFiles \in Files /\ \A cf \in ColumnFamily : NoFiles[cf] = {}
    BY DEF NoFiles, Files
  <2>3. TypeOK'
    <3>1. 1 \in 1..(MaxFile + 1) /\ synced' \in 1..Len(manifest')
      BY <1>1, CatalogAssumption
    <3>2. manifest' \in Seq([add : Files, del : Files, next : 1..(MaxFile + 1)])
      BY Zenon, <1>1 DEF Edit
    <3> QED BY <2>1, <2>2, <3>1, <3>2, Zenon DEF TypeOK
  <2>4. PhaseOK'
    BY <2>1 DEF PhaseOK, IsOpen
  <2>5. BuildingOK' /\ PurgingOK'
    BY Zenon, <2>1 DEF BuildingOK, PurgingOK
  <2>6. StoragesOK'
    BY <2>1, <2>2 DEF StoragesOK
  <2>7. DiskOK'
    BY <1>1, <2>1 DEF DiskOK
  <2>8. HandlesOK'
    BY <1>1, <2>1 DEF HandlesOK
  <2>9. JobsOK'
    BY <2>1, <2>2 DEF JobsOK
  <2> QED BY Zenon, <1>1, <2>3, <2>4, <2>5, <2>6, <2>7, <2>8, <2>9
<1>2. ASSUME NEW n \in 1..MaxLog, Crash(n) PROVE IInv'
  <2>1. /\ LosesMemory /\ n \in synced..Len(manifest)
        /\ manifest' = SubSeq(manifest, 1, n) /\ synced' = n
    BY Zenon, <1>2 DEF Crash
  <2>2. n \in 1..Len(manifest)
    BY <1>0, <2>1
  <2>3. /\ manifest' \in Seq(Edit) /\ Len(manifest') = n
        /\ \A i \in 1..n : manifest'[i] = manifest[i]
    BY Zenon, <1>0, <2>1, <2>2, PrefixEdit
  <2>4. LogOK(manifest') /\ \A cf \in ColumnFamily : Added(manifest', cf) \subseteq Added(manifest, cf)
    BY Zenon, <1>0, <2>1, <2>2, LogPrefix
  <2>5. /\ synced \in Nat /\ n \in Nat /\ synced <= n /\ n >= 1
        /\ \A i \in 1..synced : manifest[i] = manifest'[i]
    BY <1>0, <2>1, <2>2, <2>3
  <2>6. \A cf \in ColumnFamily : DeletedBy(manifest, synced, cf) \subseteq DeletedBy(manifest', n, cf)
    BY <2>5, DeletedByMore
  <2> QED BY <1>1, <2>1, <2>3, <2>4, <2>5, <2>6
<1>3. ASSUME CrashInLog PROVE IInv'
  <2>1. /\ LosesMemory /\ open_pc = "open" /\ synced' = Len(manifest')
    BY Zenon, <1>3 DEF CrashInLog
  <2>2. PICK e \in Logging : manifest' = Append(manifest, Record(e[1], e[2], e[3]))
    BY Zenon, <1>3 DEF CrashInLog
  <2>3. EditOK(e[1], e[2], e[3]) /\ IsOpen
    BY <2>1, LoggingOK DEF IsOpen
  <2>4. LogAfter(manifest', e[1], e[2], e[3])
    BY Zenon, <2>2, <2>3, LogAppend
  <2>5. /\ manifest' \in Seq(Edit) /\ LogOK(manifest') /\ Len(manifest') = Len(manifest) + 1
        /\ \A i \in 1..Len(manifest) : manifest'[i] = manifest[i]
    BY Zenon, <2>4 DEF LogAfter
  <2>6. /\ synced \in Nat /\ Len(manifest') \in Nat /\ synced <= Len(manifest')
        /\ Len(manifest') >= 1
        /\ \A i \in 1..synced : manifest[i] = manifest'[i]
    BY <1>0, <2>5
  <2>7. \A cf \in ColumnFamily :
          DeletedBy(manifest, synced, cf) \subseteq DeletedBy(manifest', synced', cf)
    BY <2>1, <2>6, DeletedByMore
  <2>8. \A cf \in ColumnFamily : \A f \in Added(manifest', cf) :
          f \in Added(manifest, cf) \/ (base[cf] # "new" /\ f \in disk)
    <3> SUFFICES ASSUME NEW cf \in ColumnFamily, NEW f \in Added(manifest', cf),
                        f \notin Added(manifest, cf)
                 PROVE  base[cf] # "new" /\ f \in disk
      BY Zenon
    <3>1. cf = e[1] /\ f \in e[2]
      BY <2>4 DEF LogAfter
    <3> QED BY Zenon, <2>3, <3>1 DEF EditOK
  <2> QED BY Zenon, <1>1, <2>1, <2>5, <2>6, <2>7, <2>8
<1> QED BY Zenon, <1>2, <1>3

\* Recover and OpenManifest: the snapshot is a good manifest, its files are on
\* disk, and the deletion of inactive files leaves them there.
LEMMA RecoveryKeeps ==
  ASSUME IInv, Recover \/ RecoverCorruption \/ PurgeInactiveFiles
  PROVE  IInv'
<1> USE DEF IInv
<1> USE DEF memVars, logVars, jobVars
<1>0. /\ manifest \in Seq(Edit) /\ synced \in 1..Len(manifest) /\ Len(manifest) >= 1
      /\ LogOK(manifest)
  BY DEF TypeOK, Edit
<1>1. ASSUME Recover PROVE IInv'
  <2> DEFINE snap == [cf \in ColumnFamily |-> Recovered(cf)]
             r    == [add |-> snap, del |-> NoFiles, next |-> RecoveredNext]
  <2>1. /\ open_pc = "closed" /\ open_pc' = "purge"
        /\ RecoveredNext <= MaxFile + 1
        /\ handles' = OpenedCFs /\ column_families' = OpenedCFs
        /\ files' = snap
        /\ next_file_number' = RecoveredNext
        /\ manifest' = <<r>> /\ synced' = 1
        /\ UNCHANGED <<base, obsolete_columns, obsolete_files, destroyed, disk,
                       building, dropping, gc, purging, bg_error>>
    BY Zenon, <1>1 DEF Recover
  <2>2. ~IsOpen
    BY <2>1 DEF IsOpen
  <2>3. /\ handles = {} /\ column_families = {} /\ obsolete_files = NoFiles
        /\ building = {} /\ gc = NoFiles /\ purging = {}
    BY Zenon, <2>2 DEF PhaseOK
  <2>4. obsolete_columns = {} /\ destroyed = {} /\ dropping = {}
    BY <2>3 DEF TypeOK
  <2>5. \A cf \in ColumnFamily :
          /\ Recovered(cf) \subseteq Added(manifest, cf)
          /\ cf \notin OpenedCFs => Recovered(cf) = {}
          /\ Recovered(cf) \subseteq Durable(manifest, cf)
    BY Zenon DEF Recovered, Durable
  <2>6. \A cf \in ColumnFamily : Recovered(cf) \subseteq disk
    <3> SUFFICES ASSUME NEW cf \in ColumnFamily, NEW f \in Recovered(cf) PROVE f \in disk
      BY Zenon
    <3>1. cf \in OpenedCFs /\ f \in Added(manifest, cf) /\ f \notin Deleted(manifest, cf)
      BY Zenon, <2>5 DEF Durable
    <3>2. 1..synced \subseteq 1..Len(manifest)
      BY <1>0
    <3>3. f \notin DeletedBy(manifest, synced, cf)
      BY Zenon, <3>1, <3>2 DEF Deleted, DeletedBy
    <3> QED BY <3>1, <3>3 DEF DiskOK, OpenedCFs
  <2>7. \A cf \in ColumnFamily : \A f \in Recovered(cf) : f \in File /\ f < RecoveredNext
    <3> SUFFICES ASSUME NEW cf \in ColumnFamily, NEW f \in Recovered(cf)
                 PROVE  f \in File /\ f < RecoveredNext
      BY Zenon
    <3>1. f \in Added(manifest, cf)
      BY Zenon, <2>5
    <3>2. f \in File /\ f < manifest[Len(manifest)].next
      BY Zenon, <1>0, <3>1, AddedBelowNext
    <3>3. manifest[Len(manifest)] \in Edit
      BY <1>0
    <3>4. manifest[Len(manifest)].next \in Int /\ f \in Int
      BY <3>2, <3>3, CatalogAssumption DEF Edit, File
    <3> QED BY <3>2, <3>4 DEF RecoveredNext
  <2>8. RecoveredNext \in 1..(MaxFile + 1)
    <3>1. manifest[Len(manifest)] \in Edit
      BY <1>0
    <3> QED BY <2>1, <3>1, CatalogAssumption DEF Edit, RecoveredNext
  <2>9. NoFiles \in Files /\ \A cf \in ColumnFamily : NoFiles[cf] = {}
    BY DEF NoFiles, Files
  <2>10. snap \in Files /\ \A cf \in ColumnFamily : snap[cf] = Recovered(cf)
    BY Zenon, <2>7 DEF Files
  <2> HIDE DEF snap
  <2>11. r \in Edit /\ r.add = snap /\ r.del = NoFiles /\ r.next = RecoveredNext
    BY <2>8, <2>9, <2>10 DEF Edit
  <2> HIDE DEF r
  <2>12. /\ manifest' \in Seq(Edit) /\ Len(manifest') = 1 /\ manifest'[1] = r
         /\ 1..1 = {1}
    BY <2>1, <2>11
  <2>13. \A cf \in ColumnFamily : /\ Added(manifest', cf) = Recovered(cf)
                                  /\ DeletedBy(manifest', 1, cf) = {}
    BY <2>9, <2>10, <2>11, <2>12, ZenonT(60) DEF Added, DeletedBy
  <2>14. LogOK(manifest')
    <3>1. \A cf, c \in ColumnFamily : \A f \in Recovered(cf) : f \in Recovered(c) => cf = c
      BY Zenon, <1>0, <2>5, OneOwner
    <3>2. \A i, j \in 1..Len(manifest') : ~(i < j)
      BY <2>12
    <3>3. \A i \in 1..Len(manifest'), cf \in ColumnFamily :
            \A f \in manifest'[i].add[cf] : f < manifest'[i].next
      BY Zenon, <2>7, <2>10, <2>11, <2>12
    <3>4. \A i, j \in 1..Len(manifest'), cf, c \in ColumnFamily :
            \A f \in manifest'[i].add[cf] : f \in manifest'[j].add[c] => i = j /\ cf = c
      <4>1. \A i \in 1..Len(manifest') : i = 1 /\ manifest'[i] = r
        BY Zenon, <2>12
      <4>2. \A cf \in ColumnFamily : r.add[cf] = Recovered(cf)
        BY Zenon, <2>10, <2>11
      <4> QED BY <3>1, <4>1, <4>2
    <3>5. \A i \in 1..Len(manifest'), cf \in ColumnFamily : manifest'[i].del[cf] = {}
      BY Zenon, <2>9, <2>11, <2>12
    <3> QED BY Zenon, <3>2, <3>3, <3>4, <3>5 DEF LogOK
  <2>15. TypeOK'
    <3>1. OpenedCFs \subseteq ColumnFamily
      BY Zenon DEF OpenedCFs
    <3>2. manifest' \in Seq([add : Files, del : Files, next : 1..(MaxFile + 1)])
      BY Zenon, <2>12 DEF Edit
    <3>3. synced' \in 1..Len(manifest')
      BY <2>1, <2>12
    <3> QED BY <2>1, <2>4, <2>8, <2>10, <3>1, <3>2, <3>3 DEF TypeOK
  <2>16. PhaseOK'
    <3>1. /\ open_pc' = "purge" /\ IsOpen'
          /\ manifest'[Len(manifest')].next <= next_file_number'
      BY <2>1, <2>8, <2>11, <2>12 DEF IsOpen
    <3>2. /\ building' = {} /\ column_families' = OpenedCFs'
          /\ \A cf \in ColumnFamily : Added(manifest', cf) = files'[cf]
      BY Zenon, <2>1, <2>3, <2>10, <2>13 DEF OpenedCFs
    <3> QED BY Zenon, <3>1, <3>2 DEF PhaseOK
  <2>17. BuildingOK' /\ PurgingOK'
    BY Zenon, <2>1, <2>3 DEF BuildingOK, PurgingOK
  <2>18. StoragesOK'
    BY <2>1, <2>3, <2>5, <2>6, <2>9, <2>10, <2>13 DEF StoragesOK
  <2>19. DiskOK'
    BY <2>1, <2>6, <2>13 DEF DiskOK
  <2>20. HandlesOK'
    BY <2>1, <2>5, <2>13 DEF HandlesOK, OpenedCFs
  <2>21. JobsOK'
    BY <2>1, <2>3, <2>4, <2>9 DEF JobsOK
  <2> QED BY Zenon, <2>14, <2>15, <2>16, <2>17, <2>18, <2>19, <2>20, <2>21
<1>2. ASSUME RecoverCorruption PROVE IInv'
  <2>1. /\ open_pc = "closed" /\ open_pc' = "corrupt"
        /\ UNCHANGED <<base, handles, column_families, obsolete_columns, files,
                       obsolete_files, destroyed, next_file_number, manifest, synced,
                       disk, building, dropping, gc, purging, bg_error>>
    BY Zenon, <1>2 DEF RecoverCorruption
  <2>2. ~IsOpen /\ ~IsOpen'
    BY <2>1 DEF IsOpen
  <2>3. TypeOK'
    BY Zenon, <2>1 DEF TypeOK
  <2>4. PhaseOK'
    BY <2>1, <2>2 DEF PhaseOK
  <2>5. BuildingOK' /\ StoragesOK' /\ PurgingOK' /\ DiskOK' /\ HandlesOK' /\ JobsOK'
        /\ LogOK(manifest)'
    BY Zenon, <2>1 DEF BuildingOK, StoragesOK, PurgingOK, DiskOK, HandlesOK, JobsOK
  <2> QED BY Zenon, <2>3, <2>4, <2>5
<1>3. ASSUME PurgeInactiveFiles PROVE IInv'
  <2>1. /\ open_pc = "purge" /\ open_pc' = "open" /\ disk' = disk \cap Alive
        /\ UNCHANGED <<base, handles, column_families, obsolete_columns, files,
                       obsolete_files, destroyed, next_file_number, manifest, synced,
                       building, dropping, gc, purging, bg_error>>
    BY Zenon, <1>3 DEF PurgeInactiveFiles
  <2>2. /\ building = {} /\ column_families = OpenedCFs
        /\ \A cf \in ColumnFamily : Added(manifest, cf) = files[cf]
    BY Zenon, <2>1 DEF PhaseOK
  <2>3. \A cf \in ColumnFamily : files[cf] \subseteq disk'
    <3> SUFFICES ASSUME NEW cf \in ColumnFamily, NEW f \in files[cf] PROVE f \in disk'
      OBVIOUS
    <3>1. cf \in column_families /\ f \in disk
      BY Zenon DEF StoragesOK
    <3> QED BY Zenon, <2>1, <3>1 DEF Alive
  <2>4. TypeOK'
    BY <2>1 DEF TypeOK
  <2>5. PhaseOK'
    BY <2>1 DEF PhaseOK, IsOpen
  <2>6. BuildingOK'
    BY Zenon, <2>1, <2>2 DEF BuildingOK
  <2>7. StoragesOK'
    BY Zenon, <2>1, <2>3 DEF StoragesOK
  <2>8. DiskOK'
    BY <2>1, <2>2, <2>3 DEF DiskOK
  <2>9. PurgingOK' /\ HandlesOK' /\ JobsOK' /\ LogOK(manifest)'
    BY Zenon, <2>1 DEF PurgingOK, HandlesOK, JobsOK
  <2> QED BY Zenon, <2>4, <2>5, <2>6, <2>7, <2>8, <2>9
<1> QED BY Zenon, <1>1, <1>2, <1>3

\* A new DB, whose manifest holds one empty record, satisfies IInv.
LEMMA InitIInv ==
  ASSUME Init
  PROVE  IInv
<1> USE DEF Init
<1> DEFINE r == [add |-> NoFiles, del |-> NoFiles, next |-> 2]
<1>1. NoFiles \in Files /\ \A cf \in ColumnFamily : NoFiles[cf] = {}
  BY DEF NoFiles, Files
<1>2. r \in Edit /\ r.add = NoFiles /\ r.del = NoFiles /\ r.next = 2
  BY <1>1, CatalogAssumption DEF Edit
<1>3. manifest = <<r>>
  OBVIOUS
<1> HIDE DEF r
<1>4. manifest \in Seq(Edit) /\ Len(manifest) = 1 /\ manifest[1] = r /\ 1..1 = {1}
  BY <1>2, <1>3
<1>5. \A cf \in ColumnFamily : Added(manifest, cf) = {}
  <2>1. \A cf \in ColumnFamily, i \in 1..Len(manifest) : manifest[i].add[cf] = {}
    BY <1>1, <1>2, <1>4
  <2> HIDE DEF Init
  <2> QED BY Zenon, <2>1 DEF Added
<1>6. LogOK(manifest)
  <2>1. \A i, j \in 1..Len(manifest) : ~(i < j)
    BY <1>4
  <2>2. \A i \in 1..Len(manifest), cf \in ColumnFamily :
          manifest[i].add[cf] = {} /\ manifest[i].del[cf] = {}
    BY Zenon, <1>1, <1>2, <1>4
  <2> QED BY <2>1, <2>2 DEF LogOK
<1>7. TypeOK
  <2>1. base \in [ColumnFamily -> {"new", "live", "dropped"}]
    OBVIOUS
  <2>2. manifest \in Seq([add : Files, del : Files, next : 1..(MaxFile + 1)])
    BY Zenon, <1>4 DEF Edit
  <2>3. synced \in 1..Len(manifest) /\ next_file_number \in 1..(MaxFile + 1)
    BY <1>4, CatalogAssumption
  <2> QED BY <1>1, <2>1, <2>2, <2>3, CatalogAssumption, Zenon DEF TypeOK
<1>8. PhaseOK
  BY <1>2, <1>4 DEF PhaseOK, IsOpen
<1>9. BuildingOK /\ PurgingOK
  BY Zenon DEF BuildingOK, PurgingOK
<1>10. StoragesOK
  BY <1>1, Zenon DEF StoragesOK
<1>11. DiskOK
  BY <1>5 DEF DiskOK
<1>12. HandlesOK
  <2>1. base[DefaultCF] = "live"
    BY CatalogAssumption
  <2> QED BY <1>5, <2>1 DEF HandlesOK
<1>13. JobsOK
  BY <1>1 DEF JobsOK
<1> QED BY Zenon, <1>6, <1>7, <1>8, <1>9, <1>10, <1>11, <1>12, <1>13 DEF IInv

\* A step of other parts of Titan keeps IInv.
LEMMA StutterKeeps ==
  ASSUME IInv, UNCHANGED vars
  PROVE  IInv'
  BY Zenon DEF vars, memVars, logVars, jobVars, IInv, TypeOK, PhaseOK, IsOpen, OpenedCFs,
     BuildingOK, StoragesOK, PurgingOK, DiskOK, HandlesOK, JobsOK

\* Edits, purges, jobs, handles, crashes and recovery keep IInv.
LEMMA NextKeeps ==
  ASSUME IInv, [Next]_vars
  PROVE  IInv'
  BY Zenon, EditsKeep, DiskStepsKeep, JobStepsKeep, StorageStepsKeep, CrashKeeps,
     RecoveryKeeps, StutterKeeps DEF Next

\* IInv holds at every moment, on any disk: the argument of all that follows.
THEOREM Invariance == Spec => []IInv
<1>1. Init => IInv
  BY InitIInv
<1>2. IInv /\ [Next]_vars => IInv'
  BY NextKeeps
<1> QED BY <1>1, <1>2, PTL DEF Spec

-----------------------------------------------------------------------------
(* What holds even on a disk that fails.                                   *)

\* No file of the catalog is deleted from disk: not by a purge at run time, not
\* when Recover deletes inactive files, not after a crash between the two; and
\* none is overwritten by a new one (DeletePurgedFiles, Recover, NewFile).
THEOREM CatalogOnDisk == Spec => []LiveFilesOnDisk
<1>1. IInv => LiveFilesOnDisk
  <2> SUFFICES ASSUME IInv, NEW cf \in OpenedCFs
               PROVE  /\ Durable(manifest, cf) \subseteq disk
                      /\ IsOpen => \A f \in Durable(manifest, cf) : f < next_file_number
    BY Zenon DEF LiveFilesOnDisk
  <2> USE DEF IInv
  <2>1. /\ manifest \in Seq(Edit) /\ synced \in 1..Len(manifest) /\ Len(manifest) >= 1
        /\ LogOK(manifest) /\ cf \in ColumnFamily /\ base[cf] = "live"
        /\ next_file_number \in Int /\ File \subseteq Int
    BY CatalogAssumption DEF TypeOK, Edit, OpenedCFs, File
  <2>2. 1..synced \subseteq 1..Len(manifest)
    BY <2>1
  <2>3. DeletedBy(manifest, synced, cf) \subseteq Deleted(manifest, cf)
    BY Zenon, <2>2 DEF Deleted, DeletedBy
  <2>4. Durable(manifest, cf) \subseteq disk
    BY <2>1, <2>3 DEF DiskOK, Durable
  <2>5. ASSUME IsOpen, NEW f \in Durable(manifest, cf) PROVE f < next_file_number
    <3>1. f \in Added(manifest, cf)
      BY Zenon DEF Durable
    <3>2. f \in File /\ f < manifest[Len(manifest)].next
      BY Zenon, <2>1, <3>1, AddedBelowNext
    <3>3. manifest[Len(manifest)].next <= next_file_number
      BY Zenon, <2>5 DEF PhaseOK
    <3>4. manifest[Len(manifest)] \in Edit
      BY <2>1
    <3>5. manifest[Len(manifest)].next \in Int /\ f \in Int
      BY <2>1, <3>2, <3>4, CatalogAssumption DEF Edit
    <3> QED BY <2>1, <3>2, <3>3, <3>5
  <2> QED BY Zenon, <2>4, <2>5
<1> QED BY <1>1, Invariance, PTL

\* The steps that take files out of storages.
LEMMA FilesLeave ==
  ASSUME IInv, [Next]_vars
  PROVE  /\ \A cf \in obsolete_columns \cap obsolete_columns' : files[cf] \subseteq files'[cf]
         /\ open_pc' = "open" => \A cf \in ColumnFamily :
              obsolete_files[cf] \ obsolete_files'[cf] \subseteq purging'
<1> DEFINE Goal ==
             /\ \A cf \in obsolete_columns \cap obsolete_columns' :
                  files[cf] \subseteq files'[cf]
             /\ open_pc' = "open" => \A cf \in ColumnFamily :
                  obsolete_files[cf] \ obsolete_files'[cf] \subseteq purging'
<1> USE DEF memVars, logVars, jobVars
<1>0. obsolete_columns \subseteq ColumnFamily /\ obsolete_columns \subseteq column_families
      /\ files \in Files /\ obsolete_files \in Files
  BY DEF IInv, TypeOK
<1>1. ASSUME Edits PROVE Goal
  <2>1. PICK cf, add, del : EditStep(cf, add, del)
    BY <1>1, EditsAreSteps
  <2>2. \A c \in ColumnFamily : /\ files[c] \subseteq files'[c]
                                /\ obsolete_files[c] \subseteq obsolete_files'[c]
    BY <2>1, EditFiles
  <2> QED BY <1>0, <2>2
<1>2. ASSUME UNCHANGED <<files, obsolete_files>> PROVE Goal
  BY <1>2
<1>3. ASSUME NEW cf \in ColumnFamily, DestroyColumnFamilyHandle(cf) PROVE Goal
  <2>1. obsolete_columns' = obsolete_columns \ {cf} /\ MarkDestroyed(cf)
    BY Zenon, <1>3 DEF DestroyColumnFamilyHandle, MaybeDestroyColumnFamily
  <2>2. CASE MaybeRemove(cf, destroyed \cup {cf}, obsolete_files)
    <3>1. Erase({cf}, files, obsolete_files) /\ obsolete_files[cf] = {}
      BY Zenon, <2>1, <2>2 DEF MarkDestroyed, MaybeRemove
    <3>2. \A c \in ColumnFamily \ {cf} : /\ files'[c] = files[c]
                                         /\ obsolete_files'[c] = obsolete_files[c]
      BY <3>1 DEF Erase
    <3> QED BY <1>0, <2>1, <3>1, <3>2
  <2>3. CASE ~MaybeRemove(cf, destroyed \cup {cf}, obsolete_files)
    BY Zenon, <1>2, <2>1, <2>3 DEF MarkDestroyed
  <2> QED BY Zenon, <2>2, <2>3
<1>4. ASSUME NEW rem \in SUBSET Purgeable, GetObsoleteFiles(rem) PROVE Goal
  <2> DEFINE left == [cf \in ColumnFamily |-> obsolete_files[cf] \ rem]
             kept == [cf \in ColumnFamily |-> files[cf] \ rem]
             cfs  == {cf \in column_families \ obsolete_columns :
                        MaybeRemove(cf, destroyed, left)}
  <2>1. purging' = rem /\ Erase(cfs, kept, left) /\ obsolete_columns' = obsolete_columns
    BY Zenon, <1>4 DEF GetObsoleteFiles
  <2>2. \A cf \in cfs : cf \notin obsolete_columns /\ (cf \in ColumnFamily => obsolete_files[cf] \ rem = {})
    BY Zenon DEF MaybeRemove
  <2> HIDE DEF cfs
  <2>3. \A cf \in ColumnFamily : cf \notin cfs => /\ files'[cf] = files[cf] \ rem
                                                  /\ obsolete_files'[cf] = obsolete_files[cf] \ rem
    BY <2>1 DEF Erase
  <2>4. ASSUME NEW cf \in obsolete_columns, NEW f \in files[cf] PROVE f \notin rem
    <3> SUFFICES ASSUME f \in rem PROVE FALSE
      BY Zenon
    <3>1. PICK c \in column_families \ obsolete_columns : f \in obsolete_files[c]
      BY Zenon DEF Purgeable
    <3>2. c \in ColumnFamily /\ cf \in ColumnFamily
      BY Zenon, <1>0, <3>1 DEF IInv, TypeOK
    <3>3. f \in Added(manifest, cf) /\ f \in Added(manifest, c)
      BY Zenon, <3>1, <3>2 DEF IInv, StoragesOK
    <3>4. cf = c
      BY Zenon, <3>2, <3>3, OneOwner DEF IInv
    <3> QED BY Zenon, <3>1, <3>4
  <2>5. \A cf \in obsolete_columns : files[cf] \subseteq files'[cf]
    BY Zenon, <1>0, <2>2, <2>3, <2>4
  <2>6. \A cf \in ColumnFamily : obsolete_files[cf] \ obsolete_files'[cf] \subseteq rem
    BY <2>2, <2>3
  <2> QED BY Zenon, <2>1, <2>5, <2>6
<1>5. ASSUME LosesMemory PROVE Goal
  BY <1>5 DEF LosesMemory
<1>6. ASSUME Recover PROVE Goal
  <2>1. open_pc = "closed" /\ open_pc' = "purge"
    BY Zenon, <1>6 DEF Recover
  <2>2. obsolete_columns = {}
    BY <1>0, <2>1 DEF IInv, PhaseOK, IsOpen
  <2> QED BY <2>1, <2>2
<1>7. Goal
  <2> HIDE DEF Goal
  <2>1. ASSUME NEW cf \in ColumnFamily,
               NewFile(cf) \/ CreateColumnFamily(cf) \/ BaseDropColumnFamily(cf)
        PROVE  Goal
    BY Zenon, <1>2, <2>1 DEF NewFile, CreateColumnFamily, BaseDropColumnFamily
  <2>2. ASSUME NEW f, NEW cf, BatchDeleteFiles(f, cf) \/ PickBlobGC(cf, f) PROVE Goal
    BY Zenon, <1>2, <2>2 DEF BatchDeleteFiles, PickBlobGC
  <2>3. ASSUME DeletePurgedFiles \/ RecoverCorruption \/ PurgeInactiveFiles \/ UNCHANGED vars
        PROVE  Goal
    BY Zenon, <1>2, <2>3 DEF DeletePurgedFiles, RecoverCorruption, PurgeInactiveFiles, vars
  <2>4. ASSUME (\E n \in 1..MaxLog : Crash(n)) \/ CrashInLog PROVE Goal
    BY Zenon, <1>5, <2>4 DEF Crash, CrashInLog
  <2> QED BY Zenon, <1>1, <1>3, <1>4, <1>6, <2>1, <2>2, <2>3, <2>4 DEF Next
<1> QED BY Zenon, <1>7

\* As long as the user holds the handle of a dropped column family, its files
\* stay, in the storage and on disk: also when a purge that is under way
\* deletes files of others (GetObsoleteFiles, PurgeObsoleteFilesImpl).
THEOREM HandlesKeepFiles == Spec => HandleKeepsFiles
<1> DEFINE A == \A cf \in obsolete_columns \cap obsolete_columns' :
                  files[cf] \subseteq files'[cf] /\ files'[cf] \subseteq disk'
<1>1. IInv /\ IInv' /\ [Next]_vars => A
  <2> SUFFICES ASSUME IInv, IInv', [Next]_vars PROVE A
    OBVIOUS
  <2>1. \A cf \in obsolete_columns \cap obsolete_columns' : files[cf] \subseteq files'[cf]
    BY FilesLeave
  <2>2. \A cf \in ColumnFamily : files'[cf] \subseteq disk'
    BY Zenon DEF IInv, StoragesOK
  <2>3. obsolete_columns \subseteq ColumnFamily
    BY DEF IInv, TypeOK
  <2> QED BY Zenon, <2>1, <2>2, <2>3
<1>2. IInv /\ IInv' /\ [Next]_vars => [A]_vars
  BY <1>1
<1> HIDE DEF A
<1>3. Spec => [][A]_vars
  BY <1>2, Invariance, PTL DEF Spec
<1> QED BY <1>3 DEF A, HandleKeepsFiles

\* No obsolete file is forgotten: it leaves its storage into the list of files
\* to delete, also when the storage itself goes (MarkDestroyed, MaybeRemove).
THEOREM ObsoleteFilesNotLost == Spec => ObsoleteFilesHandedOver
<1> DEFINE A == open_pc' = "open" => \A cf \in ColumnFamily :
                  obsolete_files[cf] \ obsolete_files'[cf] \subseteq purging'
<1>1. IInv /\ [Next]_vars => [A]_vars
  BY FilesLeave
<1> HIDE DEF A
<1>2. Spec => [][A]_vars
  BY <1>1, Invariance, PTL DEF Spec
<1> QED BY <1>2 DEF A, ObsoleteFilesHandedOver

=============================================================================
