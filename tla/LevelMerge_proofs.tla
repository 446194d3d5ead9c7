-------------------------- MODULE LevelMerge_proofs -------------------------
(***************************************************************************)
(* Proofs about LevelMerge, for any keys, levels and bounds, as long as    *)
(* the listeners are called in the order of their jobs.                    *)
(***************************************************************************)
EXTENDS LevelMerge, FiniteSetTheorems, TLAPS

\* No listener is overtaken.
InOrder == Options = {}

-----------------------------------------------------------------------------
(* The inductive invariant                                                 *)

\* What the base DB tells the listener of a flush, or of a compaction.
FlushNotice == [kind : {"flush"}, file : File, size : Nat]
CompactionNotice ==
  [kind : {"compaction"}, level : Level,
   diff : UNION {[D -> Int] : D \in SUBSET File}, outputs : SUBSET File]
AnyNotice == FlushNotice \cup CompactionNotice

\* The numbers given out so far.
Made == 1..next_file - 1

\* The job of a notice has built the file; or has it among its files at all.
Creates(n, f) == IF n.kind = "flush" THEN n.file = f ELSE f \in n.outputs
Names(n, f)   == IF n.kind = "flush" THEN n.file = f ELSE f \in DOMAIN n.diff

\* How many records of the file the listener of a notice will count as lost.
Loss(n, f) ==
  IF n.kind = "compaction" /\ f \in DOMAIN n.diff /\ n.diff[f] < 0
  THEN -n.diff[f] ELSE 0

\* How many records the meta data have a file hold.
Left(f) == meta[f].size - kOverhead - meta[f].discardable

\* h is what the meta data will say, one notice after the other: left now, and
\* rec when all of ns are handled.
IsHistory(h, ns, f, left, rec) ==
  /\ h \in [1..Len(ns) + 1 -> Nat]
  /\ \A i \in 1..Len(ns) : h[i] = h[i + 1] + Loss(ns[i], f)
  /\ \A i, j \in 1..Len(ns) + 1 : i <= j => h[j] <= h[i]
  /\ h[1] = left /\ h[Len(ns) + 1] = rec
Accounted(ns, f, left, rec) == \E h : IsHistory(h, ns, f, left, rec)

\* A record with the fields of a BlobFileMeta.
IsMeta(m) ==
  m = [size |-> m.size, level |-> m.level, discardable |-> m.discardable,
       state |-> m.state, smallest |-> m.smallest, largest |-> m.largest]

\* Types; a number that is not given out has no meta data.
TypesOK ==
  /\ lsm \in [Level -> SUBSET Entry] /\ IsFiniteSet(Entries)
  /\ flushes \in 0..MaxFlush /\ next_file \in 1..MaxFile + 1
  /\ files \subseteq Made
  /\ meta = [f \in File |-> meta[f]]
  /\ \A f \in File : IsMeta(meta[f])
  /\ \A f \in File \ Made : meta[f] = NoMeta
  /\ notices \in Seq(AnyNotice)

\* A version of a key is in one place only.
EntriesOK ==
  /\ \A l \in Level : \A e \in lsm[l] : e.version <= flushes /\ e.file < next_file
  /\ \A l, m \in Level : \A e \in lsm[l], d \in lsm[m] :
       e.key = d.key /\ e.version = d.version => l = m /\ e = d

\* What a notice says of files is true of their meta data.
NoticeOK(n) ==
  /\ n.kind = "flush" => n.file \in Made /\ n.size = meta[n.file].size - kOverhead
  /\ n.kind = "compaction" => /\ DOMAIN n.diff \subseteq Made
                              /\ n.outputs \subseteq DOMAIN n.diff
                              /\ \A f \in n.outputs : n.diff[f] >= 0

\* The notice of the job that built a file comes before all others that name it.
NoticesOK ==
  /\ \A i \in 1..Len(notices) : NoticeOK(notices[i])
  /\ \A i, j \in 1..Len(notices), f \in File :
       Creates(notices[j], f) /\ Names(notices[i], f) => j <= i

\* The state of a file follows from the notices that are due and from its size.
StatesOK ==
  \A f \in Made :
    /\ meta[f].size \in Nat /\ meta[f].discardable \in Nat
    /\ meta[f].state \in {"kPendingLSM", "kNormal", "kToMerge", "kToGC", "kObsolete"}
    /\ meta[f].state = "kObsolete" <=> Left(f) = 0
    /\ f \in files \/ meta[f].state = "kObsolete"
    /\ meta[f].state = "kPendingLSM" <=> \E i \in 1..Len(notices) : Creates(notices[i], f)
    /\ meta[f].state = "kPendingLSM" => meta[f].discardable = 0

\* What a file is said to hold is what SSTs name, and what the notices that are
\* due will count as lost.
CountsOK == \A f \in Made : Accounted(notices, f, Left(f), Records(Entries, f))

\* Entries, notices, states and counts agree, and no assertion has failed.
IInv ==
  /\ TypesOK
  /\ EntriesOK
  /\ NoticesOK
  /\ StatesOK
  /\ CountsOK
  /\ assert_ok = TRUE

-----------------------------------------------------------------------------
(* Sequences of notices                                                    *)

\* What appending a notice does.
LEMMA AppendNotice ==
  ASSUME NEW N, NEW ns \in Seq(N), NEW n \in N
  PROVE  /\ Append(ns, n) \in Seq(N) /\ Len(ns) \in Nat
         /\ Len(Append(ns, n)) = Len(ns) + 1
         /\ \A i \in 1..Len(ns) : Append(ns, n)[i] = ns[i]
         /\ Append(ns, n)[Len(ns) + 1] = n
  OBVIOUS

\* What is left when the first notice is handled.
LEMMA HandledFirst ==
  ASSUME NEW N, notices \in Seq(N), notices # <<>>
  PROVE  /\ Handled(1) \in Seq(N) /\ Len(notices) \in Nat \ {0}
         /\ Len(Handled(1)) = Len(notices) - 1
         /\ \A i \in 1..Len(Handled(1)) : i + 1 \in 1..Len(notices)
                                          /\ Handled(1)[i] = notices[i + 1]
         /\ 1 \in 1..Len(notices) /\ notices[1] \in N
<1> DEFINE t == SubSeq(notices, 2, Len(notices))
<1>1. Len(notices) \in Nat \ {0}
  OBVIOUS
<1>2. SubSeq(notices, 1, 0) = <<>>
  OBVIOUS
<1>3. /\ t \in Seq(N) /\ Len(t) = Len(notices) - 1
      /\ \A i \in 1..Len(t) : t[i] = notices[i + 1]
  <2>1. Len(t) = Len(notices) - 1
    <3>1. Len(t) = IF 2 <= Len(notices) THEN Len(notices) - 2 + 1 ELSE 0
      BY <1>1
    <3>2. \A n \in Nat \ {0} : \A m : m = (IF 2 <= n THEN n - 2 + 1 ELSE 0) => m = n - 1
      OBVIOUS
    <3> HIDE DEF t
    <3> QED BY Zenon, <1>1, <3>1, <3>2
  <2>2. \A i \in 1..Len(t) : t[i] = notices[i + 1]
    BY <1>1
  <2>3. t \in Seq(N)
    BY <1>1
  <2> QED BY <2>1, <2>2, <2>3
<1>4. Handled(1) = <<>> \o t
  BY <1>2 DEF Handled
<1>5. <<>> \o t = t
  <2> HIDE DEF t
  <2> QED BY <1>3
<1> HIDE DEF t
<1> QED BY <1>1, <1>3, <1>4, <1>5

-----------------------------------------------------------------------------
(* Histories                                                               *)

\* A listener that is due later takes what its job took from the file.
LEMMA AccountedAppend ==
  ASSUME NEW N, NEW ns \in Seq(N), NEW n \in N, NEW f, NEW left, NEW rec, NEW r \in Nat,
         Accounted(ns, f, left, rec), Loss(n, f) \in Nat, rec = r + Loss(n, f)
  PROVE  Accounted(Append(ns, n), f, left, r)
<1>1. PICK h : IsHistory(h, ns, f, left, rec)
  BY Zenon DEF Accounted
<1> DEFINE ms == Append(ns, n)
           g  == [i \in 1..Len(ms) + 1 |-> IF i = Len(ms) + 1 THEN r ELSE h[i]]
<1>2. /\ Len(ns) \in Nat /\ Len(ms) = Len(ns) + 1
      /\ \A i \in 1..Len(ns) : ms[i] = ns[i]
      /\ ms[Len(ns) + 1] = n
  BY AppendNotice
<1> HIDE DEF ms
<1>3. /\ h \in [1..Len(ns) + 1 -> Nat] /\ h[1] = left /\ h[Len(ns) + 1] = rec
      /\ \A i \in 1..Len(ns) : h[i] = h[i + 1] + Loss(ns[i], f)
      /\ \A i, j \in 1..Len(ns) + 1 : i <= j => h[j] <= h[i]
  BY <1>1 DEF IsHistory
<1>4. g \in [1..Len(ms) + 1 -> Nat] /\ g[1] = left /\ g[Len(ms) + 1] = r
  BY <1>2, <1>3
<1>5. \A i \in 1..Len(ms) : g[i] = g[i + 1] + Loss(ms[i], f)
  <2> TAKE i \in 1..Len(ms)
  <2>1. CASE i = Len(ms)
    BY <1>2, <1>3, <2>1
  <2>2. CASE i # Len(ms)
    <3>1. i \in 1..Len(ns) /\ ms[i] = ns[i] /\ g[i] = h[i] /\ g[i + 1] = h[i + 1]
      BY <1>2, <2>2
    <3> QED BY <1>3, <3>1
  <2> QED BY <2>1, <2>2
<1>6. \A i, j \in 1..Len(ms) + 1 : i <= j => g[j] <= g[i]
  <2> TAKE i, j \in 1..Len(ms) + 1
  <2> HAVE i <= j
  <2>1. CASE j # Len(ms) + 1
    BY <1>2, <1>3, <2>1
  <2>2. CASE j = Len(ms) + 1 /\ i # j
    <3>1. i \in 1..Len(ns) + 1 /\ g[i] = h[i] /\ g[j] = r
      BY <1>2, <2>2
    <3>2. Len(ns) + 1 \in 1..Len(ns) + 1 /\ i <= Len(ns) + 1
      BY <1>2, <3>1
    <3>3. h[Len(ns) + 1] <= h[i] /\ h[i] \in Nat
      BY Zenon, <1>3, <3>1, <3>2
    <3> QED BY <1>3, <3>1, <3>3
  <2>3. CASE i = j
    BY <1>4, <2>3
  <2> QED BY <2>1, <2>2, <2>3
<1> HIDE DEF g
<1>7. IsHistory(g, ms, f, left, r)
  BY <1>4, <1>5, <1>6 DEF IsHistory
<1> QED BY Zenon, <1>7 DEF Accounted, ms

\* The listener that is called now takes what it counts as lost.
LEMMA AccountedHandled ==
  ASSUME NEW N, notices \in Seq(N), notices # <<>>, NEW f, NEW left, NEW rec,
         Accounted(notices, f, left, rec), Loss(notices[1], f) \in Nat
  PROVE  /\ left \in Nat /\ left - Loss(notices[1], f) \in Nat
         /\ Accounted(Handled(1), f, left - Loss(notices[1], f), rec)
<1>1. PICK h : IsHistory(h, notices, f, left, rec)
  BY Zenon DEF Accounted
<1> DEFINE ms == Handled(1)
           g  == [i \in 1..Len(ms) + 1 |-> h[i + 1]]
<1>2. /\ Len(notices) \in Nat \ {0} /\ Len(ms) = Len(notices) - 1
      /\ \A i \in 1..Len(ms) : i + 1 \in 1..Len(notices) /\ ms[i] = notices[i + 1]
  BY HandledFirst
<1> HIDE DEF ms
<1>3. /\ h \in [1..Len(notices) + 1 -> Nat] /\ h[1] = left /\ h[Len(notices) + 1] = rec
      /\ \A i \in 1..Len(notices) : h[i] = h[i + 1] + Loss(notices[i], f)
      /\ \A i, j \in 1..Len(notices) + 1 : i <= j => h[j] <= h[i]
  BY <1>1 DEF IsHistory
<1>4. /\ h[1] = h[2] + Loss(notices[1], f) /\ h[1] \in Nat /\ h[2] \in Nat
  BY <1>2, <1>3
<1>5. /\ g \in [1..Len(ms) + 1 -> Nat] /\ g[1] = left - Loss(notices[1], f)
      /\ g[Len(ms) + 1] = rec
  BY <1>2, <1>3, <1>4
<1>6. \A i \in 1..Len(ms) : g[i] = g[i + 1] + Loss(ms[i], f)
  <2> TAKE i \in 1..Len(ms)
  <2>1. i + 1 \in 1..Len(notices) /\ ms[i] = notices[i + 1]
    BY <1>2
  <2>2. g[i] = h[i + 1] /\ g[i + 1] = h[(i + 1) + 1]
    BY <1>2
  <2> QED BY <1>3, <2>1, <2>2
<1>7. \A i, j \in 1..Len(ms) + 1 : i <= j => g[j] <= g[i]
  <2> TAKE i, j \in 1..Len(ms) + 1
  <2> HAVE i <= j
  <2>1. i + 1 \in 1..Len(notices) + 1 /\ j + 1 \in 1..Len(notices) + 1 /\ i + 1 <= j + 1
    BY <1>2
  <2>2. g[i] = h[i + 1] /\ g[j] = h[j + 1]
    OBVIOUS
  <2> QED BY Zenon, <1>3, <2>1, <2>2
<1> HIDE DEF g
<1>8. IsHistory(g, ms, f, left - Loss(notices[1], f), rec)
  BY <1>5, <1>6, <1>7 DEF IsHistory
<1> QED BY <1>3, <1>4, <1>8 DEF Accounted, ms

\* A new file is named by no listener that is due.
LEMMA AccountedNew ==
  ASSUME NEW N, NEW ns \in Seq(N), NEW f, NEW c \in Nat,
         \A i \in 1..Len(ns) : Loss(ns[i], f) = 0
  PROVE  Accounted(ns, f, c, c)
<1> DEFINE g == [i \in 1..Len(ns) + 1 |-> c]
<1>1. Len(ns) \in Nat
  OBVIOUS
<1>2. \A i \in 1..Len(ns) + 1 : g[i] = c
  BY <1>1
<1>3. g \in [1..Len(ns) + 1 -> Nat]
  OBVIOUS
<1> HIDE DEF g
<1>4. IsHistory(g, ns, f, c, c)
  BY <1>1, <1>2, <1>3 DEF IsHistory
<1> QED BY Zenon, <1>4 DEF Accounted

\* The meta data never say less than there is; without notices, exactly that.
LEMMA AccountedBound ==
  ASSUME NEW N, NEW ns \in Seq(N), NEW f, NEW left, NEW rec, Accounted(ns, f, left, rec)
  PROVE  /\ left \in Nat /\ rec \in Nat /\ rec <= left
         /\ ns = <<>> => left = rec
<1>1. PICK h : IsHistory(h, ns, f, left, rec)
  BY Zenon DEF Accounted
<1>2. Len(ns) \in Nat /\ (ns = <<>> => Len(ns) = 0)
  OBVIOUS
<1>3. /\ h \in [1..Len(ns) + 1 -> Nat] /\ h[1] = left /\ h[Len(ns) + 1] = rec
      /\ \A i, j \in 1..Len(ns) + 1 : i <= j => h[j] <= h[i]
  BY <1>1 DEF IsHistory
<1> QED BY <1>2, <1>3

-----------------------------------------------------------------------------
(* Counting entries                                                        *)

\* The same number of elements on both sides of a bijection.
LEMMA SameCount ==
  ASSUME NEW A, NEW B, NEW F \in [A -> B], IsFiniteSet(A),
         \A a, b \in A : F[a] = F[b] => a = b,
         \A b \in B : \E a \in A : F[a] = b
  PROVE  IsFiniteSet(B) /\ Cardinality(B) = Cardinality(A)
<1>1. F \in Bijection(A, B)
  BY Zenon DEF Bijection, Injection, Surjection, IsInjective
<1>2. ExistsBijection(A, B)
  BY Zenon, <1>1 DEF ExistsBijection
<1> QED BY Zenon, <1>2, FS_Bijection

\* The entries a flush writes for keys K.
FlushEntries(K, v, f) == {[key |-> k, version |-> v, file |-> f] : k \in K}

\* A flush writes one entry for each key.
LEMMA FlushCount ==
  ASSUME NEW K, IsFiniteSet(K), NEW v, NEW f
  PROVE  IsFiniteSet(FlushEntries(K, v, f)) /\ Cardinality(FlushEntries(K, v, f)) = Cardinality(K)
<1> DEFINE F == [k \in K |-> [key |-> k, version |-> v, file |-> f]]
<1>1. F \in [K -> FlushEntries(K, v, f)]
  BY DEF FlushEntries
<1>2. \A a, b \in K : F[a] = F[b] => a = b
  <2> TAKE a, b \in K
  <2>1. F[a].key = a /\ F[b].key = b
    OBVIOUS
  <2> QED BY <2>1
<1>3. \A e \in FlushEntries(K, v, f) : \E k \in K : F[k] = e
  BY DEF FlushEntries
<1> HIDE DEF F
<1> QED BY Zenon, <1>1, <1>2, <1>3, SameCount

\* The entries of values that TitanTableBuilder has moved to file f.
Moved(es, f) == {[e EXCEPT !.file = f] : e \in es}

\* An entry of a moved value has its key and version.
LEMMA MovedEntry ==
  ASSUME NEW es \in SUBSET Entry, NEW f, NEW x \in Moved(es, f)
  PROVE  /\ x.file = f /\ \E e \in es : /\ x.key = e.key /\ x.version = e.version
                                        /\ x = [key |-> e.key, version |-> e.version, file |-> f]
<1>1. PICK e \in es : x = [e EXCEPT !.file = f]
  BY Zenon DEF Moved
<1>2. e \in Entry
  BY Zenon, <1>1
<1>3. x = [key |-> e.key, version |-> e.version, file |-> f]
  BY <1>1, <1>2 DEF Entry
<1>4. x.file = f /\ x.key = e.key /\ x.version = e.version
  BY <1>3
<1> QED BY Zenon, <1>3, <1>4

\* Moving values makes as many entries as there were.
LEMMA MovedCount ==
  ASSUME NEW es \in SUBSET Entry, IsFiniteSet(es), NEW f,
         \A a, b \in es : a.key = b.key /\ a.version = b.version => a = b
  PROVE  IsFiniteSet(Moved(es, f)) /\ Cardinality(Moved(es, f)) = Cardinality(es)
<1> DEFINE F == [e \in es |-> [e EXCEPT !.file = f]]
<1>1. F \in [es -> Moved(es, f)]
  BY Zenon DEF Moved
<1>2. \A a, b \in es : F[a] = F[b] => a = b
  <2> TAKE a, b \in es
  <2>1. a \in Entry /\ b \in Entry
    BY Zenon
  <2>2. /\ F[a].key = a.key /\ F[a].version = a.version
        /\ F[b].key = b.key /\ F[b].version = b.version
    BY <2>1 DEF Entry
  <2> HIDE DEF F
  <2> QED BY Zenon, <2>2
<1>3. \A x \in Moved(es, f) : \E e \in es : F[e] = x
  BY Zenon DEF Moved
<1> HIDE DEF F
<1> QED BY Zenon, <1>1, <1>2, <1>3, SameCount

\* Records counts the entries that name a file.
LEMMA RecordsNat ==
  ASSUME NEW es, IsFiniteSet(es), NEW f
  PROVE  Records(es, f) \in Nat /\ (Records(es, f) = 0 <=> \A e \in es : e.file # f)
<1> DEFINE R == {e \in es : e.file = f}
<1>1. R \in SUBSET es
  OBVIOUS
<1>2. IsFiniteSet(R)
  BY Zenon, <1>1, FS_Subset
<1>3. Cardinality(R) \in Nat
  BY Zenon, <1>2, FS_CardinalityType
<1>4. Cardinality(R) = 0 <=> R = {}
  BY Zenon, <1>2, FS_EmptySet
<1>5. R = {} <=> \A e \in es : e.file # f
  BY Zenon
<1> QED BY Zenon, <1>3, <1>4, <1>5 DEF Records

\* Entries of two disjoint sets are counted apart.
LEMMA RecordsSplit ==
  ASSUME NEW A, NEW B, IsFiniteSet(A), IsFiniteSet(B), A \cap B = {}, NEW f
  PROVE  Records(A \cup B, f) = Records(A, f) + Records(B, f)
<1> DEFINE P == {e \in A : e.file = f}
           Q == {e \in B : e.file = f}
<1>1. P \in SUBSET A /\ Q \in SUBSET B
  OBVIOUS
<1>2. IsFiniteSet(P) /\ IsFiniteSet(Q)
  BY Zenon, <1>1, FS_Subset
<1>3. {e \in A \cup B : e.file = f} = P \cup Q /\ P \cap Q = {}
  BY Zenon
<1>4. Cardinality(P) \in Nat /\ Cardinality(Q) \in Nat /\ Cardinality({}) = 0
  BY Zenon, <1>2, FS_CardinalityType, FS_EmptySet
<1>5. Cardinality(P \cup Q) = Cardinality(P) + Cardinality(Q) - Cardinality(P \cap Q)
  BY Zenon, <1>2, FS_Union
<1>6. Records(A \cup B, f) = Cardinality(P \cup Q)
  BY Zenon, <1>3 DEF Records
<1>7. Records(A, f) = Cardinality(P) /\ Records(B, f) = Cardinality(Q)
  BY Zenon DEF Records
<1> HIDE DEF P, Q
<1>8. Cardinality(P \cap Q) = 0
  BY Zenon, <1>3, <1>4
<1> QED BY <1>4, <1>5, <1>6, <1>7, <1>8

\* A set without the entries of a file, or of fewer, counts no more of them.
LEMMA RecordsFewer ==
  ASSUME NEW A, NEW B, IsFiniteSet(A), NEW f, \A e \in B : e.file = f => e \in A
  PROVE  Records(B, f) <= Records(A, f)
<1> DEFINE P == {e \in A : e.file = f}
           Q == {e \in B : e.file = f}
<1>1. P \in SUBSET A /\ Q \in SUBSET P
  BY Zenon
<1>2. IsFiniteSet(P)
  BY Zenon, <1>1, FS_Subset
<1>3. Cardinality(Q) <= Cardinality(P)
  BY Zenon, <1>1, <1>2, FS_Subset
<1> QED BY Zenon, <1>3 DEF Records

-----------------------------------------------------------------------------
(* Files and notices after a job                                           *)

\* The transitions that happen here.
LEMMA Transits ==
  /\ FileStateTransit("kInit", "kFlushOrCompactionOutput") = "kPendingLSM"
  /\ FileStateTransit("kPendingLSM", "kFlushCompleted") = "kNormal"
  /\ FileStateTransit("kPendingLSM", "kCompactionCompleted") = "kNormal"
  /\ \A s \in {"kNormal", "kToMerge", "kToGC"} :
       /\ FileStateTransit(s, "kDelete") = "kObsolete"
       /\ FileStateTransit(s, "kNeedGC") = "kToGC"
  /\ \A s \in {"kNormal", "kToMerge"} : FileStateTransit(s, "kNeedMerge") = "kToMerge"
  /\ \A s \in {"kToGC", "kObsolete"} : FileStateTransit(s, "kNeedMerge") = s
  BY DEF FileStateTransit, FileStateAssert, kAssertFailed

\* The meta data of a new file.
LEMMA NewMetaFacts ==
  ASSUME NEW es, NEW level
  PROVE  /\ IsMeta(NewMeta(es, level))
         /\ NewMeta(es, level).size = Cardinality(es) + kOverhead
         /\ NewMeta(es, level).discardable = 0
         /\ NewMeta(es, level).state = "kPendingLSM"
  BY Transits DEF IsMeta, NewMeta

\* What FinishBlobFile does.
LEMMA FinishFacts ==
  ASSUME IInv, NEW es, NEW level, FinishBlobFile(es, level)
  PROVE  /\ es = {} => UNCHANGED <<files, meta, next_file>> /\ Made' = Made
         /\ es # {} => /\ next_file \in File /\ next_file \notin Made
                       /\ next_file' = next_file + 1
                       /\ files' = files \cup {next_file}
                       /\ Made' = Made \cup {next_file}
                       /\ meta' = [f \in File |-> meta'[f]]
                       /\ meta'[next_file] = NewMeta(es, level)
         /\ \A f \in File : f # next_file => meta'[f] = meta[f]
         /\ next_file' \in 1..MaxFile + 1 /\ next_file <= next_file'
         /\ Made \subseteq File /\ Made' \subseteq File /\ files' \subseteq Made'
<1>1. /\ next_file \in 1..MaxFile + 1 /\ MaxFile \in Nat /\ files \subseteq Made
      /\ meta = [f \in File |-> meta[f]]
  BY Zenon, LevelMergeAssumption DEF IInv, TypesOK
<1>2. Made \subseteq File
  BY <1>1 DEF Made, File
<1>3. CASE es = {}
  BY <1>1, <1>2, <1>3 DEF FinishBlobFile, Made
<1>4. CASE es # {}
  <2>1. /\ next_file <= MaxFile /\ files' = files \cup {next_file}
        /\ meta' = [meta EXCEPT ![next_file] = NewMeta(es, level)]
        /\ next_file' = next_file + 1
    BY Zenon, <1>4 DEF FinishBlobFile
  <2>2. next_file \in File /\ next_file \notin Made /\ next_file' \in 1..MaxFile + 1
        /\ next_file <= next_file'
    BY <1>1, <2>1 DEF File, Made
  <2>3. Made' = Made \cup {next_file}
    BY <1>1, <2>1 DEF Made
  <2>4. /\ meta' = [f \in File |-> meta'[f]] /\ meta'[next_file] = NewMeta(es, level)
        /\ \A f \in File : f # next_file => meta'[f] = meta[f]
    BY Zenon, <1>1, <2>1, <2>2
  <2>5. Made' \subseteq File /\ files' \subseteq Made'
    BY Zenon, <1>1, <1>2, <2>1, <2>2, <2>3
  <2> QED BY Zenon, <1>2, <1>4, <2>1, <2>2, <2>3, <2>4, <2>5
<1> QED BY Zenon, <1>3, <1>4

\* FinishBlobFile leaves the other files alone.
LEMMA OtherFiles ==
  ASSUME IInv, NEW es, NEW level, FinishBlobFile(es, level), NEW f \in Made',
         ~(es # {} /\ f = next_file)
  PROVE  f \in Made /\ meta'[f] = meta[f] /\ files \subseteq files'
<1>1. CASE es = {}
  <2>1. UNCHANGED <<files, meta, next_file>> /\ Made' = Made
    BY Zenon, <1>1, FinishFacts
  <2> QED BY <2>1
<1>2. CASE es # {}
  <2>1. files' = files \cup {next_file} /\ Made' = Made \cup {next_file}
    BY Zenon, <1>2, FinishFacts
  <2>2. Made' \subseteq File /\ \A g \in File : g # next_file => meta'[g] = meta[g]
    BY Zenon, FinishFacts
  <2> QED BY Zenon, <1>2, <2>1, <2>2
<1> QED BY Zenon, <1>1, <1>2

\* The notice of a job that has put es into a new file.
NoticeFor(n, es) ==
  /\ n.kind = "flush" => es # {} /\ n.file = next_file /\ n.size = Cardinality(es)
  /\ n.kind = "compaction" =>
       /\ n.outputs = IF es = {} THEN {} ELSE {next_file}
       /\ n.outputs \subseteq DOMAIN n.diff
       /\ DOMAIN n.diff \subseteq Made \cup n.outputs
       /\ \A f \in n.outputs : n.diff[f] >= 0

\* A notice is of a flush or of a compaction, and what it counts is a number.
LEMMA NoticeKinds ==
  ASSUME NEW n \in AnyNotice
  PROVE  /\ n.kind = "flush" <=> n.kind # "compaction"
         /\ n.kind = "compaction" => n.diff \in [DOMAIN n.diff -> Int] /\ n.level \in Level
         /\ \A f : Loss(n, f) \in Nat
<1>1. CASE n \in FlushNotice
  BY <1>1 DEF FlushNotice, Loss
<1>2. CASE n \in CompactionNotice
  <2>1. n.kind = "compaction" /\ n.level \in Level
    BY <1>2 DEF CompactionNotice
  <2>2. n.diff \in UNION {[D -> Int] : D \in SUBSET File}
    BY Zenon, <1>2 DEF CompactionNotice
  <2>3. n.diff \in [DOMAIN n.diff -> Int]
    BY <2>2
  <2> QED BY <2>1, <2>3 DEF Loss
<1> QED BY Zenon, <1>1, <1>2 DEF AnyNotice

\* The notice of a job is the first that names its new file.
LEMMA JobKeepsNotices ==
  ASSUME IInv, NEW es, NEW level, FinishBlobFile(es, level),
         NEW n \in AnyNotice, NoticeFor(n, es), notices' = Append(notices, n)
  PROVE  NoticesOK' /\ notices' \in Seq(AnyNotice)
<1>1. /\ notices' \in Seq(AnyNotice) /\ Len(notices) \in Nat /\ Len(notices') = Len(notices) + 1
      /\ \A i \in 1..Len(notices) : notices'[i] = notices[i]
      /\ notices'[Len(notices) + 1] = n
  <2>1. notices \in Seq(AnyNotice)
    BY Zenon DEF IInv, TypesOK
  <2>2. /\ Append(notices, n) \in Seq(AnyNotice) /\ Len(notices) \in Nat
        /\ Len(Append(notices, n)) = Len(notices) + 1
        /\ \A i \in 1..Len(notices) : Append(notices, n)[i] = notices[i]
        /\ Append(notices, n)[Len(notices) + 1] = n
    BY Zenon, <2>1, AppendNotice
  <2> QED BY Zenon, <2>2
<1>2. /\ es = {} => UNCHANGED meta /\ Made' = Made
      /\ es # {} => /\ next_file \notin Made /\ Made' = Made \cup {next_file}
                    /\ meta'[next_file] = NewMeta(es, level) /\ next_file \in File
      /\ \A f \in Made : meta'[f] = meta[f]
  BY Zenon, FinishFacts
<1>3. ASSUME NEW i \in 1..Len(notices') PROVE NoticeOK(notices[i])'
  <2>1. CASE i = Len(notices) + 1
    <3>1. n.kind = "flush" => n.file \in Made' /\ n.size = meta'[n.file].size - kOverhead
      <4> SUFFICES ASSUME n.kind = "flush"
                   PROVE  n.file \in Made' /\ n.size = meta'[n.file].size - kOverhead
        OBVIOUS
      <4>1. es # {} /\ n.file = next_file /\ n.size = Cardinality(es)
        BY Zenon DEF NoticeFor
      <4>2. n \in FlushNotice
        BY DEF AnyNotice, CompactionNotice
      <4>3. n.size \in Nat
        BY <4>2 DEF FlushNotice
      <4>4. meta'[n.file].size = Cardinality(es) + kOverhead
        BY Zenon, <1>2, <4>1, NewMetaFacts
      <4>5. n.file \in Made'
        BY Zenon, <1>2, <4>1
      <4> QED BY <4>1, <4>3, <4>4, <4>5 DEF kOverhead
    <3>2. n.kind = "compaction" => DOMAIN n.diff \subseteq Made'
      BY Zenon, <1>2 DEF NoticeFor
    <3>3. notices'[i] = n
      BY Zenon, <1>1, <2>1
    <3> QED BY Zenon, <3>1, <3>2, <3>3 DEF NoticeOK, NoticeFor
  <2>2. CASE i # Len(notices) + 1
    <3>1. i \in 1..Len(notices)
      BY <1>1, <2>2
    <3>2. NoticeOK(notices[i]) /\ notices'[i] = notices[i]
      BY Zenon, <1>1, <3>1 DEF IInv, NoticesOK
    <3>3. Made \subseteq Made'
      BY Zenon, <1>2
    <3> QED BY Zenon, <1>2, <3>2, <3>3 DEF NoticeOK
  <2> QED BY Zenon, <2>1, <2>2
<1>4. ASSUME NEW i \in 1..Len(notices'), NEW j \in 1..Len(notices'), NEW f \in File,
             Creates(notices'[j], f), Names(notices'[i], f)
      PROVE  j <= i
  <2>1. CASE i = Len(notices) + 1
    BY <1>1, <2>1
  <2>2. CASE i # Len(notices) + 1 /\ j # Len(notices) + 1
    <3>1. i \in 1..Len(notices) /\ j \in 1..Len(notices)
      BY <1>1, <2>2
    <3> QED BY Zenon, <1>1, <1>4, <3>1 DEF IInv, NoticesOK
  <2>3. CASE i # Len(notices) + 1 /\ j = Len(notices) + 1
    <3>1. i \in 1..Len(notices) /\ notices'[j] = n
      BY <1>1, <2>3
    <3>2. es # {} /\ f = next_file
      <4>1. Creates(n, f)
        BY Zenon, <1>4, <3>1
      <4>2. CASE n.kind = "flush"
        BY Zenon, <4>1, <4>2 DEF Creates, NoticeFor
      <4>3. CASE n.kind # "flush"
        <5>1. n.kind = "compaction"
          BY Zenon, <4>3, NoticeKinds
        <5> QED BY <4>1, <4>3, <5>1 DEF Creates, NoticeFor
      <4> QED BY Zenon, <4>2, <4>3
    <3>3. NoticeOK(notices[i]) /\ Names(notices[i], f)
      BY Zenon, <1>1, <1>4, <3>1 DEF IInv, NoticesOK
    <3>4. notices[i] \in AnyNotice
      <4>1. notices \in Seq(AnyNotice)
        BY Zenon DEF IInv, TypesOK
      <4> QED BY <3>1, <4>1
    <3>5. f \in Made
      BY Zenon, <3>3, <3>4, NoticeKinds DEF NoticeOK, Names
    <3> QED BY Zenon, <1>2, <3>2, <3>5
  <2> QED BY Zenon, <2>1, <2>2, <2>3
<1> QED BY Zenon, <1>1, <1>3, <1>4 DEF NoticesOK

\* The notices that are there stay where they are, and the new one is last.
LEMMA JobCreates ==
  ASSUME IInv, NEW es, NEW level, FinishBlobFile(es, level),
         NEW n \in AnyNotice, NoticeFor(n, es), notices' = Append(notices, n), NEW f
  PROVE  (\E i \in 1..Len(notices') : Creates(notices'[i], f)) <=>
         \/ \E i \in 1..Len(notices) : Creates(notices[i], f)
         \/ es # {} /\ f = next_file
<1>1. /\ Len(notices) \in Nat /\ Len(notices') = Len(notices) + 1
      /\ \A i \in 1..Len(notices) : notices'[i] = notices[i]
      /\ notices'[Len(notices) + 1] = n
  <2>1. notices \in Seq(AnyNotice)
    BY Zenon DEF IInv, TypesOK
  <2>2. /\ Append(notices, n) \in Seq(AnyNotice) /\ Len(notices) \in Nat
        /\ Len(Append(notices, n)) = Len(notices) + 1
        /\ \A i \in 1..Len(notices) : Append(notices, n)[i] = notices[i]
        /\ Append(notices, n)[Len(notices) + 1] = n
    BY Zenon, <2>1, AppendNotice
  <2> QED BY Zenon, <2>2
<1>2. 1..Len(notices') = 1..Len(notices) \cup {Len(notices) + 1}
  BY <1>1
<1>3. Creates(n, f) <=> es # {} /\ f = next_file
  <2>1. CASE n.kind = "flush"
    BY <2>1 DEF Creates, NoticeFor
  <2>2. CASE n.kind # "flush"
    <3>1. n.kind = "compaction"
      BY Zenon, <2>2, NoticeKinds
    <3> QED BY <2>2, <3>1 DEF Creates, NoticeFor
  <2> QED BY Zenon, <2>1, <2>2
<1> QED BY Zenon, <1>1, <1>2, <1>3

\* A job leaves the states of the other files, and its own waits for its listener.
LEMMA JobKeepsStates ==
  ASSUME IInv, NEW es, IsFiniteSet(es), NEW level, FinishBlobFile(es, level),
         NEW n \in AnyNotice, NoticeFor(n, es), notices' = Append(notices, n)
  PROVE  StatesOK'
<1> SUFFICES ASSUME NEW f \in Made'
             PROVE  /\ meta'[f].size \in Nat /\ meta'[f].discardable \in Nat
                    /\ meta'[f].state \in {"kPendingLSM", "kNormal", "kToMerge", "kToGC", "kObsolete"}
                    /\ meta'[f].state = "kObsolete" <=> Left(f)' = 0
                    /\ f \in files' \/ meta'[f].state = "kObsolete"
                    /\ meta'[f].state = "kPendingLSM" <=>
                         \E i \in 1..Len(notices') : Creates(notices'[i], f)
                    /\ meta'[f].state = "kPendingLSM" => meta'[f].discardable = 0
  BY Zenon DEF StatesOK
<1>1. CASE es # {} /\ f = next_file
  <2>1. /\ meta'[f] = NewMeta(es, level) /\ f \in files'
    BY Zenon, <1>1, FinishFacts
  <2>2. /\ meta'[f].size = Cardinality(es) + kOverhead /\ meta'[f].discardable = 0
        /\ meta'[f].state = "kPendingLSM"
    BY Zenon, <2>1, NewMetaFacts
  <2>3. Cardinality(es) \in Nat /\ Cardinality(es) # 0
    BY Zenon, <1>1, FS_CardinalityType, FS_EmptySet
  <2>4. meta'[f].size \in Nat /\ Left(f)' # 0
    BY <2>2, <2>3 DEF Left, kOverhead
  <2>5. \E i \in 1..Len(notices') : Creates(notices'[i], f)
    BY Zenon, <1>1, JobCreates
  <2> QED BY <2>1, <2>2, <2>4, <2>5
<1>2. CASE ~(es # {} /\ f = next_file)
  <2>1. f \in Made /\ meta'[f] = meta[f] /\ files \subseteq files'
    BY Zenon, <1>2, OtherFiles
  <2>2. Left(f)' = Left(f)
    BY Zenon, <2>1 DEF Left
  <2>3. (\E i \in 1..Len(notices') : Creates(notices'[i], f)) <=>
        \E i \in 1..Len(notices) : Creates(notices[i], f)
    BY Zenon, <1>2, JobCreates
  <2>4. /\ meta[f].size \in Nat /\ meta[f].discardable \in Nat
        /\ meta[f].state \in {"kPendingLSM", "kNormal", "kToMerge", "kToGC", "kObsolete"}
        /\ meta[f].state = "kObsolete" <=> Left(f) = 0
        /\ f \in files \/ meta[f].state = "kObsolete"
        /\ meta[f].state = "kPendingLSM" <=> \E i \in 1..Len(notices) : Creates(notices[i], f)
        /\ meta[f].state = "kPendingLSM" => meta[f].discardable = 0
    BY Zenon, <2>1 DEF IInv, StatesOK
  <2> QED BY Zenon, <2>1, <2>2, <2>3, <2>4
<1> QED BY Zenon, <1>1, <1>2

\* What a job takes from a file is what its listener will count.
LEMMA JobKeepsCounts ==
  ASSUME IInv, NEW es, IsFiniteSet(es), NEW level, FinishBlobFile(es, level),
         NEW n \in AnyNotice, NoticeFor(n, es), notices' = Append(notices, n),
         IsFiniteSet(Entries'),
         \A f \in Made : Records(Entries, f) = Records(Entries', f) + Loss(n, f),
         es # {} => Records(Entries', next_file) = Cardinality(es)
  PROVE  CountsOK'
<1> SUFFICES ASSUME NEW f \in Made'
             PROVE  Accounted(notices', f, Left(f)', Records(Entries', f))
  BY Zenon DEF CountsOK
<1>0. notices \in Seq(AnyNotice) /\ Loss(n, f) \in Nat /\ Records(Entries', f) \in Nat
  BY Zenon, NoticeKinds, RecordsNat DEF IInv, TypesOK
<1>1. CASE es # {} /\ f = next_file
  <2> DEFINE c == Cardinality(es)
  <2>1. c \in Nat
    BY Zenon, FS_CardinalityType
  <2>2. Left(f)' = c
    <3>1. /\ meta'[f].size = c + kOverhead /\ meta'[f].discardable = 0
      <4>1. meta'[f] = NewMeta(es, level)
        BY Zenon, <1>1, FinishFacts
      <4> QED BY Zenon, <4>1, NewMetaFacts
    <3> HIDE DEF c
    <3> QED BY <2>1, <3>1 DEF Left, kOverhead
  <2>3. \A i \in 1..Len(notices) : Loss(notices[i], f) = 0
    <3> TAKE i \in 1..Len(notices)
    <3>1. NoticeOK(notices[i]) /\ f \notin Made
      BY Zenon, <1>1, FinishFacts DEF IInv, NoticesOK
    <3> QED BY Zenon, <3>1 DEF NoticeOK, Loss
  <2>4. Loss(n, f) = 0
    <3>1. n.kind = "compaction" => f \in n.outputs
      BY <1>1 DEF NoticeFor
    <3>2. n.kind = "compaction" => n.diff[f] >= 0 /\ (f \in DOMAIN n.diff => n.diff[f] \in Int)
      BY Zenon, <3>1, NoticeKinds DEF NoticeFor
    <3> QED BY <3>2 DEF Loss
  <2> HIDE DEF c
  <2>5. Accounted(notices, f, c, c)
    BY Zenon, <1>0, <2>1, <2>3, AccountedNew
  <2>6. c = c + Loss(n, f)
    BY <2>1, <2>4
  <2>7. Accounted(Append(notices, n), f, c, c)
    BY Zenon, <1>0, <2>1, <2>5, <2>6, AccountedAppend
  <2> QED BY Zenon, <1>1, <2>2, <2>7 DEF c
<1>2. CASE ~(es # {} /\ f = next_file)
  <2>1. f \in Made /\ meta'[f] = meta[f]
    BY Zenon, <1>2, OtherFiles
  <2>2. Left(f)' = Left(f)
    BY Zenon, <2>1 DEF Left
  <2>3. Accounted(notices, f, Left(f), Records(Entries, f))
    BY Zenon, <2>1 DEF IInv, CountsOK
  <2>4. Records(Entries, f) = Records(Entries', f) + Loss(n, f)
    BY Zenon, <2>1
  <2>5. Accounted(Append(notices, n), f, Left(f), Records(Entries', f))
    BY Zenon, <1>0, <2>3, <2>4, AccountedAppend
  <2> QED BY Zenon, <2>2, <2>5
<1> QED BY Zenon, <1>1, <1>2

\* FinishBlobFile leaves meta data of the right form.
LEMMA JobKeepsMeta ==
  ASSUME IInv, NEW es, NEW level, FinishBlobFile(es, level)
  PROVE  /\ files' \subseteq Made' /\ next_file' \in 1..MaxFile + 1
         /\ meta' = [f \in File |-> meta'[f]]
         /\ \A f \in File : IsMeta(meta'[f])
         /\ \A f \in File \ Made' : meta'[f] = NoMeta
<1>1. /\ meta = [f \in File |-> meta[f]]
      /\ \A f \in File : IsMeta(meta[f])
      /\ \A f \in File \ Made : meta[f] = NoMeta
  BY Zenon DEF IInv, TypesOK
<1>2. CASE es = {}
  <2>1. meta' = meta /\ Made' = Made
    BY Zenon, <1>2, FinishFacts
  <2> QED BY Zenon, <1>1, <2>1, FinishFacts
<1>3. CASE es # {}
  <2>1. /\ files' \subseteq Made' /\ next_file' \in 1..MaxFile + 1
        /\ meta' = [f \in File |-> meta'[f]] /\ Made' = Made \cup {next_file}
        /\ meta'[next_file] = NewMeta(es, level)
    BY Zenon, <1>3, FinishFacts
  <2>2. \A f \in File : f # next_file => meta'[f] = meta[f]
    BY Zenon, FinishFacts
  <2>3. \A f \in File : IsMeta(meta'[f])
    <3> TAKE f \in File
    <3>1. CASE f = next_file
      <4>1. meta'[f] = NewMeta(es, level)
        BY Zenon, <2>1, <3>1
      <4> QED BY Zenon, <4>1, NewMetaFacts
    <3>2. CASE f # next_file
      <4>1. meta'[f] = meta[f]
        BY Zenon, <2>2, <3>2
      <4> QED BY Zenon, <1>1, <4>1
    <3> QED BY Zenon, <3>1, <3>2
  <2>4. \A f \in File \ Made' : meta'[f] = NoMeta
    BY Zenon, <1>1, <2>1, <2>2
  <2> QED BY Zenon, <2>1, <2>3, <2>4
<1> QED BY Zenon, <1>2, <1>3

-----------------------------------------------------------------------------
(* The levels after a job                                                  *)

\* Entries as what is in a level.
LEMMA InEntries ==
  ASSUME NEW e PROVE e \in Entries <=> \E l \in Level : e \in lsm[l]
  BY Zenon DEF Entries

\* A compaction replaces its two levels by its output.
LEMMA ReplacedLevels ==
  ASSUME TypesOK, EntriesOK, NEW l \in Level, NEW t \in Level, l # t, NEW out,
         lsm' = [lsm EXCEPT ![l] = {}, ![t] = out]
  PROVE  /\ Entries' = (Entries \ (lsm[l] \cup lsm[t])) \cup out
         /\ lsm'[l] = {} /\ lsm'[t] = out
         /\ \A m \in Level : m # l /\ m # t => lsm'[m] = lsm[m]
         /\ DOMAIN lsm' = Level
<1>1. lsm \in [Level -> SUBSET Entry]
  BY Zenon DEF TypesOK
<1>2. /\ lsm'[l] = {} /\ lsm'[t] = out /\ DOMAIN lsm' = Level
      /\ \A m \in Level : m # l /\ m # t => lsm'[m] = lsm[m]
  BY <1>1
<1>3. Entries' = UNION {lsm'[m] : m \in Level}
  BY Zenon DEF Entries
<1>4. ASSUME NEW e \in Entries' PROVE e \in (Entries \ (lsm[l] \cup lsm[t])) \cup out
  <2>1. PICK m \in Level : e \in lsm'[m]
    BY Zenon, <1>3
  <2>2. CASE m = l \/ m = t
    BY Zenon, <1>2, <2>1, <2>2
  <2>3. CASE m # l /\ m # t
    <3>1. e \in lsm[m]
      BY Zenon, <1>2, <2>1, <2>3
    <3>2. e \notin lsm[l] /\ e \notin lsm[t]
      BY Zenon, <2>3, <3>1 DEF EntriesOK
    <3> QED BY Zenon, <3>1, <3>2, InEntries
  <2> QED BY Zenon, <2>2, <2>3
<1>5. ASSUME NEW e \in (Entries \ (lsm[l] \cup lsm[t])) \cup out PROVE e \in Entries'
  <2>1. CASE e \in out
    BY Zenon, <1>2, <1>3, <2>1
  <2>2. CASE e \notin out
    <3>1. PICK m \in Level : e \in lsm[m]
      BY Zenon, <1>5, <2>2, InEntries
    <3>2. m # l /\ m # t
      BY Zenon, <1>5, <2>2, <3>1
    <3> QED BY Zenon, <1>2, <1>3, <3>1, <3>2
  <2> QED BY Zenon, <2>1, <2>2
<1> QED BY Zenon, <1>2, <1>4, <1>5

\* The output of a compaction has versions of its input, each once.
OutputOf(out, in, next) ==
  /\ out \subseteq Entry
  /\ \A e \in out : e.file < next /\ \E o \in in : o.key = e.key /\ o.version = e.version
  /\ \A e, d \in out : e.key = d.key /\ e.version = d.version => e = d

\* A compaction keeps each version in one place.
LEMMA CompactionKeepsEntries ==
  ASSUME IInv, NEW l \in Level, NEW t \in Level, l # t, NEW out,
         lsm' = [lsm EXCEPT ![l] = {}, ![t] = out], UNCHANGED flushes,
         OutputOf(out, lsm[l] \cup lsm[t], next_file'), next_file <= next_file',
         next_file' \in 1..MaxFile + 1
  PROVE  /\ EntriesOK' /\ lsm' \in [Level -> SUBSET Entry]
         /\ (Entries \ (lsm[l] \cup lsm[t])) \cap out = {}
<1>0. TypesOK /\ EntriesOK
  BY Zenon DEF IInv
<1>1. /\ lsm'[l] = {} /\ lsm'[t] = out /\ DOMAIN lsm' = Level
      /\ \A m \in Level : m # l /\ m # t => lsm'[m] = lsm[m]
  BY Zenon, <1>0, ReplacedLevels
<1>2. lsm \in [Level -> SUBSET Entry] /\ flushes \in 0..MaxFlush /\ next_file \in 1..MaxFile + 1
  BY Zenon, <1>0 DEF TypesOK
<1>3. lsm' \in [Level -> SUBSET Entry]
  BY <1>2 DEF OutputOf
<1>4. ASSUME NEW e \in out
      PROVE  e.version <= flushes /\ \E m \in {l, t} : \E o \in lsm[m] : o.key = e.key /\ o.version = e.version
  BY Zenon, <1>0 DEF OutputOf, EntriesOK
<1>5. ASSUME NEW m \in Level, NEW e \in lsm'[m]
      PROVE  e.version <= flushes' /\ e.file < next_file'
  <2>1. CASE m = l
    BY Zenon, <1>1, <1>5, <2>1
  <2>2. CASE m = t
    BY Zenon, <1>1, <1>4, <1>5, <2>2 DEF OutputOf
  <2>3. CASE m # l /\ m # t
    <3>1. e \in lsm[m] /\ e.version <= flushes /\ e.file < next_file
      BY Zenon, <1>0, <1>1, <1>5, <2>3 DEF EntriesOK
    <3>2. e.file \in Int
      <4>1. e \in Entry
        BY Zenon, <1>2, <3>1
      <4> QED BY <4>1, LevelMergeAssumption DEF Entry
    <3> QED BY <1>2, <3>1, <3>2, LevelMergeAssumption
  <2> QED BY Zenon, <2>1, <2>2, <2>3
<1>6. ASSUME NEW m \in Level, NEW e \in lsm[m], m # l, m # t,
             NEW d \in out, e.key = d.key, e.version = d.version
      PROVE  FALSE
  <2>1. PICK k \in {l, t} : \E o \in lsm[k] : o.key = d.key /\ o.version = d.version
    BY Zenon, <1>4
  <2>2. PICK o \in lsm[k] : o.key = d.key /\ o.version = d.version
    BY Zenon, <2>1
  <2>3. k \in Level
    BY Zenon
  <2>4. m = k
    BY Zenon, <1>0, <1>6, <2>2, <2>3 DEF EntriesOK
  <2> QED BY Zenon, <1>6, <2>4
<1>7. \A m, k \in Level : \A e \in lsm'[m], d \in lsm'[k] :
        e.key = d.key /\ e.version = d.version => m = k /\ e = d
  <2> TAKE m, k \in Level
  <2> TAKE e \in lsm'[m], d \in lsm'[k]
  <2> HAVE e.key = d.key /\ e.version = d.version
  <2>1. m # l /\ k # l
    BY Zenon, <1>1
  <2>2. CASE m = t /\ k = t
    BY Zenon, <1>1, <2>2 DEF OutputOf
  <2>3. CASE m # t /\ k # t
    <3>1. e \in lsm[m] /\ d \in lsm[k]
      BY Zenon, <1>1, <2>1, <2>3
    <3> QED BY Zenon, <1>0, <3>1 DEF EntriesOK
  <2>4. CASE m # t /\ k = t
    <3>1. e \in lsm[m] /\ d \in out
      BY Zenon, <1>1, <2>1, <2>4
    <3> QED BY Zenon, <1>6, <2>1, <2>4, <3>1
  <2>5. CASE m = t /\ k # t
    <3>1. e \in out /\ d \in lsm[k] /\ d.key = e.key /\ d.version = e.version
      BY Zenon, <1>1, <2>1, <2>5
    <3> QED BY Zenon, <1>6, <2>1, <2>5, <3>1
  <2> QED BY Zenon, <2>2, <2>3, <2>4, <2>5
<1>8. (Entries \ (lsm[l] \cup lsm[t])) \cap out = {}
  <2> SUFFICES ASSUME NEW e \in Entries, e \notin lsm[l], e \notin lsm[t], e \in out PROVE FALSE
    BY Zenon
  <2>1. PICK m \in Level : e \in lsm[m]
    BY Zenon, InEntries
  <2>2. m # l /\ m # t
    BY Zenon, <2>1
  <2> QED BY Zenon, <1>6, <2>1, <2>2
<1>9. EntriesOK'
  <2>1. \A m \in Level : \A e \in lsm'[m] : e.version <= flushes' /\ e.file < next_file'
    BY Zenon, <1>5
  <2> QED BY Zenon, <1>7, <2>1 DEF EntriesOK
<1> QED BY Zenon, <1>3, <1>8, <1>9

\* What is left to show of a job: its entries, and what it took from each file.
LEMMA JobKeeps ==
  ASSUME IInv, NEW es, IsFiniteSet(es), NEW level, FinishBlobFile(es, level),
         NEW n \in AnyNotice, NoticeFor(n, es), notices' = Append(notices, n),
         EntriesOK', lsm' \in [Level -> SUBSET Entry], IsFiniteSet(Entries'),
         flushes' \in 0..MaxFlush, UNCHANGED assert_ok,
         \A f \in Made : Records(Entries, f) = Records(Entries', f) + Loss(n, f),
         es # {} => Records(Entries', next_file) = Cardinality(es)
  PROVE  IInv'
<1>1. NoticesOK' /\ notices' \in Seq(AnyNotice)
  BY Zenon, JobKeepsNotices
<1>2. StatesOK'
  BY Zenon, JobKeepsStates
<1>3. CountsOK'
  BY Zenon, JobKeepsCounts
<1>4. TypesOK'
  <2>1. /\ files' \subseteq Made' /\ next_file' \in 1..MaxFile + 1
        /\ meta' = [f \in File |-> meta'[f]]
        /\ \A f \in File : IsMeta(meta'[f])
        /\ \A f \in File \ Made' : meta'[f] = NoMeta
    BY Zenon, JobKeepsMeta
  <2> QED BY Zenon, <1>1, <2>1 DEF TypesOK
<1>5. assert_ok' = TRUE
  BY Zenon DEF IInv
<1> QED BY Zenon, <1>1, <1>2, <1>3, <1>4, <1>5 DEF IInv

\* The entries of two levels.
LEMMA InputFacts ==
  ASSUME IInv, NEW l \in Level, NEW t \in Level
  PROVE  LET in == lsm[l] \cup lsm[t]
         IN  /\ in \subseteq Entry /\ in \subseteq Entries /\ IsFiniteSet(in)
             /\ IsFiniteSet(Entries \ in)
             /\ \A e \in in : e.version <= flushes /\ e.file < next_file /\ e.file \in 0..MaxFile
             /\ \A e, d \in in : e.key = d.key /\ e.version = d.version => e = d
<1> DEFINE in == lsm[l] \cup lsm[t]
<1>1. lsm \in [Level -> SUBSET Entry] /\ IsFiniteSet(Entries) /\ EntriesOK
  BY Zenon DEF IInv, TypesOK
<1>2. in \subseteq Entry /\ in \subseteq Entries
  BY Zenon, <1>1, InEntries
<1>3. IsFiniteSet(in) /\ IsFiniteSet(Entries \ in)
  BY Zenon, <1>1, <1>2, FS_Subset
<1>4. \A e \in in : e.version <= flushes /\ e.file < next_file
  BY Zenon, <1>1 DEF EntriesOK
<1>5. \A e \in in : e.file \in 0..MaxFile
  BY <1>2 DEF Entry
<1>6. \A e, d \in in : e.key = d.key /\ e.version = d.version => e = d
  BY Zenon, <1>1 DEF EntriesOK
<1> QED BY Zenon, <1>2, <1>3, <1>4, <1>5, <1>6

\* The files that entries name.
LEMMA NamedFiles ==
  ASSUME NEW es, NEW f PROVE f \in Named(es) <=> f # 0 /\ \E e \in es : e.file = f
  BY Zenon DEF Named

\* The notice of a compaction is of the type of notices.
LEMMA NoticeType ==
  ASSUME NEW in, NEW out, NEW t \in Level, IsFiniteSet(in), IsFiniteSet(out),
         Named(in) \subseteq File, Named(out) \subseteq File
  PROVE  Notice(in, out, t) \in AnyNotice
<1> DEFINE D == Named(in) \cup Named(out)
           g == [f \in D |-> Records(out, f) - Records(in, f)]
<1>1. \A f \in D : Records(out, f) \in Nat /\ Records(in, f) \in Nat
  BY Zenon, RecordsNat
<1>2. \A f \in D : Records(out, f) - Records(in, f) \in Int
  BY <1>1
<1>3. g \in [D -> Int] /\ D \in SUBSET File
  BY Zenon, <1>2
<1>4. g \in UNION {[X -> Int] : X \in SUBSET File}
  <2> HIDE DEF g, D
  <2> QED BY Zenon, <1>3
<1>5. Notice(in, out, t) = [kind |-> "compaction", level |-> t, diff |-> g,
                            outputs |-> Named(out) \ Named(in)]
  BY Zenon DEF Notice
<1>6. Named(out) \ Named(in) \in SUBSET File
  BY Zenon
<1> HIDE DEF g, D
<1> QED BY <1>4, <1>5, <1>6 DEF AnyNotice, CompactionNotice

\* What a compaction takes from a file that it does not build.
LEMMA CompactionLoss ==
  ASSUME NEW in, NEW out, NEW t, IsFiniteSet(in), IsFiniteSet(out), NEW f, f # 0,
         \A e \in out : e.file = f => e \in in
  PROVE  Loss(Notice(in, out, t), f) = Records(in, f) - Records(out, f)
<1> DEFINE n == Notice(in, out, t)
<1>1. /\ n.kind = "compaction" /\ DOMAIN n.diff = Named(in) \cup Named(out)
      /\ \A g \in Named(in) \cup Named(out) : n.diff[g] = Records(out, g) - Records(in, g)
  BY DEF Notice
<1>2. Records(in, f) \in Nat /\ Records(out, f) \in Nat /\ Records(out, f) <= Records(in, f)
  BY Zenon, RecordsNat, RecordsFewer
<1>3. f \notin Named(in) \cup Named(out) => Records(in, f) = 0 /\ Records(out, f) = 0
  BY Zenon, RecordsNat, NamedFiles
<1> HIDE DEF n
<1>4. Loss(n, f) = Records(in, f) - Records(out, f)
  BY <1>1, <1>2, <1>3 DEF Loss
<1> QED BY Zenon, <1>4 DEF n

\* What a compaction leaves of live, when the values of es go to file nf.
Output(live, es, nf) == (live \ es) \cup Moved(es, nf)

\* What the input of a compaction is like, before it takes the file number nf.
InputOf(in, nf) ==
  /\ in \in SUBSET Entry /\ IsFiniteSet(in)
  /\ \A e \in in : e.file < nf
  /\ \A e, d \in in : e.key = d.key /\ e.version = d.version => e = d

\* What TitanTableBuilder makes of the input of a compaction: es are the entries
\* whose values go to the new file nf.
LEMMA OutputFacts ==
  ASSUME NEW nf \in 1..MaxFile + 1, NEW in, InputOf(in, nf),
         NEW live, live \subseteq in, NEW es, es \subseteq live, es # {} => nf \in File,
         NEW next, es = {} => next = nf, es # {} => next = nf + 1,
         NEW out, out = Output(live, es, nf)
  PROVE  /\ OutputOf(out, in, next) /\ IsFiniteSet(es) /\ IsFiniteSet(out)
         /\ \A e \in out : e.file # nf => e \in in
         /\ Records(out, nf) = Cardinality(es)
<1>a. /\ in \in SUBSET Entry /\ IsFiniteSet(in)
      /\ \A e \in in : e.file < nf
      /\ \A e, d \in in : e.key = d.key /\ e.version = d.version => e = d
  BY Zenon DEF InputOf
<1> USE <1>a
<1>0. out = (live \ es) \cup Moved(es, nf)
  BY Zenon DEF Output
<1>1. /\ es \in SUBSET Entry /\ IsFiniteSet(es) /\ IsFiniteSet(live \ es)
      /\ \A a, b \in es : a.key = b.key /\ a.version = b.version => a = b
  <2>1. es \in SUBSET in /\ live \ es \in SUBSET in /\ es \in SUBSET Entry
    BY Zenon
  <2> QED BY Zenon, <2>1, FS_Subset
<1>2. IsFiniteSet(Moved(es, nf)) /\ Cardinality(Moved(es, nf)) = Cardinality(es)
  BY Zenon, <1>1, MovedCount
<1>3. IsFiniteSet(out)
  <2>1. IsFiniteSet((live \ es) \cup Moved(es, nf))
    BY Zenon, <1>1, <1>2, FS_Union
  <2> QED BY Zenon, <1>0, <2>1
<1>4. \A x \in Moved(es, nf) :
        /\ x.file = nf
        /\ \E e \in es : /\ x.key = e.key /\ x.version = e.version
                         /\ x = [key |-> e.key, version |-> e.version, file |-> nf]
  BY Zenon, <1>1, MovedEntry
<1>5. \A e \in live : e \in in /\ e \in Entry /\ e.file \in 0..MaxFile /\ e.file < nf
  BY DEF Entry
<1>6. \A e \in live : e.file # nf
  BY <1>5, LevelMergeAssumption
<1>7. out \subseteq Entry
  <2>1. \A x \in Moved(es, nf) : x \in Entry
    <3> TAKE x \in Moved(es, nf)
    <3>1. PICK e \in es : x = [key |-> e.key, version |-> e.version, file |-> nf]
      BY Zenon, <1>4
    <3>2. e \in Entry /\ nf \in File
      BY Zenon, <1>1
    <3> QED BY <3>1, <3>2, LevelMergeAssumption DEF Entry, File
  <2> QED BY Zenon, <1>0, <1>5, <2>1
<1>8. \A e \in out : e.file < next /\ \E o \in in : o.key = e.key /\ o.version = e.version
  <2> TAKE e \in out
  <2>1. CASE e \in live \ es
    <3>1. e.file < next
      BY <1>5, <2>1, LevelMergeAssumption
    <3> QED BY Zenon, <1>5, <2>1, <3>1
  <2>2. CASE e \in Moved(es, nf)
    <3>0. PICK d \in es : e.key = d.key /\ e.version = d.version
      BY Zenon, <1>4, <2>2
    <3>1. e.file = nf /\ es # {} /\ d \in in
      BY Zenon, <1>4, <2>2
    <3>2. e.file < next
      BY <3>1, LevelMergeAssumption
    <3> QED BY Zenon, <3>0, <3>1, <3>2
  <2> QED BY Zenon, <1>0, <2>1, <2>2
<1>9. \A e, d \in out : e.key = d.key /\ e.version = d.version => e = d
  <2>1. \A e \in live \ es : \A d \in Moved(es, nf) : ~(e.key = d.key /\ e.version = d.version)
    <3> SUFFICES ASSUME NEW e \in live \ es, NEW d \in Moved(es, nf),
                        e.key = d.key, e.version = d.version
                 PROVE  FALSE
      BY Zenon
    <3>1. PICK b \in es : d.key = b.key /\ d.version = b.version
      BY Zenon, <1>4
    <3>2. b \in in /\ e \in in /\ e.key = b.key /\ e.version = b.version
      BY Zenon, <3>1
    <3>3. e = b
      BY Zenon, <3>2
    <3> QED BY Zenon, <3>1, <3>3
  <2>2. \A e, d \in Moved(es, nf) : e.key = d.key /\ e.version = d.version => e = d
    <3> TAKE e, d \in Moved(es, nf)
    <3> HAVE e.key = d.key /\ e.version = d.version
    <3>1. e = [key |-> e.key, version |-> e.version, file |-> nf]
      BY Zenon, <1>4
    <3>2. d = [key |-> d.key, version |-> d.version, file |-> nf]
      BY Zenon, <1>4
    <3> QED BY Zenon, <3>1, <3>2
  <2>3. \A e, d \in live \ es : e.key = d.key /\ e.version = d.version => e = d
    BY Zenon
  <2> QED BY Zenon, <1>0, <2>1, <2>2, <2>3
<1>10. \A e \in out : e.file # nf => e \in in
  BY Zenon, <1>0, <1>4
<1>11. Records(out, nf) = Cardinality(es)
  <2>1. {e \in out : e.file = nf} = Moved(es, nf)
    BY Zenon, <1>0, <1>4, <1>6
  <2> QED BY Zenon, <1>2, <2>1 DEF Records
<1> QED BY Zenon, <1>1, <1>3, <1>7, <1>8, <1>9, <1>10, <1>11 DEF OutputOf

\* The notice of a compaction tells of its new file.
LEMMA NoticeOfOutput ==
  ASSUME NEW nf, nf = next_file, nf \in 1..MaxFile + 1, NEW in \in SUBSET Entry,
         IsFiniteSet(in), \A e \in in : e.file < nf,
         NEW out, out \subseteq Entry, IsFiniteSet(out), NEW es, IsFiniteSet(es),
         es # {} => nf \in File,
         \A e \in out : e.file # nf => e \in in, Records(out, nf) = Cardinality(es),
         NEW t \in Level
  PROVE  Notice(in, out, t) \in AnyNotice /\ NoticeFor(Notice(in, out, t), es)
<1>1. \A e \in in : e.file \in 0..MaxFile /\ e.file < nf
  BY DEF Entry
<1>2. Named(in) \subseteq Made /\ nf \notin Named(in)
  <2> SUFFICES ASSUME NEW f \in Named(in) PROVE f \in Made /\ f # nf
    BY Zenon
  <2>1. f # 0 /\ \E e \in in : e.file = f
    BY Zenon, NamedFiles
  <2>2. f # 0 /\ f \in 0..MaxFile /\ f < nf
    BY Zenon, <1>1, <2>1
  <2> QED BY <2>2, LevelMergeAssumption DEF Made
<1>3. Named(out) \ Named(in) = IF es = {} THEN {} ELSE {nf}
  <2>1. nf # 0
    BY LevelMergeAssumption
  <2>2. Cardinality(es) = 0 <=> es = {}
    BY Zenon, FS_EmptySet
  <2>3. nf \in Named(out) <=> es # {}
    <3>1. Records(out, nf) = 0 <=> \A e \in out : e.file # nf
      BY Zenon, RecordsNat
    <3>2. nf \in Named(out) <=> \E e \in out : e.file = nf
      BY Zenon, <2>1, NamedFiles
    <3> QED BY Zenon, <2>2, <3>1, <3>2
  <2>4. \A f \in Named(out) : f # nf => f \in Named(in)
    BY Zenon, NamedFiles
  <2> QED BY Zenon, <1>2, <2>3, <2>4
<1>4. Named(in) \subseteq File /\ Named(out) \subseteq File
  <2>1. \A f \in Made : f \in File
    BY LevelMergeAssumption DEF Made, File
  <2> QED BY Zenon, <1>2, <1>3, <2>1
<1>5. Notice(in, out, t) \in AnyNotice
  BY Zenon, <1>4, NoticeType
<1>6. Records(out, nf) \in Nat /\ Records(in, nf) = 0
  <2>1. \A e \in in : e.file # nf
    BY <1>1, LevelMergeAssumption
  <2> QED BY Zenon, <2>1, RecordsNat
<1>7. /\ Notice(in, out, t).kind = "compaction"
      /\ Notice(in, out, t).outputs = Named(out) \ Named(in)
      /\ DOMAIN Notice(in, out, t).diff = Named(in) \cup Named(out)
      /\ \A f \in Named(in) \cup Named(out) :
           Notice(in, out, t).diff[f] = Records(out, f) - Records(in, f)
  BY DEF Notice
<1>8. \A f \in Named(out) \ Named(in) : Notice(in, out, t).diff[f] >= 0
  <2> TAKE f \in Named(out) \ Named(in)
  <2>1. f = nf /\ Notice(in, out, t).diff[f] = Records(out, f) - Records(in, f)
    BY Zenon, <1>3, <1>7
  <2> QED BY <1>6, <2>1
<1>9. Named(in) \cup Named(out) \subseteq Made \cup (Named(out) \ Named(in))
  BY Zenon, <1>2
<1> QED BY Zenon, <1>3, <1>5, <1>7, <1>8, <1>9 DEF NoticeFor

\* What a compaction takes from the entries of a file.
LEMMA CompactionRecords ==
  ASSUME NEW A, NEW in, NEW out, IsFiniteSet(A), IsFiniteSet(out), in \subseteq A,
         (A \ in) \cap out = {}, NEW f, f # 0,
         \A e \in out : e.file = f => e \in in, NEW t
  PROVE  Records(A, f) = Records((A \ in) \cup out, f) + Loss(Notice(in, out, t), f)
<1> DEFINE B == A \ in
<1>1. IsFiniteSet(in) /\ IsFiniteSet(B)
  BY Zenon, FS_Subset
<1>2. A = B \cup in /\ B \cap in = {} /\ B \cap out = {}
  BY Zenon
<1> HIDE DEF B
<1>3. Records(B \cup in, f) = Records(B, f) + Records(in, f)
  BY <1>1, <1>2, RecordsSplit
<1>4. Records(B \cup out, f) = Records(B, f) + Records(out, f)
  BY <1>1, <1>2, RecordsSplit
<1>5. Loss(Notice(in, out, t), f) = Records(in, f) - Records(out, f)
  BY Zenon, <1>1, CompactionLoss
<1>6. Records(B, f) \in Nat /\ Records(in, f) \in Nat /\ Records(out, f) \in Nat
  BY Zenon, <1>1, RecordsNat
<1>7. Records(A, f) = Records(B, f) + Records(in, f)
  BY Zenon, <1>2, <1>3
<1>8. Records(A, f) = Records(B \cup out, f) + Loss(Notice(in, out, t), f)
  BY <1>4, <1>5, <1>6, <1>7
<1> QED BY Zenon, <1>8 DEF B

\* Compact keeps the invariant.
LEMMA CompactKeeps ==
  ASSUME IInv, NEW l \in Level, NEW low \in BOOLEAN, Compact(l, low)
  PROVE  IInv'
<1> DEFINE T == l + 1
           I == lsm[l] \cup lsm[T]
           L == Survivors(I)
           M == {e \in L : ShouldMerge(e.file, T, low)}
           O == Output(L, M, next_file)
<1>1. /\ T \in Level /\ FinishBlobFile(M, T)
      /\ lsm' = [lsm EXCEPT ![l] = {}, ![T] = O]
      /\ notices' = Append(notices, Notice(I, O, T))
      /\ UNCHANGED flushes /\ UNCHANGED assert_ok
  BY Zenon DEF Compact, Moved, Output
<1>2. l # T
  BY LevelMergeAssumption DEF Level
<1>3. L \in SUBSET I /\ M \in SUBSET L
  BY Zenon DEF Survivors
<1> HIDE DEF T, L, M
<1>4. PICK t : t = T
  OBVIOUS
<1>5. PICK in : in = I
  BY Zenon
<1>6. PICK live : live = L
  OBVIOUS
<1>7. PICK es : es = M
  OBVIOUS
<1>8. PICK nf : nf = next_file
  OBVIOUS
<1>9. PICK out : out = Output(live, es, nf)
  OBVIOUS
<1>10. PICK next : next = next_file'
  OBVIOUS
<1>11. PICK n : n = Notice(in, out, t)
  OBVIOUS
<1>12. /\ t \in Level /\ l # t /\ FinishBlobFile(es, t) /\ in = lsm[l] \cup lsm[t]
       /\ lsm' = [lsm EXCEPT ![l] = {}, ![t] = out]
       /\ notices' = Append(notices, n)
       /\ live \in SUBSET in /\ es \in SUBSET live
       /\ UNCHANGED flushes /\ UNCHANGED assert_ok
  BY Zenon, <1>1, <1>2, <1>3, <1>4, <1>5, <1>6, <1>7, <1>8, <1>9, <1>11
<1> HIDE DEF I, O
<1>13. /\ in \subseteq Entry /\ in \in SUBSET Entry /\ in \subseteq Entries /\ IsFiniteSet(in)
       /\ \A e \in in : e.version <= flushes /\ e.file < nf
       /\ \A e, d \in in : e.key = d.key /\ e.version = d.version => e = d
  <2>1. /\ lsm[l] \cup lsm[t] \subseteq Entry /\ lsm[l] \cup lsm[t] \subseteq Entries
        /\ IsFiniteSet(lsm[l] \cup lsm[t])
        /\ \A e \in lsm[l] \cup lsm[t] : e.version <= flushes /\ e.file < next_file
        /\ \A e, d \in lsm[l] \cup lsm[t] : e.key = d.key /\ e.version = d.version => e = d
    BY Zenon, <1>12, InputFacts
  <2> QED BY Zenon, <1>8, <1>12, <2>1
<1>14. nf \in 1..MaxFile + 1 /\ TypesOK /\ EntriesOK /\ IsFiniteSet(Entries)
       /\ flushes \in 0..MaxFlush
  BY Zenon, <1>8 DEF IInv, TypesOK
<1>15. /\ es = {} => next = nf
       /\ es # {} => nf \in File /\ nf \notin Made /\ next = nf + 1
       /\ next_file' \in 1..MaxFile + 1 /\ next_file <= next_file'
  BY Zenon, <1>8, <1>10, <1>12, FinishFacts
<1>16. /\ OutputOf(out, in, next) /\ IsFiniteSet(es) /\ IsFiniteSet(out)
       /\ \A e \in out : e.file # nf => e \in in
       /\ Records(out, nf) = Cardinality(es)
  <2>1. InputOf(in, nf)
    BY Zenon, <1>13 DEF InputOf
  <2>2. /\ nf \in 1..MaxFile + 1 /\ live \subseteq in /\ es \subseteq live
        /\ es # {} => nf \in File
        /\ es = {} => next = nf
        /\ es # {} => next = nf + 1
    BY Zenon, <1>12, <1>14, <1>15
  <2> QED BY <1>9, <2>1, <2>2, OutputFacts
<1>17. n \in AnyNotice /\ NoticeFor(n, es)
  <2>1. out \subseteq Entry
    BY Zenon, <1>16 DEF OutputOf
  <2> QED BY Zenon, <1>8, <1>11, <1>12, <1>13, <1>14, <1>15, <1>16, <2>1, NoticeOfOutput
<1>18. /\ EntriesOK' /\ lsm' \in [Level -> SUBSET Entry]
       /\ (Entries \ in) \cap out = {}
  <2>1. OutputOf(out, lsm[l] \cup lsm[t], next_file')
    BY Zenon, <1>10, <1>12, <1>16
  <2> QED BY Zenon, <1>12, <1>15, <2>1, CompactionKeepsEntries
<1>19. Entries' = (Entries \ in) \cup out
  BY Zenon, <1>12, <1>14, ReplacedLevels
<1>20. IsFiniteSet(Entries \ in) /\ IsFiniteSet(Entries')
  <2>1. IsFiniteSet(Entries \ in)
    BY Zenon, <1>14, FS_Subset
  <2> QED BY Zenon, <1>16, <1>19, <2>1, FS_Union
<1>21. \A f \in Made : Records(Entries, f) = Records(Entries', f) + Loss(n, f)
  <2> TAKE f \in Made
  <2>1. f # 0 /\ f # nf
    BY <1>8, <1>14, LevelMergeAssumption DEF Made
  <2>2. \A e \in out : e.file = f => e \in in
    BY Zenon, <1>16, <2>1
  <2>3. Records(Entries, f) = Records((Entries \ in) \cup out, f) + Loss(Notice(in, out, t), f)
    BY <1>13, <1>14, <1>16, <1>18, <2>1, <2>2, CompactionRecords
  <2> QED BY Zenon, <1>11, <1>19, <2>3
<1>22. Records(Entries', nf) = Cardinality(es)
  <2>1. \A e \in Entries \ in : e.file # nf
    <3> TAKE e \in Entries \ in
    <3>1. PICK m \in Level : e \in lsm[m]
      BY Zenon, InEntries
    <3>2. e \in Entry /\ e.file < next_file
      BY Zenon, <1>14, <3>1 DEF TypesOK, EntriesOK
    <3> QED BY <1>8, <1>14, <3>2, LevelMergeAssumption DEF Entry
  <2>2. Records(Entries \ in, nf) = 0
    BY Zenon, <1>20, <2>1, RecordsNat
  <2>3. Records((Entries \ in) \cup out, nf) = Records(Entries \ in, nf) + Records(out, nf)
    BY <1>16, <1>18, <1>20, RecordsSplit
  <2>4. Records(out, nf) \in Nat
    BY Zenon, <1>16, RecordsNat
  <2>5. 0 + Records(out, nf) = Records(out, nf)
    BY <2>4
  <2> QED BY Zenon, <1>16, <1>19, <2>2, <2>3, <2>5
<1>23. flushes' \in 0..MaxFlush
  BY Zenon, <1>12, <1>14
<1> QED BY Zenon, <1>8, <1>12, <1>16, <1>17, <1>18, <1>20, <1>21, <1>22, <1>23, JobKeeps

\* TrivialMove keeps the invariant.
LEMMA TrivialMoveKeeps ==
  ASSUME IInv, NEW l \in Level, TrivialMove(l)
  PROVE  IInv'
<1> DEFINE T == l + 1
<1>1. /\ T \in Level
      /\ lsm' = [lsm EXCEPT ![l] = {}, ![T] = @ \cup lsm[l]]
      /\ notices' = Append(notices, Notice(lsm[l], lsm[l], T))
      /\ UNCHANGED flushes /\ UNCHANGED files /\ UNCHANGED meta
      /\ UNCHANGED next_file /\ UNCHANGED assert_ok
  BY Zenon DEF TrivialMove
<1>2. l # T
  BY LevelMergeAssumption DEF Level
<1> HIDE DEF T
<1>3. PICK t : t = T
  OBVIOUS
<1>4. PICK in : in = lsm[l] \cup lsm[t]
  BY Zenon
<1>5. PICK top : top = lsm[l]
  OBVIOUS
<1>6. PICK n : n = Notice(top, top, t)
  OBVIOUS
<1>7. TypesOK /\ EntriesOK /\ IsFiniteSet(Entries) /\ lsm \in [Level -> SUBSET Entry]
      /\ next_file \in 1..MaxFile + 1 /\ flushes \in 0..MaxFlush
  BY Zenon DEF IInv, TypesOK
<1>8. /\ t \in Level /\ l # t /\ notices' = Append(notices, n)
      /\ lsm' = [lsm EXCEPT ![l] = {}, ![t] = in]
  <2>1. /\ t \in Level /\ l # t /\ notices' = Append(notices, n)
        /\ lsm' = [lsm EXCEPT ![l] = {}, ![t] = @ \cup lsm[l]]
    BY Zenon, <1>1, <1>2, <1>3, <1>5, <1>6
  <2>2. [lsm EXCEPT ![l] = {}, ![t] = @ \cup lsm[l]] = [lsm EXCEPT ![l] = {}, ![t] = in]
    BY Zenon, <1>4, <1>7, <2>1
  <2> QED BY Zenon, <2>1, <2>2
<1>9. /\ in \subseteq Entry /\ in \subseteq Entries /\ IsFiniteSet(in)
      /\ \A e \in in : e.version <= flushes /\ e.file < next_file
      /\ \A e, d \in in : e.key = d.key /\ e.version = d.version => e = d
  <2>1. /\ lsm[l] \cup lsm[t] \subseteq Entry /\ lsm[l] \cup lsm[t] \subseteq Entries
        /\ IsFiniteSet(lsm[l] \cup lsm[t])
        /\ \A e \in lsm[l] \cup lsm[t] : e.version <= flushes /\ e.file < next_file
        /\ \A e, d \in lsm[l] \cup lsm[t] : e.key = d.key /\ e.version = d.version => e = d
    BY Zenon, <1>8, InputFacts
  <2> QED BY Zenon, <1>4, <2>1
<1>10. OutputOf(in, lsm[l] \cup lsm[t], next_file')
  <2>1. OutputOf(in, in, next_file')
    BY Zenon, <1>1, <1>9 DEF OutputOf
  <2> QED BY Zenon, <1>4, <2>1
<1>11. next_file <= next_file' /\ next_file' \in 1..MaxFile + 1
  BY <1>1, <1>7, LevelMergeAssumption
<1>12. EntriesOK' /\ lsm' \in [Level -> SUBSET Entry]
  BY Zenon, <1>1, <1>8, <1>10, <1>11, CompactionKeepsEntries
<1>13. Entries' = Entries
  <2>1. Entries' = (Entries \ (lsm[l] \cup lsm[t])) \cup in
    <3>1. t \in Level /\ l # t /\ lsm' = [lsm EXCEPT ![l] = {}, ![t] = in]
      BY Zenon, <1>8
    <3>2. TypesOK /\ EntriesOK
      BY Zenon, <1>7
    <3> QED BY Zenon, <3>1, <3>2, ReplacedLevels
  <2> QED BY Zenon, <1>4, <1>9, <2>1
<1>14. top \in SUBSET in /\ top \in SUBSET Entry /\ IsFiniteSet(top)
  <2>1. top \in SUBSET in
    BY Zenon, <1>4, <1>5
  <2> QED BY Zenon, <1>9, <2>1, FS_Subset
<1>15. \A e \in top : e.file < next_file /\ e.file # next_file
  <2> TAKE e \in top
  <2>1. e \in Entry /\ e.file < next_file
    BY Zenon, <1>9, <1>14
  <2> QED BY <1>7, <2>1, LevelMergeAssumption DEF Entry
<1>16. n \in AnyNotice /\ NoticeFor(n, {})
  <2>1. Records(top, next_file) = Cardinality({}) /\ IsFiniteSet({})
    BY Zenon, <1>14, <1>15, RecordsNat, FS_EmptySet
  <2>2. \A e \in top : e.file < next_file
    BY Zenon, <1>15
  <2>3. PICK nf : nf = next_file
    OBVIOUS
  <2> QED BY <1>6, <1>7, <1>8, <1>14, <2>1, <2>2, <2>3, NoticeOfOutput
<1>17. \A f \in Made : Records(Entries, f) = Records(Entries', f) + Loss(n, f)
  <2> TAKE f \in Made
  <2>1. f # 0
    BY <1>7, LevelMergeAssumption DEF Made
  <2>2. Loss(n, f) = Records(top, f) - Records(top, f)
    BY Zenon, <1>6, <1>14, <2>1, CompactionLoss
  <2>3. Records(top, f) \in Nat /\ Records(Entries, f) \in Nat
    BY Zenon, <1>7, <1>14, RecordsNat
  <2>4. Records(Entries, f) = Records(Entries, f) + Loss(n, f)
    BY <2>2, <2>3
  <2> QED BY Zenon, <1>13, <2>4
<1>18. FinishBlobFile({}, t) /\ IsFiniteSet({})
  <2>1. UNCHANGED <<files, meta, next_file>>
    BY Zenon, <1>1
  <2> QED BY Zenon, <2>1, FS_EmptySet DEF FinishBlobFile
<1>19. flushes' \in 0..MaxFlush /\ IsFiniteSet(Entries')
  BY Zenon, <1>1, <1>7, <1>13
<1> QED BY Zenon, <1>1, <1>8, <1>12, <1>16, <1>17, <1>18, <1>19, JobKeeps

\* The entries after a flush.
LEMMA FlushKeepsEntries ==
  ASSUME IInv, NEW new, new \subseteq Entry,
         lsm' = [lsm EXCEPT ![0] = @ \cup new], flushes' = flushes + 1,
         \A e \in new : e.version = flushes + 1 /\ e.file < next_file',
         \A e, d \in new : e.key = d.key => e = d,
         next_file <= next_file', next_file' \in 1..MaxFile + 1
  PROVE  /\ EntriesOK' /\ lsm' \in [Level -> SUBSET Entry]
         /\ Entries' = Entries \cup new /\ Entries \cap new = {}
<1>1. TypesOK /\ EntriesOK /\ lsm \in [Level -> SUBSET Entry] /\ 0 \in Level
      /\ next_file \in 1..MaxFile + 1 /\ flushes \in 0..MaxFlush
  <2>1. 0 \in Level
    BY LevelMergeAssumption DEF Level
  <2> QED BY Zenon, <2>1 DEF IInv, TypesOK
<1>2. lsm' \in [Level -> SUBSET Entry]
  BY <1>1
<1>3. lsm'[0] = lsm[0] \cup new /\ \A m \in Level : m # 0 => lsm'[m] = lsm[m]
  BY <1>1
<1>4. \A m \in Level : \A e \in lsm[m] :
        /\ e.version <= flushes' /\ e.file < next_file' /\ e.version # flushes + 1
  <2> TAKE m \in Level
  <2> TAKE e \in lsm[m]
  <2>1. e \in Entry /\ e.version <= flushes /\ e.file < next_file
    BY Zenon, <1>1 DEF EntriesOK
  <2>2. e.version \in Int /\ e.file \in Int
    BY <2>1, LevelMergeAssumption DEF Entry
  <2> QED BY <1>1, <2>1, <2>2, LevelMergeAssumption
<1>5. \A m \in Level : \A e \in lsm'[m] : e \in lsm[m] \/ (m = 0 /\ e \in new)
  BY Zenon, <1>1, <1>3
<1>6. \A e \in new : e.version <= flushes' /\ e.file < next_file'
  BY <1>1, LevelMergeAssumption
<1>7. \A m \in Level : \A e \in lsm'[m] : e.version <= flushes' /\ e.file < next_file'
  BY Zenon, <1>4, <1>5, <1>6
<1>8. \A m, k \in Level : \A e \in lsm'[m], d \in lsm'[k] :
        e.key = d.key /\ e.version = d.version => m = k /\ e = d
  <2> TAKE m, k \in Level
  <2> TAKE e \in lsm'[m], d \in lsm'[k]
  <2> HAVE e.key = d.key /\ e.version = d.version
  <2>1. CASE e \in lsm[m] /\ d \in lsm[k]
    <3>1. e \in lsm[m] /\ d \in lsm[k]
      BY Zenon, <2>1
    <3>2. \A f \in lsm[m], g \in lsm[k] :
            f.key = g.key /\ f.version = g.version => m = k /\ f = g
      BY Zenon, <1>1 DEF EntriesOK
    <3> QED BY Zenon, <3>1, <3>2
  <2>2. CASE m = 0 /\ e \in new /\ k = 0 /\ d \in new
    <3>1. e \in new /\ d \in new /\ m = k
      BY <2>2
    <3>2. e = d
      BY Zenon, <3>1
    <3> QED BY Zenon, <3>1, <3>2
  <2>3. CASE e \in new /\ d \in lsm[k]
    BY Zenon, <1>4, <2>3
  <2>4. CASE e \in lsm[m] /\ d \in new
    BY Zenon, <1>4, <2>4
  <2> QED BY Zenon, <1>5, <2>1, <2>2, <2>3, <2>4
<1>9. EntriesOK'
  BY Zenon, <1>7, <1>8 DEF EntriesOK
<1>10. \A e : e \in Entries' <=> \E m \in Level : e \in lsm'[m]
  BY Zenon DEF Entries
<1>11. Entries' = Entries \cup new
  <2>1. \A e \in Entries' : e \in Entries \cup new
    BY Zenon, <1>5, <1>10, InEntries
  <2>2. \A e \in Entries : e \in Entries'
    BY Zenon, <1>3, <1>10, InEntries
  <2>3. \A e \in new : e \in Entries'
    BY Zenon, <1>1, <1>3, <1>10
  <2> QED BY Zenon, <2>1, <2>2, <2>3
<1>12. Entries \cap new = {}
  BY Zenon, <1>4, InEntries
<1> QED BY Zenon, <1>2, <1>9, <1>11, <1>12

\* A step that leaves files, their meta data and the notices alone.
LEMMA QuietKeeps ==
  ASSUME IInv, UNCHANGED files, UNCHANGED meta, UNCHANGED next_file, UNCHANGED notices,
         UNCHANGED assert_ok, EntriesOK', lsm' \in [Level -> SUBSET Entry],
         IsFiniteSet(Entries'), flushes' \in 0..MaxFlush,
         \A f \in Made : Records(Entries', f) = Records(Entries, f)
  PROVE  IInv'
<1>1. Made' = Made
  BY Zenon DEF Made
<1>2. TypesOK'
  BY Zenon, <1>1 DEF IInv, TypesOK
<1>3. NoticesOK'
  <2>1. \A n : NoticeOK(n)' <=> NoticeOK(n)
    BY Zenon, <1>1 DEF NoticeOK
  <2> QED BY Zenon, <2>1 DEF IInv, NoticesOK
<1>4. \A f : Left(f)' = Left(f)
  BY Zenon DEF Left
<1>5. StatesOK'
  BY Zenon, <1>1, <1>4 DEF IInv, StatesOK
<1>6. CountsOK'
  <2> SUFFICES ASSUME NEW f \in Made' PROVE Accounted(notices', f, Left(f)', Records(Entries', f))
    BY Zenon DEF CountsOK
  <2>1. Accounted(notices, f, Left(f), Records(Entries, f))
    BY Zenon, <1>1 DEF IInv, CountsOK
  <2> QED BY Zenon, <1>1, <1>4, <2>1
<1> QED BY Zenon, <1>2, <1>3, <1>5, <1>6 DEF IInv

\* The entries a flush writes.
LEMMA FlushEntryFacts ==
  ASSUME NEW K, NEW v, NEW f
  PROVE  \A e \in FlushEntries(K, v, f) :
           /\ e.key \in K /\ e.version = v /\ e.file = f
           /\ e = [key |-> e.key, version |-> v, file |-> f]
<1> TAKE e \in FlushEntries(K, v, f)
<1>1. PICK k \in K : e = [key |-> k, version |-> v, file |-> f]
  BY Zenon DEF FlushEntries
<1> QED BY <1>1

\* Flush keeps the invariant.
LEMMA FlushKeeps ==
  ASSUME IInv, NEW S \in SUBSET Key, NEW T \in SUBSET Key, Flush(S, T)
  PROVE  IInv'
<1>1. PICK v : v = flushes + 1
  OBVIOUS
<1>2. PICK nf : nf = next_file
  OBVIOUS
<1>3. PICK es : es = FlushEntries(S, v, nf)
  OBVIOUS
<1>4. PICK small : small = FlushEntries(T, v, 0)
  OBVIOUS
<1>5. PICK new : new = es \cup small
  BY Zenon
<1>6. /\ flushes < MaxFlush /\ S \cap T = {} /\ FinishBlobFile(es, 0)
      /\ lsm' = [lsm EXCEPT ![0] = @ \cup es \cup small]
      /\ notices' = IF S = {} THEN notices
                    ELSE Append(notices, [kind |-> "flush", file |-> nf, size |-> Cardinality(S)])
      /\ flushes' = flushes + 1 /\ UNCHANGED assert_ok
  BY <1>1, <1>2, <1>3, <1>4 DEF Flush, FlushEntries
<1>7. TypesOK /\ IsFiniteSet(Entries) /\ lsm \in [Level -> SUBSET Entry]
      /\ nf \in 1..MaxFile + 1 /\ flushes \in 0..MaxFlush
  BY Zenon, <1>2 DEF IInv, TypesOK
<1>8. lsm' = [lsm EXCEPT ![0] = @ \cup new]
  <2>1. 0 \in Level
    BY LevelMergeAssumption DEF Level
  <2> QED BY Zenon, <1>5, <1>6, <1>7, <2>1
<1>9. v \in 1..MaxFlush /\ flushes' \in 0..MaxFlush /\ v = flushes'
  BY <1>1, <1>6, <1>7, LevelMergeAssumption
<1>10. IsFiniteSet(S) /\ IsFiniteSet(T)
  <2>1. IsFiniteSet(Key)
    BY FS_Interval, LevelMergeAssumption DEF Key
  <2> QED BY Zenon, <2>1, FS_Subset
<1>11. /\ IsFiniteSet(es) /\ Cardinality(es) = Cardinality(S)
       /\ IsFiniteSet(small)
  BY Zenon, <1>3, <1>4, <1>10, FlushCount
<1>12. IsFiniteSet(new)
  BY Zenon, <1>5, <1>11, FS_Union
<1>13. /\ \A e \in es : /\ e.key \in S /\ e.version = v /\ e.file = nf
                        /\ e = [key |-> e.key, version |-> v, file |-> nf]
       /\ \A e \in small : /\ e.key \in T /\ e.version = v /\ e.file = 0
                           /\ e = [key |-> e.key, version |-> v, file |-> 0]
  <2>1. \A e \in FlushEntries(S, v, nf) :
           /\ e.key \in S /\ e.version = v /\ e.file = nf
           /\ e = [key |-> e.key, version |-> v, file |-> nf]
    BY FlushEntryFacts
  <2>2. \A e \in FlushEntries(T, v, 0) :
           /\ e.key \in T /\ e.version = v /\ e.file = 0
           /\ e = [key |-> e.key, version |-> v, file |-> 0]
    BY FlushEntryFacts
  <2> QED BY Zenon, <1>3, <1>4, <2>1, <2>2
<1>14. es = {} <=> S = {}
  BY Zenon, <1>3 DEF FlushEntries
<1>15. /\ es = {} => UNCHANGED <<files, meta, next_file>>
       /\ es # {} => nf \in File /\ next_file' = nf + 1
       /\ next_file' \in 1..MaxFile + 1 /\ next_file <= next_file'
  BY Zenon, <1>2, <1>6, FinishFacts
<1>16. new \subseteq Entry
  <2>1. \A e \in es : e \in Entry
    <3> TAKE e \in es
    <3>1. nf \in File /\ e.key \in Key /\ e = [key |-> e.key, version |-> v, file |-> nf]
      BY Zenon, <1>13, <1>15
    <3> QED BY <1>9, <3>1, LevelMergeAssumption DEF Entry, File
  <2>2. \A e \in small : e \in Entry
    <3> TAKE e \in small
    <3>1. e.key \in Key /\ e = [key |-> e.key, version |-> v, file |-> 0]
      BY Zenon, <1>13
    <3> QED BY <1>9, <3>1, LevelMergeAssumption DEF Entry
  <2> QED BY Zenon, <1>5, <2>1, <2>2
<1>17. \A e \in new : e.version = flushes + 1 /\ e.file < next_file'
  <2>1. \A e \in es : e.version = flushes + 1 /\ e.file < next_file'
    BY <1>1, <1>7, <1>13, <1>15
  <2>2. \A e \in small : e.version = flushes + 1 /\ e.file < next_file'
    BY <1>1, <1>13, <1>15, LevelMergeAssumption
  <2> QED BY Zenon, <1>5, <2>1, <2>2
<1>18. \A e, d \in new : e.key = d.key => e = d
  <2>1. \A e, d \in es : e.key = d.key => e = d
    BY Zenon, <1>13
  <2>2. \A e, d \in small : e.key = d.key => e = d
    BY Zenon, <1>13
  <2>3. \A e \in es, d \in small : e.key # d.key
    BY Zenon, <1>6, <1>13
  <2> QED BY Zenon, <1>5, <2>1, <2>2, <2>3
<1>19. /\ EntriesOK' /\ lsm' \in [Level -> SUBSET Entry]
       /\ Entries' = Entries \cup new /\ Entries \cap new = {}
  BY Zenon, <1>6, <1>8, <1>15, <1>16, <1>17, <1>18, FlushKeepsEntries
<1>20. IsFiniteSet(Entries')
  BY Zenon, <1>7, <1>12, <1>19, FS_Union
<1>21. \A f : Records(Entries', f) = Records(Entries, f) + Records(new, f)
  BY <1>7, <1>12, <1>19, RecordsSplit
<1>22. \A f \in Made : Records(Entries', f) = Records(Entries, f) /\ Records(Entries, f) \in Nat
  <2> TAKE f \in Made
  <2>1. f # 0 /\ f # nf
    BY <1>2, <1>7, LevelMergeAssumption DEF Made
  <2>2. \A e \in new : e.file # f
    BY Zenon, <1>5, <1>13, <2>1
  <2>3. Records(new, f) = 0 /\ Records(Entries, f) \in Nat
    BY Zenon, <1>7, <1>12, <2>2, RecordsNat
  <2> QED BY <1>21, <2>3
<1>23. CASE S = {}
  <2>1. es = {} /\ UNCHANGED files /\ UNCHANGED meta /\ UNCHANGED next_file /\ UNCHANGED notices
    BY Zenon, <1>6, <1>14, <1>15, <1>23
  <2> QED BY Zenon, <1>6, <1>9, <1>19, <1>20, <1>22, <2>1, QuietKeeps
<1>24. CASE S # {}
  <2>1. PICK n : n = [kind |-> "flush", file |-> nf, size |-> Cardinality(S)]
    BY Zenon
  <2>2. es # {} /\ notices' = Append(notices, n)
    BY Zenon, <1>6, <1>14, <1>24, <2>1
  <2>3. nf \in File /\ Cardinality(S) \in Nat
    BY Zenon, <1>10, <1>15, <2>2, FS_CardinalityType
  <2>4. n \in AnyNotice
    BY <2>1, <2>3 DEF AnyNotice, FlushNotice
  <2>5. n.kind = "flush" /\ n.file = nf /\ n.size = Cardinality(S) /\ n.kind # "compaction"
    BY <2>1
  <2>6. NoticeFor(n, es)
    BY Zenon, <1>2, <1>11, <2>2, <2>5 DEF NoticeFor
  <2>7. \A f \in Made : Records(Entries, f) = Records(Entries', f) + Loss(n, f)
    <3> TAKE f \in Made
    <3>1. Loss(n, f) = 0
      BY Zenon, <2>5 DEF Loss
    <3> QED BY <1>22, <3>1
  <2>8. Records(Entries', nf) = Cardinality(es)
    <3>1. \A e \in Entries : e.file # nf
      <4> TAKE e \in Entries
      <4>1. PICK m \in Level : e \in lsm[m]
        BY Zenon, InEntries
      <4>2. e \in Entry /\ e.file < next_file
        BY Zenon, <1>7, <4>1 DEF IInv, EntriesOK
      <4> QED BY <1>2, <1>7, <4>2, LevelMergeAssumption DEF Entry
    <3>2. Records(Entries, nf) = 0
      BY Zenon, <1>7, <3>1, RecordsNat
    <3>3. {e \in new : e.file = nf} = es
      <4>1. nf # 0
        BY <1>7, LevelMergeAssumption
      <4> QED BY Zenon, <1>5, <1>13, <4>1
    <3>4. Records(new, nf) = Cardinality(es)
      BY Zenon, <3>3 DEF Records
    <3>5. Records(new, nf) \in Nat /\ Records(Entries', nf) = Records(Entries, nf) + Records(new, nf)
      BY Zenon, <1>12, <1>21, RecordsNat
    <3> QED BY <3>2, <3>4, <3>5
  <2> QED BY Zenon, <1>2, <1>6, <1>9, <1>11, <1>19, <1>20, <2>2, <2>4, <2>6, <2>7, <2>8, JobKeeps
<1> QED BY Zenon, <1>23, <1>24

\* PurgeObsoleteFile keeps the invariant.
LEMMA PurgeKeeps ==
  ASSUME IInv, NEW f \in File, PurgeObsoleteFile(f)
  PROVE  IInv'
<1>1. /\ meta[f].state = "kObsolete" /\ files' = files \ {f}
      /\ UNCHANGED lsm /\ UNCHANGED flushes /\ UNCHANGED meta /\ UNCHANGED next_file
      /\ UNCHANGED notices /\ UNCHANGED assert_ok
  BY Zenon DEF PurgeObsoleteFile
<1>2. Made' = Made /\ Entries' = Entries /\ (\A g : Left(g)' = Left(g))
  BY Zenon, <1>1 DEF Made, Entries, Left
<1>3. TypesOK'
  BY Zenon, <1>1, <1>2 DEF IInv, TypesOK
<1>4. EntriesOK'
  <2>1. EntriesOK
    BY Zenon DEF IInv
  <2> QED BY <1>1, <2>1 DEF EntriesOK
<1>5. NoticesOK'
  <2>1. \A n : NoticeOK(n)' <=> NoticeOK(n)
    BY Zenon, <1>1, <1>2 DEF NoticeOK
  <2> QED BY Zenon, <1>1, <2>1 DEF IInv, NoticesOK
<1>6. StatesOK'
  <2>1. StatesOK
    BY Zenon DEF IInv
  <2>2. \A g \in Made : g \in files' \/ meta'[g].state = "kObsolete"
    BY Zenon, <1>1, <2>1 DEF StatesOK
  <2> QED BY Zenon, <1>1, <1>2, <2>1, <2>2 DEF StatesOK
<1>7. CountsOK'
  <2> SUFFICES ASSUME NEW g \in Made' PROVE Accounted(notices', g, Left(g)', Records(Entries', g))
    BY Zenon DEF CountsOK
  <2>1. Accounted(notices, g, Left(g), Records(Entries, g))
    BY Zenon, <1>2 DEF IInv, CountsOK
  <2> QED BY Zenon, <1>1, <1>2, <2>1
<1> QED BY Zenon, <1>1, <1>3, <1>4, <1>5, <1>6, <1>7 DEF IInv

-----------------------------------------------------------------------------
(* The listeners                                                           *)

\* The listener that is called is that of the first job.
LEMMA FirstDue ==
  ASSUME InOrder, IInv, NEW i \in DOMAIN notices, Due(i)
  PROVE  i = 1 /\ notices # <<>> /\ 1 \in 1..Len(notices) /\ notices[1] \in AnyNotice
<1>1. notices \in Seq(AnyNotice)
  BY Zenon DEF IInv, TypesOK
<1>2. i \in 1..Len(notices) /\ Len(notices) \in Nat
  BY <1>1
<1>3. \A j \in 1..i - 1 : FALSE
  BY Zenon DEF Due, InOrder
<1>4. i = 1
  BY <1>2, <1>3
<1>5. notices # <<>>
  BY <1>1, <1>2
<1> QED BY Zenon, <1>1, <1>4, <1>5, HandledFirst

\* A file of the first notice is pending only if that notice is the one of the
\* job that built it; and no later notice is.
LEMMA FirstNotice ==
  ASSUME IInv, notices # <<>>, NEW f \in Made
  PROVE  /\ Creates(notices[1], f) => /\ meta[f].state = "kPendingLSM"
                                      /\ Names(notices[1], f)
                                      /\ \A i \in 1..Len(notices) : Creates(notices[i], f) => i = 1
         /\ meta[f].state = "kPendingLSM" /\ Names(notices[1], f) => Creates(notices[1], f)
<1>1. notices \in Seq(AnyNotice) /\ NoticesOK /\ StatesOK
  BY Zenon DEF IInv, TypesOK
<1>2. 1 \in 1..Len(notices) /\ Len(notices) \in Nat /\ notices[1] \in AnyNotice
  BY Zenon, <1>1, HandledFirst
<1>3. f \in File
  BY LevelMergeAssumption DEF IInv, TypesOK, Made, File
<1>4. Creates(notices[1], f) => Names(notices[1], f)
  <2>1. NoticeOK(notices[1])
    BY Zenon, <1>1, <1>2 DEF NoticesOK
  <2>2. notices[1].kind = "flush" <=> notices[1].kind # "compaction"
    BY Zenon, <1>2, NoticeKinds
  <2> QED BY Zenon, <2>1, <2>2 DEF NoticeOK, Creates, Names
<1>5. \A i \in 1..Len(notices) : Creates(notices[i], f) /\ Names(notices[1], f) => i = 1
  <2> TAKE i \in 1..Len(notices)
  <2> HAVE Creates(notices[i], f) /\ Names(notices[1], f)
  <2>1. i <= 1
    BY Zenon, <1>1, <1>2, <1>3 DEF NoticesOK
  <2> QED BY <1>2, <2>1
<1>6. meta[f].state = "kPendingLSM" <=> \E i \in 1..Len(notices) : Creates(notices[i], f)
  BY Zenon, <1>1 DEF StatesOK
<1> QED BY Zenon, <1>2, <1>4, <1>5, <1>6

\* What a listener is to do to the state of a file.
StateAfter(n, f, s) ==
  /\ s \in {"kPendingLSM", "kNormal", "kToMerge", "kToGC", "kObsolete"}
  /\ s = "kObsolete" <=> Left(f) - Loss(n, f) = 0
  /\ f \in files \/ s = "kObsolete"
  /\ s = "kPendingLSM" <=> meta[f].state = "kPendingLSM" /\ ~Creates(n, f)

\* What a listener is to do to the meta data of the files.
MetaAfter(n) ==
  /\ meta' = [f \in File |-> meta'[f]]
  /\ \A f \in File : IsMeta(meta'[f])
  /\ \A f \in File \ Made : meta'[f] = NoMeta
  /\ \A f \in Made : /\ meta'[f].size = meta[f].size
                     /\ meta'[f].discardable = meta[f].discardable + Loss(n, f)
                     /\ StateAfter(n, f, meta'[f].state)

\* What a file has left when the listener has counted.
LEMMA LeftAfter ==
  ASSUME IInv, notices # <<>>, NEW f \in Made
  PROVE  /\ meta[f].size \in Nat /\ meta[f].discardable \in Nat /\ Left(f) \in Nat
         /\ Loss(notices[1], f) \in Nat /\ Left(f) - Loss(notices[1], f) \in Nat
         /\ Accounted(Handled(1), f, Left(f) - Loss(notices[1], f), Records(Entries, f))
<1>1. notices \in Seq(AnyNotice) /\ StatesOK /\ CountsOK
  BY Zenon DEF IInv, TypesOK
<1>2. Loss(notices[1], f) \in Nat
  BY Zenon, <1>1, HandledFirst, NoticeKinds
<1>3. Accounted(notices, f, Left(f), Records(Entries, f))
  BY Zenon, <1>1 DEF CountsOK
<1>4. meta[f].size \in Nat /\ meta[f].discardable \in Nat
  BY Zenon, <1>1 DEF StatesOK
<1> QED BY Zenon, <1>1, <1>2, <1>3, <1>4, AccountedHandled

\* A listener that does so keeps the invariant.
LEMMA ListenerKeeps ==
  ASSUME IInv, notices # <<>>, NEW n, n = notices[1], notices' = Handled(1),
         UNCHANGED lsm, UNCHANGED flushes, UNCHANGED files, UNCHANGED next_file,
         MetaAfter(n), assert_ok' = TRUE
  PROVE  IInv'
<1>1. notices \in Seq(AnyNotice) /\ NoticesOK /\ StatesOK
  BY Zenon DEF IInv, TypesOK
<1>2. /\ notices' \in Seq(AnyNotice) /\ Len(notices) \in Nat \ {0}
      /\ Len(notices') = Len(notices) - 1
      /\ \A i \in 1..Len(notices') : i + 1 \in 1..Len(notices) /\ notices'[i] = notices[i + 1]
  BY Zenon, <1>1, HandledFirst
<1>3. Made' = Made /\ Entries' = Entries
  BY Zenon DEF Made, Entries
<1>4. TypesOK'
  BY Zenon, <1>2, <1>3 DEF IInv, TypesOK, MetaAfter
<1>5. EntriesOK'
  <2>1. EntriesOK
    BY Zenon DEF IInv
  <2> QED BY <2>1 DEF EntriesOK
<1>6. NoticesOK'
  <2>1. \A m : NoticeOK(m) => NoticeOK(m)'
    BY Zenon, <1>3 DEF NoticeOK, MetaAfter
  <2>2. \A i \in 1..Len(notices') : NoticeOK(notices[i + 1])
    BY Zenon, <1>1, <1>2 DEF NoticesOK
  <2>3. \A i \in 1..Len(notices') : NoticeOK(notices[i])'
    <3> TAKE i \in 1..Len(notices')
    <3>1. PICK m : m = notices'[i]
      OBVIOUS
    <3>2. NoticeOK(m)
      BY Zenon, <1>2, <2>2, <3>1
    <3>3. NoticeOK(m)'
      BY Zenon, <2>1, <3>2
    <3> QED BY Zenon, <3>1, <3>3 DEF NoticeOK
  <2>4. \A i, j \in 1..Len(notices'), f \in File :
          Creates(notices'[j], f) /\ Names(notices'[i], f) => j <= i
    <3> TAKE i, j \in 1..Len(notices'), f \in File
    <3> HAVE Creates(notices'[j], f) /\ Names(notices'[i], f)
    <3>1. Creates(notices[j + 1], f) /\ Names(notices[i + 1], f)
      BY Zenon, <1>2
    <3>2. j + 1 <= i + 1
      BY Zenon, <1>1, <1>2, <3>1 DEF NoticesOK
    <3> QED BY <1>2, <3>2
  <2> QED BY Zenon, <2>3, <2>4 DEF NoticesOK
<1>7. ASSUME NEW f \in Made
      PROVE  /\ Left(f)' = Left(f) - Loss(n, f)
             /\ meta'[f].size \in Nat /\ meta'[f].discardable \in Nat
  <2>1. /\ meta[f].size \in Nat /\ meta[f].discardable \in Nat /\ Loss(n, f) \in Nat
    BY Zenon, LeftAfter
  <2>2. meta'[f].size = meta[f].size /\ meta'[f].discardable = meta[f].discardable + Loss(n, f)
    BY Zenon DEF MetaAfter
  <2> QED BY <2>1, <2>2 DEF Left, kOverhead
<1>8. CountsOK'
  <2> SUFFICES ASSUME NEW f \in Made' PROVE Accounted(notices', f, Left(f)', Records(Entries', f))
    BY Zenon DEF CountsOK
  <2>1. f \in Made
    BY Zenon, <1>3
  <2>2. Accounted(Handled(1), f, Left(f) - Loss(notices[1], f), Records(Entries, f))
    BY Zenon, <2>1, LeftAfter
  <2> QED BY Zenon, <1>3, <1>7, <2>1, <2>2
<1>9. ASSUME NEW f \in Made
      PROVE  /\ meta'[f].state = "kPendingLSM" <=>
                  \E i \in 1..Len(notices') : Creates(notices'[i], f)
             /\ meta'[f].state = "kPendingLSM" => meta'[f].discardable = 0
  <2>1. meta'[f].state = "kPendingLSM" <=> meta[f].state = "kPendingLSM" /\ ~Creates(n, f)
    BY Zenon DEF MetaAfter, StateAfter
  <2>2. /\ Creates(n, f) => \A i \in 1..Len(notices) : Creates(notices[i], f) => i = 1
        /\ meta[f].state = "kPendingLSM" /\ Names(n, f) => Creates(n, f)
    BY Zenon, FirstNotice
  <2>3. /\ meta[f].state = "kPendingLSM" <=> \E i \in 1..Len(notices) : Creates(notices[i], f)
        /\ meta[f].state = "kPendingLSM" => meta[f].discardable = 0
    BY Zenon, <1>1 DEF StatesOK
  <2>4. \A i \in 1..Len(notices) : i = 1 \/ \E j \in 1..Len(notices') : i = j + 1
    <3> TAKE i \in 1..Len(notices)
    <3>1. i # 1 => i - 1 \in 1..Len(notices') /\ i = (i - 1) + 1
      BY <1>2
    <3> QED BY Zenon, <3>1
  <2>5. \A j \in 1..Len(notices') : j + 1 # 1
    BY <1>2
  <2>6. (\E i \in 1..Len(notices') : Creates(notices'[i], f)) <=>
        meta[f].state = "kPendingLSM" /\ ~Creates(n, f)
    BY Zenon, <1>2, <2>2, <2>3, <2>4, <2>5
  <2>7. ~Names(n, f) => Loss(n, f) = 0
    BY DEF Names, Loss
  <2>8. meta'[f].state = "kPendingLSM" => meta'[f].discardable = meta[f].discardable + 0
    BY Zenon, <2>1, <2>2, <2>7 DEF MetaAfter
  <2>9. meta'[f].state = "kPendingLSM" => meta'[f].discardable = 0
    BY <2>1, <2>3, <2>8
  <2> QED BY Zenon, <2>1, <2>6, <2>9
<1>10. StatesOK'
  <2>1. \A f \in Made :
          /\ meta'[f].state \in {"kPendingLSM", "kNormal", "kToMerge", "kToGC", "kObsolete"}
          /\ meta'[f].state = "kObsolete" <=> Left(f) - Loss(n, f) = 0
          /\ f \in files \/ meta'[f].state = "kObsolete"
    BY Zenon DEF MetaAfter, StateAfter
  <2> QED BY Zenon, <1>3, <1>7, <1>9, <2>1 DEF StatesOK
<1> QED BY Zenon, <1>4, <1>5, <1>6, <1>8, <1>10 DEF IInv

\* AddDiscardableSize writes one field.
LEMMA DiscardableUpdate ==
  ASSUME NEW m, IsMeta(m), NEW d
  PROVE  /\ IsMeta(AddDiscardableSize(m, d))
         /\ AddDiscardableSize(m, d).size = m.size
         /\ AddDiscardableSize(m, d).discardable = m.discardable + d
         /\ AddDiscardableSize(m, d).state = m.state
<1>1. PICK a, b, c, g, h, k : m = [size |-> a, level |-> b, discardable |-> c,
                                   state |-> g, smallest |-> h, largest |-> k]
  BY Zenon DEF IsMeta
<1>2. AddDiscardableSize(m, d) = [size |-> a, level |-> b, discardable |-> c + d,
                                  state |-> g, smallest |-> h, largest |-> k]
  BY <1>1 DEF AddDiscardableSize
<1> QED BY <1>1, <1>2 DEF IsMeta

\* The meta data with another state.
WithState(m, s) == [m EXCEPT !.state = s]

\* FileStateTransit writes one field.
LEMMA StateUpdate ==
  ASSUME NEW m, IsMeta(m), NEW s
  PROVE  /\ IsMeta(WithState(m, s))
         /\ WithState(m, s).size = m.size
         /\ WithState(m, s).discardable = m.discardable
         /\ WithState(m, s).state = s
         /\ s = m.state => WithState(m, s) = m
<1>1. PICK a, b, c, g, h, k : m = [size |-> a, level |-> b, discardable |-> c,
                                   state |-> g, smallest |-> h, largest |-> k]
  BY Zenon DEF IsMeta
<1>2. WithState(m, s) = [size |-> a, level |-> b, discardable |-> c,
                         state |-> s, smallest |-> h, largest |-> k]
  BY <1>1 DEF WithState
<1> QED BY <1>1, <1>2 DEF IsMeta

\* OnFlushCompleted keeps the invariant.
LEMMA FlushListenerKeeps ==
  ASSUME InOrder, IInv, NEW i \in DOMAIN notices, OnFlushCompleted(i)
  PROVE  IInv'
<1>1. Due(i)
  BY Zenon DEF OnFlushCompleted
<1>2. i = 1 /\ notices # <<>> /\ 1 \in 1..Len(notices) /\ notices[1] \in AnyNotice
  BY Zenon, <1>1, FirstDue
<1>3. PICK n : n = notices[1]
  OBVIOUS
<1> DEFINE F == n.file
           D == FlushDiscardable(meta[F], n.size)
           M == AddDiscardableSize(meta[F], D)
           S == FileStateTransit(M.state, "kFlushCompleted")
<1>4. /\ n.kind = "flush" /\ notices' = Handled(1)
      /\ F \in files => /\ meta' = [meta EXCEPT ![F] = WithState(M, S)]
                        /\ assert_ok' = /\ DiscardableAssert(meta[F], D)
                                        /\ M.discardable = 0
                                        /\ S # kAssertFailed
      /\ UNCHANGED lsm /\ UNCHANGED flushes /\ UNCHANGED files /\ UNCHANGED next_file
  BY Zenon, <1>2, <1>3 DEF OnFlushCompleted, WithState
<1>5. PICK f : f = F
  OBVIOUS
<1>6. TypesOK /\ NoticesOK /\ StatesOK /\ Made \subseteq File
  <2>1. Made \subseteq File
    BY LevelMergeAssumption DEF IInv, TypesOK, Made, File
  <2> QED BY Zenon, <2>1 DEF IInv
<1>7. f \in Made /\ f \in File /\ n.size = meta[f].size - kOverhead /\ Creates(n, f)
  <2>1. NoticeOK(n)
    BY Zenon, <1>2, <1>3, <1>6 DEF NoticesOK
  <2> QED BY Zenon, <1>4, <1>5, <1>6, <2>1 DEF NoticeOK, Creates
<1>8. meta[f].state = "kPendingLSM"
  BY Zenon, <1>2, <1>3, <1>7, FirstNotice
<1>9. /\ meta[f].size \in Nat /\ meta[f].discardable = 0 /\ f \in files /\ Left(f) # 0
  BY <1>6, <1>7, <1>8 DEF StatesOK
<1>10. Left(f) \in Nat
  BY Zenon, <1>2, <1>7, LeftAfter
<1>11. meta[f].size > 0
  BY <1>9, <1>10 DEF Left, kOverhead
<1>12. D = 0
  BY <1>5, <1>7, <1>9 DEF FlushDiscardable, kOverhead
<1> HIDE DEF D
<1>13. IsMeta(meta[f])
  BY Zenon, <1>6, <1>7 DEF TypesOK
<1>14. M.state = "kPendingLSM" /\ M.discardable = 0
  <2>1. /\ AddDiscardableSize(meta[f], D).state = meta[f].state
        /\ AddDiscardableSize(meta[f], D).discardable = meta[f].discardable + D
    BY Zenon, <1>13, DiscardableUpdate
  <2> QED BY <1>5, <1>8, <1>9, <1>12, <2>1
<1>15. S = "kNormal"
  BY Zenon, <1>14, Transits
<1>16. DiscardableAssert(meta[F], D)
  BY <1>5, <1>9, <1>11, <1>12 DEF DiscardableAssert
<1>17. assert_ok' = TRUE
  <2>1. S # kAssertFailed
    BY <1>15 DEF kAssertFailed
  <2> QED BY Zenon, <1>4, <1>5, <1>9, <1>14, <1>16, <2>1
<1> HIDE DEF S
<1>18. meta' = [meta EXCEPT ![f] = WithState(AddDiscardableSize(meta[f], D), S)]
  BY Zenon, <1>4, <1>5, <1>9
<1>19. meta = [g \in File |-> meta[g]]
  BY Zenon, <1>6 DEF TypesOK
<1>20. /\ meta'[f] = WithState(AddDiscardableSize(meta[f], D), S)
       /\ \A g \in File : g # f => meta'[g] = meta[g]
       /\ meta' = [g \in File |-> meta'[g]]
  BY Zenon, <1>7, <1>18, <1>19
<1>21. /\ IsMeta(meta'[f]) /\ meta'[f].size = meta[f].size
       /\ meta'[f].discardable = meta[f].discardable + D /\ meta'[f].state = "kNormal"
  <2>1. /\ IsMeta(AddDiscardableSize(meta[f], D))
        /\ AddDiscardableSize(meta[f], D).size = meta[f].size
        /\ AddDiscardableSize(meta[f], D).discardable = meta[f].discardable + D
    BY Zenon, <1>13, DiscardableUpdate
  <2>2. PICK m : m = AddDiscardableSize(meta[f], D)
    OBVIOUS
  <2>3. PICK s : s = S
    OBVIOUS
  <2>4. /\ IsMeta(WithState(m, s)) /\ WithState(m, s).size = m.size
        /\ WithState(m, s).discardable = m.discardable /\ WithState(m, s).state = s
    BY Zenon, <2>1, <2>2, StateUpdate
  <2>5. meta'[f] = WithState(m, s)
    BY Zenon, <1>20, <2>2, <2>3
  <2> QED BY Zenon, <1>15, <2>1, <2>2, <2>3, <2>4, <2>5
<1>22. \A g \in Made : Loss(n, g) = 0
  BY <1>4 DEF Loss
<1>23. ASSUME NEW g \in Made
       PROVE  /\ meta'[g].size = meta[g].size
              /\ meta'[g].discardable = meta[g].discardable + Loss(n, g)
              /\ StateAfter(n, g, meta'[g].state)
  <2>1. /\ meta[g].size \in Nat /\ meta[g].discardable \in Nat /\ Left(g) \in Nat
    BY Zenon, <1>2, LeftAfter
  <2>2. Loss(n, g) = 0 /\ Left(g) - Loss(n, g) = Left(g)
        /\ meta[g].discardable + Loss(n, g) = meta[g].discardable
    BY <1>22, <2>1
  <2>3. CASE g = f
    <3>1. meta'[f].discardable = meta[f].discardable + Loss(n, f)
      BY Zenon, <1>12, <1>21, <1>22, <1>7
    <3>2. Left(f) - Loss(n, f) # 0
      BY Zenon, <1>9, <2>2, <2>3
    <3>3. StateAfter(n, f, "kNormal")
      BY <1>7, <1>9, <3>2 DEF StateAfter
    <3> QED BY Zenon, <1>21, <2>3, <3>1, <3>3
  <2>4. CASE g # f
    <3>1. meta'[g] = meta[g] /\ ~Creates(n, g)
      BY Zenon, <1>4, <1>5, <1>6, <1>20, <2>4 DEF Creates
    <3>2. StateAfter(n, g, meta[g].state)
      BY Zenon, <1>6, <2>2, <3>1 DEF StateAfter, StatesOK
    <3> QED BY Zenon, <2>2, <3>1, <3>2
  <2> QED BY Zenon, <2>3, <2>4
<1>24. MetaAfter(n)
  <2>1. \A g \in File : IsMeta(meta'[g])
    BY Zenon, <1>6, <1>20, <1>21 DEF TypesOK
  <2>2. \A g \in File \ Made : meta'[g] = NoMeta
    BY Zenon, <1>6, <1>7, <1>20 DEF TypesOK
  <2> QED BY Zenon, <1>20, <1>23, <2>1, <2>2 DEF MetaAfter
<1> QED BY Zenon, <1>2, <1>3, <1>4, <1>17, <1>24, ListenerKeeps

\* MarkFileIfNeedMerge marks only files it is given.
LEMMA MarkedRuns ==
  ASSUME NEW fs, NEW marked \in MarkChoices(fs)
  PROVE  marked \subseteq fs
  BY Zenon DEF MarkChoices

\* How OnCompactionCompleted arrives at the state of a file: what happens to the
\* file, its state before the marks, and after.
Decided(n, f, done, lost, empty, gc, state, marked, final) ==
  /\ done = IF f \in n.outputs
            THEN FileStateTransit(meta[f].state, "kCompactionCompleted")
            ELSE meta[f].state
  /\ {lost, empty, gc, marked} \subseteq BOOLEAN
  /\ lost <=> f \in DOMAIN n.diff /\ n.diff[f] < 0 /\ f \in files
  /\ empty <=> lost /\ Left(f) - Loss(n, f) = 0
  /\ gc => lost /\ ~empty
  /\ empty => state = FileStateTransit(done, "kDelete")
  /\ ~empty /\ gc => state = FileStateTransit(done, "kNeedGC")
  /\ ~empty /\ ~gc => state = done
  /\ marked => f \in DOMAIN n.diff /\ ~empty
  /\ final = IF marked THEN FileStateTransit(state, "kNeedMerge") ELSE state

\* The state OnCompactionCompleted gives to a file.
LEMMA CompactionStates ==
  ASSUME IInv, notices # <<>>, NEW n, n = notices[1], n.kind = "compaction", NEW f \in Made,
         NEW done, NEW lost, NEW empty, NEW gc, NEW state, NEW marked, NEW final,
         Decided(n, f, done, lost, empty, gc, state, marked, final)
  PROVE  StateAfter(n, f, final) /\ state # kAssertFailed
<1>0. /\ done = IF f \in n.outputs
                THEN FileStateTransit(meta[f].state, "kCompactionCompleted")
                ELSE meta[f].state
      /\ {lost, empty, gc, marked} \subseteq BOOLEAN
      /\ lost <=> f \in DOMAIN n.diff /\ n.diff[f] < 0 /\ f \in files
      /\ empty <=> lost /\ Left(f) - Loss(n, f) = 0
      /\ gc => lost /\ ~empty
      /\ empty => state = FileStateTransit(done, "kDelete")
      /\ ~empty /\ gc => state = FileStateTransit(done, "kNeedGC")
      /\ ~empty /\ ~gc => state = done
      /\ marked => f \in DOMAIN n.diff /\ ~empty
      /\ final = IF marked THEN FileStateTransit(state, "kNeedMerge") ELSE state
  BY Zenon DEF Decided
<1> USE <1>0
<1>1. /\ meta[f].state \in {"kPendingLSM", "kNormal", "kToMerge", "kToGC", "kObsolete"}
      /\ meta[f].state = "kObsolete" <=> Left(f) = 0
      /\ f \in files \/ meta[f].state = "kObsolete"
  BY Zenon DEF IInv, StatesOK
<1>2. Left(f) \in Nat /\ Loss(n, f) \in Nat /\ Left(f) - Loss(n, f) \in Nat
  BY Zenon, LeftAfter
<1>3. n \in AnyNotice /\ NoticeOK(n)
  <2>1. notices \in Seq(AnyNotice) /\ NoticesOK
    BY Zenon DEF IInv, TypesOK
  <2>2. 1 \in 1..Len(notices) /\ notices[1] \in AnyNotice
    BY Zenon, <2>1, HandledFirst
  <2> QED BY Zenon, <2>1, <2>2 DEF NoticesOK
<1>4. /\ f \in n.outputs => f \in DOMAIN n.diff /\ n.diff[f] >= 0
      /\ n.diff \in [DOMAIN n.diff -> Int]
  BY Zenon, <1>3, NoticeKinds DEF NoticeOK
<1>5. Creates(n, f) <=> f \in n.outputs
  BY DEF Creates
<1>6. /\ f \in n.outputs => meta[f].state = "kPendingLSM"
      /\ meta[f].state = "kPendingLSM" /\ f \in DOMAIN n.diff => f \in n.outputs
  <2>1. Names(n, f) <=> f \in DOMAIN n.diff
    BY DEF Names
  <2> QED BY Zenon, <1>5, <2>1, FirstNotice
<1>7. lost => f \notin n.outputs /\ Loss(n, f) > 0
  BY <1>4 DEF Loss
<1>8. ~lost => Loss(n, f) = 0
  <2>1. CASE f \in files
    BY <2>1, <1>4 DEF Loss
  <2>2. CASE f \notin files
    BY <1>1, <1>2, <2>2
  <2> QED BY Zenon, <2>1, <2>2
<1>9. CASE f \in n.outputs
  <2>1. /\ meta[f].state = "kPendingLSM" /\ ~lost /\ ~empty /\ ~gc /\ f \in files
    BY Zenon, <1>1, <1>6, <1>7, <1>9
  <2>2. state = "kNormal" /\ final \in {"kNormal", "kToMerge"}
    BY Zenon, <1>9, <2>1, Transits
  <2>3. Left(f) - Loss(n, f) # 0
    BY <1>1, <1>2, <1>8, <2>1
  <2>4. Creates(n, f)
    BY Zenon, <1>5, <1>9
  <2>5. final # "kObsolete" /\ final # "kPendingLSM"
    BY <2>2
  <2>6. final \in {"kPendingLSM", "kNormal", "kToMerge", "kToGC", "kObsolete"}
    BY <2>2
  <2> QED BY Zenon, <2>1, <2>2, <2>3, <2>4, <2>5, <2>6 DEF StateAfter, kAssertFailed
<1>10. CASE f \notin n.outputs /\ lost
  <2>1. Left(f) # 0 /\ f \in files /\ f \in DOMAIN n.diff
    BY <1>2, <1>7, <1>10
  <2>2. meta[f].state \in {"kNormal", "kToMerge", "kToGC"} /\ done = meta[f].state
    BY Zenon, <1>1, <1>6, <1>10, <2>1
  <2>3. ~Creates(n, f) /\ meta[f].state # "kPendingLSM"
    BY <1>5, <1>10, <2>2
  <2>4. CASE empty
    <3>1. state = "kObsolete" /\ final = "kObsolete" /\ Left(f) - Loss(n, f) = 0
      BY Zenon, <2>2, <2>4, Transits
    <3> QED BY <2>3, <3>1 DEF StateAfter, kAssertFailed
  <2>5. CASE ~empty
    <3>1. state \in {"kNormal", "kToMerge", "kToGC"} /\ Left(f) - Loss(n, f) # 0
      <4>1. CASE gc
        <5>1. state = "kToGC"
          BY Zenon, <2>2, <2>5, <4>1, Transits
        <5> QED BY Zenon, <1>10, <2>5, <5>1
      <4>2. CASE ~gc
        BY Zenon, <1>10, <2>2, <2>5, <4>2
      <4> QED BY Zenon, <4>1, <4>2
    <3>2. final \in {"kNormal", "kToMerge", "kToGC"}
      BY Zenon, <3>1, Transits
    <3> QED BY <2>1, <2>3, <3>1, <3>2 DEF StateAfter, kAssertFailed
  <2> QED BY Zenon, <2>4, <2>5
<1>11. CASE f \notin n.outputs /\ ~lost
  <2>1. state = meta[f].state /\ ~Creates(n, f)
    BY Zenon, <1>5, <1>11
  <2>2. Left(f) - Loss(n, f) = Left(f)
    BY <1>2, <1>8, <1>11
  <2>3. CASE marked
    <3>1. state \in {"kNormal", "kToMerge", "kToGC", "kObsolete"}
      BY Zenon, <1>1, <1>6, <1>11, <2>1, <2>3
    <3>2. /\ state \in {"kNormal", "kToMerge"} => final = "kToMerge"
          /\ state \in {"kToGC", "kObsolete"} => final = state
      BY Zenon, <2>3, Transits
    <3>3. /\ final \in {"kNormal", "kToMerge", "kToGC", "kObsolete"}
          /\ final = "kObsolete" <=> state = "kObsolete"
      BY <3>1, <3>2
    <3> QED BY <1>1, <2>1, <2>2, <3>1, <3>3 DEF StateAfter, kAssertFailed
  <2>4. CASE ~marked
    <3>1. final = meta[f].state
      BY Zenon, <2>1, <2>4
    <3> QED BY <1>1, <2>1, <2>2, <3>1 DEF StateAfter, kAssertFailed
  <2> QED BY Zenon, <2>3, <2>4
<1> QED BY Zenon, <1>9, <1>10, <1>11

\* OnCompactionCompleted keeps the invariant.
LEMMA CompactionListenerKeeps ==
  ASSUME InOrder, IInv, NEW i \in DOMAIN notices, OnCompactionCompleted(i)
  PROVE  IInv'
<1>1. Due(i)
  BY Zenon DEF OnCompactionCompleted
<1>2. i = 1 /\ notices # <<>> /\ 1 \in 1..Len(notices) /\ notices[1] \in AnyNotice
  BY Zenon, <1>1, FirstDue
<1> DEFINE n     == notices[1]
           Lost  == {f \in DOMAIN n.diff : n.diff[f] < 0 /\ f \in files}
           Done  == [f \in File |-> IF f \in n.outputs
                       THEN FileStateTransit(meta[f].state, "kCompactionCompleted")
                       ELSE meta[f].state]
           Less  == [f \in File |-> IF f \in Lost
                       THEN AddDiscardableSize(meta[f], -n.diff[f]) ELSE meta[f]]
           Empty == {f \in Lost : NoLiveData(Less[f])}
           ToGC  == {f \in Lost \ Empty : 100 * Less[f].discardable > Ratio * Less[f].size}
           State == [f \in File |->
                       CASE f \in Empty -> FileStateTransit(Done[f], "kDelete")
                         [] f \in ToGC  -> FileStateTransit(Done[f], "kNeedGC")
                         [] OTHER       -> Done[f]]
           Runs  == {f \in (DOMAIN n.diff \cap files) \ Empty :
                       n.level >= NumLevels - 2 /\ meta[f].level >= NumLevels - 2}
           Final(marked) == [f \in File |-> WithState(Less[f],
                       IF f \in marked THEN FileStateTransit(State[f], "kNeedMerge")
                                       ELSE State[f])]
<1>3. n = notices[1]
  OBVIOUS
<1>4. /\ n.kind = "compaction" /\ notices' = Handled(1)
      /\ UNCHANGED lsm /\ UNCHANGED flushes /\ UNCHANGED files /\ UNCHANGED next_file
      /\ n.outputs \subseteq files =>
           \E marked \in MarkChoices(Runs) :
             /\ meta' = Final(marked)
             /\ assert_ok' = /\ \A f \in File : State[f] # kAssertFailed
                             /\ \A f \in Lost : DiscardableAssert(meta[f], -n.diff[f])
  <2>1. OnCompactionCompleted(1)
    BY Zenon, <1>2
  <2> QED BY Zenon, <2>1 DEF OnCompactionCompleted, WithState
<1> HIDE DEF n
<1>5. TypesOK /\ NoticesOK /\ StatesOK /\ Made \subseteq File
  <2>1. Made \subseteq File
    BY LevelMergeAssumption DEF IInv, TypesOK, Made, File
  <2> QED BY Zenon, <2>1 DEF IInv
<1>6. /\ DOMAIN n.diff \subseteq Made /\ n.outputs \subseteq DOMAIN n.diff
      /\ n.diff \in [DOMAIN n.diff -> Int]
  <2>1. NoticeOK(n)
    BY Zenon, <1>2, <1>3, <1>5 DEF NoticesOK
  <2> QED BY Zenon, <1>2, <1>3, <1>4, <2>1, NoticeKinds DEF NoticeOK
<1>7. n.outputs \subseteq files
  <2> SUFFICES ASSUME NEW f \in n.outputs PROVE f \in files
    BY Zenon
  <2>1. f \in Made /\ Creates(n, f)
    BY Zenon, <1>4, <1>6 DEF Creates
  <2>2. meta[f].state = "kPendingLSM"
    BY Zenon, <1>2, <1>3, <2>1, FirstNotice
  <2>3. f \in files \/ meta[f].state = "kObsolete"
    BY Zenon, <1>5, <2>1 DEF StatesOK
  <2> QED BY <2>2, <2>3
<1>8. PICK marked \in MarkChoices(Runs) :
        /\ meta' = Final(marked)
        /\ assert_ok' = /\ \A f \in File : State[f] # kAssertFailed
                        /\ \A f \in Lost : DiscardableAssert(meta[f], -n.diff[f])
  BY Zenon, <1>4, <1>7
<1>9. marked \subseteq DOMAIN n.diff /\ marked \cap Empty = {}
  <2>1. marked \subseteq Runs
    BY Zenon, MarkedRuns
  <2>2. \A f \in Runs : f \in DOMAIN n.diff /\ f \notin Empty
    BY Zenon
  <2> HIDE DEF Runs, Empty
  <2> QED BY Zenon, <2>1, <2>2
<1>10. \A f \in File :
         /\ Done[f] = IF f \in n.outputs
                      THEN FileStateTransit(meta[f].state, "kCompactionCompleted")
                      ELSE meta[f].state
         /\ Less[f] = IF f \in Lost THEN AddDiscardableSize(meta[f], -n.diff[f]) ELSE meta[f]
  BY Zenon
<1> HIDE DEF Done, Less
<1>11. Empty \subseteq Lost /\ ToGC \subseteq Lost \ Empty
       /\ \A f \in Lost : f \in Empty <=> NoLiveData(Less[f])
  BY Zenon
<1> HIDE DEF Empty, ToGC
<1>12. \A f \in File :
         /\ f \in Empty => State[f] = FileStateTransit(Done[f], "kDelete")
         /\ f \notin Empty /\ f \in ToGC => State[f] = FileStateTransit(Done[f], "kNeedGC")
         /\ f \notin Empty /\ f \notin ToGC => State[f] = Done[f]
  BY Zenon, <1>11
<1> HIDE DEF State
<1>13. meta' = [f \in File |-> meta'[f]]
       /\ \A f \in File : meta'[f] = WithState(Less[f],
            IF f \in marked THEN FileStateTransit(State[f], "kNeedMerge") ELSE State[f])
  BY Zenon, <1>8
<1>14. \A f : f \in Lost <=> f \in DOMAIN n.diff /\ n.diff[f] < 0 /\ f \in files
  BY Zenon
<1> HIDE DEF Lost, Runs, Final
<1>15. \A f \in File : IsMeta(meta[f])
  BY Zenon, <1>5 DEF TypesOK
<1>16. ASSUME NEW f \in Made
       PROVE  /\ f \in Lost => Loss(n, f) = -n.diff[f]
              /\ f \notin Lost => Loss(n, f) = 0
  <2>1. CASE f \in files
    BY <1>4, <1>6, <1>14, <2>1 DEF Loss
  <2>2. CASE f \notin files
    <3>1. Left(f) = 0
      BY Zenon, <1>5, <2>2 DEF StatesOK
    <3>2. Loss(n, f) \in Nat /\ Left(f) - Loss(n, f) \in Nat
      BY Zenon, <1>2, <1>3, LeftAfter
    <3> QED BY <1>14, <2>2, <3>1, <3>2
  <2> QED BY Zenon, <2>1, <2>2
<1>17. ASSUME NEW f \in Made
       PROVE  /\ IsMeta(Less[f]) /\ Less[f].size = meta[f].size
              /\ Less[f].discardable = meta[f].discardable + Loss(n, f)
  <2>1. f \in File /\ IsMeta(meta[f]) /\ meta[f].discardable \in Nat
    BY Zenon, <1>2, <1>5, <1>15, LeftAfter
  <2>2. CASE f \in Lost
    <3>1. PICK d : d = -n.diff[f]
      OBVIOUS
    <3>2. Less[f] = AddDiscardableSize(meta[f], d) /\ d = Loss(n, f)
      BY Zenon, <1>10, <1>16, <2>1, <2>2, <3>1
    <3>3. /\ IsMeta(AddDiscardableSize(meta[f], d))
          /\ AddDiscardableSize(meta[f], d).size = meta[f].size
          /\ AddDiscardableSize(meta[f], d).discardable = meta[f].discardable + d
      BY Zenon, <2>1, DiscardableUpdate
    <3> QED BY Zenon, <3>2, <3>3
  <2>3. CASE f \notin Lost
    <3>1. Less[f] = meta[f] /\ Loss(n, f) = 0
      BY Zenon, <1>10, <1>16, <2>1, <2>3
    <3> QED BY <2>1, <3>1
  <2> QED BY Zenon, <2>2, <2>3
<1>18. ASSUME NEW f \in Made
       PROVE  /\ IsMeta(meta'[f]) /\ meta'[f].size = meta[f].size
              /\ meta'[f].discardable = meta[f].discardable + Loss(n, f)
              /\ StateAfter(n, f, meta'[f].state) /\ State[f] # kAssertFailed
  <2>1. f \in File
    BY Zenon, <1>5
  <2>2. PICK m : m = Less[f]
    OBVIOUS
  <2>3. PICK s : s = State[f]
    OBVIOUS
  <2>4. PICK done : done = Done[f]
    OBVIOUS
  <2>5. PICK r : r = IF f \in marked THEN FileStateTransit(s, "kNeedMerge") ELSE s
    OBVIOUS
  <2>6. PICK lost \in BOOLEAN : lost <=> f \in Lost
    BY Zenon
  <2>7. PICK empty \in BOOLEAN : empty <=> f \in Empty
    BY Zenon
  <2>8. PICK gc \in BOOLEAN : gc <=> f \in ToGC
    BY Zenon
  <2>9. PICK mk \in BOOLEAN : mk <=> f \in marked
    BY Zenon
  <2>10. meta'[f] = WithState(m, r)
    BY Zenon, <1>13, <2>1, <2>2, <2>3, <2>5
  <2>11. IsMeta(m) /\ m.size = meta[f].size /\ m.discardable = meta[f].discardable + Loss(n, f)
    BY Zenon, <1>17, <2>2
  <2>12. /\ IsMeta(WithState(m, r)) /\ WithState(m, r).size = m.size
         /\ WithState(m, r).discardable = m.discardable /\ WithState(m, r).state = r
    BY Zenon, <2>11, StateUpdate
  <2>13. NoLiveData(m) <=> Left(f) - Loss(n, f) = 0
    <3>1. meta[f].size \in Nat /\ meta[f].discardable \in Nat /\ Loss(n, f) \in Nat
      BY Zenon, <1>2, <1>3, LeftAfter
    <3> QED BY <2>11, <3>1 DEF NoLiveData, Left, kOverhead
  <2>14. Decided(n, f, done, lost, empty, gc, s, mk, r)
    <3>1. done = IF f \in n.outputs
                 THEN FileStateTransit(meta[f].state, "kCompactionCompleted")
                 ELSE meta[f].state
      BY Zenon, <1>10, <2>1, <2>4
    <3>2. {lost, empty, gc, mk} \subseteq BOOLEAN
      BY Zenon
    <3>3. lost <=> f \in DOMAIN n.diff /\ n.diff[f] < 0 /\ f \in files
      BY Zenon, <1>14, <2>6
    <3>4. empty <=> lost /\ Left(f) - Loss(n, f) = 0
      BY Zenon, <1>11, <2>2, <2>6, <2>7, <2>13
    <3>5. gc => lost /\ ~empty
      BY Zenon, <1>11, <2>6, <2>7, <2>8
    <3>6. /\ empty => s = FileStateTransit(done, "kDelete")
          /\ ~empty /\ gc => s = FileStateTransit(done, "kNeedGC")
          /\ ~empty /\ ~gc => s = done
      BY Zenon, <1>12, <2>1, <2>3, <2>4, <2>7, <2>8
    <3>7. mk => f \in DOMAIN n.diff /\ ~empty
      BY Zenon, <1>9, <2>7, <2>9
    <3>8. r = IF mk THEN FileStateTransit(s, "kNeedMerge") ELSE s
      BY Zenon, <2>5, <2>9
    <3> QED BY Zenon, <3>1, <3>2, <3>3, <3>4, <3>5, <3>6, <3>7, <3>8 DEF Decided
  <2>15. StateAfter(n, f, r) /\ s # kAssertFailed
    BY Zenon, <1>2, <1>3, <1>4, <2>14, CompactionStates
  <2> QED BY Zenon, <2>3, <2>10, <2>11, <2>12, <2>15
<1>19. ASSUME NEW f \in File \ Made
       PROVE  meta'[f] = NoMeta /\ State[f] # kAssertFailed
  <2>1. /\ f \notin DOMAIN n.diff /\ f \notin n.outputs /\ f \notin Lost /\ f \notin marked
        /\ f \notin Empty /\ f \notin ToGC
    BY Zenon, <1>6, <1>9, <1>11, <1>14
  <2>2. meta[f] = NoMeta /\ IsMeta(meta[f])
    BY Zenon, <1>5, <1>15 DEF TypesOK
  <2>3. Less[f] = meta[f] /\ State[f] = meta[f].state
    BY Zenon, <1>10, <1>12, <2>1
  <2>4. PICK m : m = meta[f]
    OBVIOUS
  <2>5. meta'[f] = WithState(m, m.state)
    BY Zenon, <1>13, <2>1, <2>3, <2>4
  <2>6. WithState(m, m.state) = m
    BY Zenon, <2>2, <2>4, StateUpdate
  <2>7. NoMeta.state # kAssertFailed
    BY DEF NoMeta, kAssertFailed
  <2> QED BY Zenon, <2>2, <2>3, <2>4, <2>5, <2>6, <2>7
<1>20. assert_ok' = TRUE
  <2>1. \A f \in File : State[f] # kAssertFailed
    BY Zenon, <1>18, <1>19
  <2>2. \A f \in Lost : DiscardableAssert(meta[f], -n.diff[f])
    <3> TAKE f \in Lost
    <3>1. f \in Made /\ Loss(n, f) = -n.diff[f]
      BY Zenon, <1>6, <1>14, <1>16
    <3>2. /\ meta[f].size \in Nat /\ meta[f].discardable \in Nat
          /\ Loss(n, f) \in Nat /\ Left(f) - Loss(n, f) \in Nat
      BY Zenon, <1>2, <1>3, <3>1, LeftAfter
    <3>3. DiscardableAssert(meta[f], Loss(n, f))
      BY <3>2 DEF DiscardableAssert, Left, kOverhead
    <3> QED BY Zenon, <3>1, <3>3
  <2> QED BY Zenon, <1>8, <2>1, <2>2
<1>21. MetaAfter(n)
  <2>1. \A f \in File : IsMeta(meta'[f])
    <3> TAKE f \in File
    <3>1. CASE f \in Made
      BY Zenon, <1>18, <3>1
    <3>2. CASE f \notin Made
      BY Zenon, <1>5, <1>15, <1>19, <3>2 DEF TypesOK
    <3> QED BY Zenon, <3>1, <3>2
  <2> QED BY Zenon, <1>13, <1>18, <1>19, <2>1 DEF MetaAfter
<1> QED BY Zenon, <1>2, <1>3, <1>4, <1>20, <1>21, ListenerKeeps

-----------------------------------------------------------------------------
(* The theorems                                                            *)

\* The invariant holds at first.
LEMMA InitIInv == Init => IInv
<1> SUFFICES ASSUME Init PROVE IInv
  BY Zenon
<1>1. /\ lsm = [l \in Level |-> {}] /\ flushes = 0 /\ files = {}
      /\ meta = [f \in File |-> NoMeta] /\ next_file = 1 /\ notices = <<>> /\ assert_ok = TRUE
  BY Zenon DEF Init
<1>2. \A l \in Level : lsm[l] = {}
  BY Zenon, <1>1
<1>3. Entries = {}
  BY Zenon, <1>2 DEF Entries
<1>4. Made = {}
  BY <1>1 DEF Made
<1>5. TypesOK
  <2>1. IsFiniteSet(Entries)
    BY Zenon, <1>3, FS_EmptySet
  <2>2. lsm \in [Level -> SUBSET Entry] /\ notices \in Seq(AnyNotice)
    BY <1>1
  <2>3. flushes \in 0..MaxFlush /\ next_file \in 1..MaxFile + 1
    BY <1>1, LevelMergeAssumption
  <2>4. meta = [f \in File |-> meta[f]] /\ \A f \in File : meta[f] = NoMeta
    BY Zenon, <1>1
  <2>5. IsMeta(NoMeta)
    BY DEF IsMeta, NoMeta
  <2>6. files \subseteq Made
    BY Zenon, <1>1
  <2> QED BY Zenon, <2>1, <2>2, <2>3, <2>4, <2>5, <2>6 DEF TypesOK
<1>6. EntriesOK
  BY Zenon, <1>2 DEF EntriesOK
<1>7. NoticesOK
  BY <1>1 DEF NoticesOK
<1>8. StatesOK /\ CountsOK
  BY Zenon, <1>4 DEF StatesOK, CountsOK
<1> QED BY Zenon, <1>1, <1>5, <1>6, <1>7, <1>8 DEF IInv

\* Every job and every listener keeps the invariant.
LEMMA NextKeeps ==
  ASSUME InOrder, IInv, [Next]_vars
  PROVE  IInv'
<1>1. CASE \E S, T \in SUBSET Key : Flush(S, T)
  BY Zenon, <1>1, FlushKeeps
<1>2. CASE \E l \in Level, low \in BOOLEAN : Compact(l, low)
  BY Zenon, <1>2, CompactKeeps
<1>3. CASE \E l \in Level : TrivialMove(l)
  BY Zenon, <1>3, TrivialMoveKeeps
<1>4. CASE \E i \in DOMAIN notices : OnFlushCompleted(i)
  BY Zenon, <1>4, FlushListenerKeeps
<1>5. CASE \E i \in DOMAIN notices : OnCompactionCompleted(i)
  BY Zenon, <1>5, CompactionListenerKeeps
<1>6. CASE \E f \in File : PurgeObsoleteFile(f)
  BY Zenon, <1>6, PurgeKeeps
<1>7. CASE UNCHANGED vars
  <2>1. /\ UNCHANGED lsm /\ UNCHANGED flushes /\ UNCHANGED files /\ UNCHANGED meta
        /\ UNCHANGED next_file /\ UNCHANGED notices /\ UNCHANGED assert_ok
    BY Zenon, <1>7 DEF vars
  <2>2. Entries' = Entries /\ TypesOK /\ EntriesOK
    BY Zenon, <2>1 DEF Entries, IInv
  <2>3. EntriesOK'
    BY <2>1, <2>2 DEF EntriesOK
  <2>4. /\ lsm' \in [Level -> SUBSET Entry] /\ IsFiniteSet(Entries')
        /\ flushes' \in 0..MaxFlush
        /\ \A f \in Made : Records(Entries', f) = Records(Entries, f)
    BY Zenon, <2>1, <2>2 DEF TypesOK
  <2> QED BY Zenon, <2>1, <2>3, <2>4, QuietKeeps
<1> QED BY Zenon, <1>1, <1>2, <1>3, <1>4, <1>5, <1>6, <1>7 DEF Next

\* As long as no listener is overtaken, what the meta data say of a blob file is
\* what SSTs name of it and what the listeners that are due will count as lost
\* (OnFlushCompleted, OnCompactionCompleted, AddDiscardableSize).
THEOREM Invariance ==
  ASSUME InOrder
  PROVE  Spec => []IInv
<1>1. Init => IInv
  BY InitIInv
<1>2. IInv /\ [Next]_vars => IInv'
  BY NextKeeps
<1> QED BY <1>1, <1>2, PTL DEF Spec

\* The invariant and the records of a file.
LEMMA RecordsLeft ==
  ASSUME IInv, NEW f \in Made
  PROVE  /\ f \in Named(Entries) <=> Records(Entries, f) # 0
         /\ Left(f) \in Nat /\ Records(Entries, f) \in Nat /\ Records(Entries, f) <= Left(f)
         /\ notices = <<>> => Left(f) = Records(Entries, f)
<1>1. IsFiniteSet(Entries) /\ notices \in Seq(AnyNotice) /\ next_file \in 1..MaxFile + 1
  BY Zenon DEF IInv, TypesOK
<1>2. f # 0
  BY <1>1, LevelMergeAssumption DEF Made
<1>3. f \in Named(Entries) <=> \E e \in Entries : e.file = f
  BY Zenon, <1>2, NamedFiles
<1>4. Records(Entries, f) = 0 <=> \A e \in Entries : e.file # f
  BY Zenon, <1>1, RecordsNat
<1>5. Accounted(notices, f, Left(f), Records(Entries, f))
  BY Zenon DEF IInv, CountsOK
<1> QED BY Zenon, <1>1, <1>3, <1>4, <1>5, AccountedBound

\* OnCompactionCompleted deletes a blob file only when no SST names it any more,
\* whatever the jobs did whose listeners are still to be called.
THEOREM ReferencedFilesKept ==
  ASSUME InOrder
  PROVE  Spec => []ReferencedFilesLive
<1>1. IInv => ReferencedFilesLive
  <2> SUFFICES ASSUME IInv, NEW f \in Named(Entries)
               PROVE  f \in files /\ meta[f].state # "kObsolete"
    BY Zenon DEF ReferencedFilesLive
  <2>1. f # 0 /\ \E e \in Entries : e.file = f
    BY Zenon, NamedFiles
  <2>2. PICK l \in Level : \E e \in lsm[l] : e.file = f
    BY Zenon, <2>1, InEntries
  <2>3. PICK e \in lsm[l] : e.file = f
    BY Zenon, <2>2
  <2>4. e \in Entry /\ e.file < next_file /\ next_file \in 1..MaxFile + 1
    BY Zenon DEF IInv, TypesOK, EntriesOK
  <2>5. f \in Made
    BY <2>1, <2>3, <2>4, LevelMergeAssumption DEF Made, Entry
  <2>6. Left(f) \in Nat /\ Records(Entries, f) \in Nat
        /\ Records(Entries, f) # 0 /\ Records(Entries, f) <= Left(f)
    BY Zenon, <2>5, RecordsLeft
  <2>7. Left(f) # 0
    BY <2>6
  <2> QED BY Zenon, <2>5, <2>7 DEF IInv, StatesOK
<1> QED BY Invariance, <1>1, PTL

\* Once the listeners have been called, a blob file that no SST names is
\* obsolete: level merge leaves nothing behind for a GC job to find.
THEOREM LeftoversDeleted ==
  ASSUME InOrder
  PROVE  Spec => []UnreferencedFilesDeleted
<1>1. IInv => UnreferencedFilesDeleted
  <2> SUFFICES ASSUME IInv, notices = <<>>, NEW f \in files, f \notin Named(Entries)
               PROVE  meta[f].state = "kObsolete"
    BY Zenon DEF UnreferencedFilesDeleted
  <2>1. f \in Made
    BY Zenon DEF IInv, TypesOK
  <2>2. Left(f) = 0
    BY Zenon, <2>1, RecordsLeft
  <2> QED BY Zenon, <2>1, <2>2 DEF IInv, StatesOK
<1> QED BY Invariance, <1>1, PTL

\* No assertion of the listeners, of AddDiscardableSize or of FileStateTransit
\* fails as long as no listener is overtaken.
THEOREM AssertionsHold ==
  ASSUME InOrder
  PROVE  Spec => []AssertsHold
<1>1. IInv => AssertsHold
  BY DEF IInv, AssertsHold
<1> QED BY Invariance, <1>1, PTL

\* The counts of AddDiscardableSize stay within the file.
THEOREM TypeCorrect ==
  ASSUME InOrder
  PROVE  Spec => []TypeOK
<1>1. IInv => TypeOK
  <2> SUFFICES ASSUME IInv PROVE TypeOK
    BY Zenon
  <2>1. /\ TypesOK /\ files \subseteq Made
    BY Zenon DEF IInv, TypesOK
  <2>2. ASSUME NEW f \in files
        PROVE  /\ meta[f].state \in FileState \cup {kAssertFailed}
               /\ meta[f].discardable \in 0..meta[f].size - kOverhead
    <3>1. f \in Made /\ Left(f) \in Nat
      BY Zenon, <2>1, RecordsLeft
    <3>2. /\ meta[f].size \in Nat /\ meta[f].discardable \in Nat
          /\ meta[f].state \in {"kPendingLSM", "kNormal", "kToMerge", "kToGC", "kObsolete"}
      BY Zenon, <3>1 DEF IInv, StatesOK
    <3>3. meta[f].discardable \in 0..meta[f].size - kOverhead
      BY <3>1, <3>2 DEF Left, kOverhead
    <3> QED BY <3>2, <3>3 DEF FileState
  <2>3. assert_ok \in BOOLEAN
    BY Zenon DEF IInv
  <2> QED BY Zenon, <2>1, <2>2, <2>3 DEF TypeOK, TypesOK, Made
<1> QED BY Invariance, <1>1, PTL

=============================================================================
