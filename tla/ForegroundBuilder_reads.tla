----------------------- MODULE ForegroundBuilder_reads ----------------------
(***************************************************************************)
(* Proofs about ForegroundBuilder, continued: without GC and restarts, what *)
(* was written stays readable.                                             *)
(***************************************************************************)
EXTENDS ForegroundBuilder_proofs, WellFoundedInduction

\* Unsorted files are not collected.
NoGCOption == "gc" \notin Options

\* The record is in a file that BlobStorage knows.
Kept(rec, f) == f # 0 => f \in File \cap (files \cup building) /\ rec \in contents[f]

\* What a Put was answered, and the index it became, stay readable.
ReadableInv ==
  /\ gc = NoGC /\ obsolete = [f \in File |-> 0]
  /\ \A w \in Writer : Kept(writer[w].rec, writer[w].file)
  /\ \A i \in 1..Len(lsm) : Kept(lsm[i].rec, lsm[i].file)

\* A set of positions has a last one: what Newest chooses exists.
LEMMA LastPosition ==
  ASSUME NEW n \in Nat, NEW S \in SUBSET (1..n), S # {}
  PROVE  \E i \in S : \A j \in S : j <= i
<1> DEFINE T == {n - i : i \in S}
           R == OpToRel(<, Nat)
<1>1. T \subseteq Nat
  BY SMT
<1>2. T # {}
  <2>1. PICK i \in S : TRUE
    BY Zenon
  <2>2. n - i \in T
    BY <2>1
  <2> QED BY <2>2
<1>3. PICK x \in T : \A y \in T : ~(<<y, x>> \in R)
  <2> HIDE DEF T, R
  <2>1. IsWellFoundedOn(R, Nat)
    BY NatLessThanWellFounded, Zenon DEF R
  <2> QED BY <2>1, <1>1, <1>2, WFMin, Zenon
<1>4. \A y \in T : ~(y < x)
  BY <1>1, <1>3, Zenon DEF OpToRel
<1>5. PICK i \in S : x = n - i
  OBVIOUS
<1>6. \A j \in S : j <= i
  <2> TAKE j \in S
  <2>1. n - j \in T
    OBVIOUS
  <2>2. ~(n - j < n - i)
    BY <2>1, <1>4, <1>5
  <2> QED BY <2>2, SMT
<1> QED BY <1>6

\* Newest gives a position of the key, or 0 (BlobStorage::Get reads at the
\* newest index).
LEMMA NewestPosition ==
  ASSUME NEW k, NEW n \in Nat, Newest(k, n) # 0
  PROVE  Newest(k, n) \in 1..n
<1> DEFINE at == {i \in 1..n : lsm[i].rec.key = k}
<1>1. at # {}
  BY DEF Newest
<1>2. at \in SUBSET (1..n)
  OBVIOUS
<1>3. \E i \in at : \A j \in at : j <= i
  <2> HIDE DEF at
  <2> QED BY <1>1, <1>2, LastPosition, Zenon
<1>4. Newest(k, n) = CHOOSE i \in at : \A j \in at : j <= i
  BY <1>1 DEF Newest
<1>5. Newest(k, n) \in at
  <2> HIDE DEF at
  <2> QED BY <1>3, <1>4
<1> QED BY <1>5

\* A record stays readable when files stay known and their contents grow.
LEMMA KeptStays ==
  ASSUME NEW rec, NEW f, Kept(rec, f), f < next_file,
         files \cup building \subseteq files' \cup building',
         \A g \in File : g < next_file => contents[g] \subseteq contents'[g]
  PROVE  Kept(rec, f)'
  BY DEF Kept

\* A Put that has its answer, and the index it writes, name a record in a file
\* that is being built or is in the manifest.
LEMMA ReadableKeeps ==
  ASSUME NoRestart, NoGCOption, IInv, ReadableInv, [Next]_vars
  PROVE  ReadableInv'
<1>1. /\ gc = NoGC /\ obsolete = [f \in File |-> 0]
      /\ \A w \in Writer : Kept(writer[w].rec, writer[w].file)
      /\ \A i \in 1..Len(lsm) : Kept(lsm[i].rec, lsm[i].file)
  BY DEF ReadableInv
<1>2. /\ writer \in [Writer -> [pc : {"idle", "sent", "answered"}, rec : Record, file : Nat]]
      /\ next_file \in Nat \ {0} /\ handle \in [Builder -> 0..MaxFile]
      /\ contents \in [File -> SUBSET Record]
      /\ \A w \in Writer : writer[w].file < next_file
      /\ \A i \in 1..Len(lsm) : lsm[i].file < next_file
      /\ \A b \in Builder : handle[b] < next_file
  BY DEF IInv, BuilderTypes, NumbersOK
<1>3. ASSUME UNCHANGED <<gc, obsolete, writer, lsm>>,
             files \cup building \subseteq files' \cup building',
             \A g \in File : g < next_file => contents[g] \subseteq contents'[g]
      PROVE  ReadableInv'
  <2>1. \A w \in Writer : Kept(writer[w].rec, writer[w].file)'
    BY <1>1, <1>2, <1>3, KeptStays
  <2>2. \A i \in 1..Len(lsm) : Kept(lsm[i].rec, lsm[i].file)'
    BY <1>1, <1>2, <1>3, KeptStays
  <2> QED BY <2>1, <2>2, <1>1, <1>3 DEF ReadableInv
<1>4. ASSUME UNCHANGED <<gc, obsolete, writer, lsm, files, building, contents>>
      PROVE  ReadableInv'
  BY <1>3, <1>4
<1>5. CASE UNCHANGED vars
  BY <1>4, <1>5 DEF vars, gcVars, lsmVars, storageVars
<1>6. ASSUME NEW w \in Writer, NEW k \in Key, Put(w, k)
      PROVE  ReadableInv'
  <2>1. UNCHANGED <<gc, obsolete, lsm, files, building, contents>>
    BY <1>6 DEF Put, gcVars, lsmVars, storageVars
  <2>2. \A v \in Writer : writer'[v] = writer[v] \/ writer'[v].file = 0
    BY <1>2, <1>6 DEF Put
  <2> QED BY <2>1, <2>2, <1>1 DEF ReadableInv, Kept
<1>7. ASSUME NEW w \in Writer, Write(w)
      PROVE  ReadableInv'
  <2>1. UNCHANGED <<gc, obsolete, files, building, contents>>
    BY <1>7 DEF Write, gcVars, storageVars
  <2>2. \A v \in Writer : writer'[v] = writer[v] \/ writer'[v].file = 0
    BY <1>2, <1>7, Zenon DEF Write, NoPut
  <2> DEFINE e == Entry(writer[w].rec, writer[w].file)
             E == [rec : Record, file : Nat]
  <2>3. e \in E /\ e.rec = writer[w].rec /\ e.file = writer[w].file
    BY <1>2, Zenon DEF Entry
  <2>4. lsm' = Append(lsm, e) /\ lsm \in Seq(E)
    BY <1>7 DEF Write, IInv, BuilderTypes
  <2> HIDE DEF e, E
  <2>5. \A i \in 1..Len(lsm') : lsm'[i] = e \/ (i \in 1..Len(lsm) /\ lsm'[i] = lsm[i])
    BY <2>3, <2>4, AppendOne
  <2>6. \A i \in 1..Len(lsm') : Kept(lsm'[i].rec, lsm'[i].file)
    BY <2>3, <2>5, <1>1
  <2>7. \A v \in Writer : Kept(writer'[v].rec, writer'[v].file)
    BY <2>2, <1>1 DEF Kept
  <2> QED BY <2>1, <2>6, <2>7, <1>1, Zenon DEF ReadableInv, Kept
<1>8. ASSUME NEW b \in Builder, HandleAdd(b)
      PROVE  ReadableInv'
  <2> DEFINE w == Head(bulk[b])
             rec == writer[w].rec
             f == IF handle[b] = 0 THEN next_file ELSE handle[b]
  <2>1. w \in Writer
    <3>1. bulk[b] \in Seq(Request) /\ bulk[b] # <<>> /\ w # Flush
      BY <1>8 DEF IInv, BuilderTypes, HandleAdd
    <3> QED BY <3>1, TailOne DEF Request
  <2>2. UNCHANGED <<gc, obsolete, lsm, files>>
    BY <1>8 DEF HandleAdd, gcVars, lsmVars
  <2> HIDE DEF w, rec
  <2>3. CASE /\ handle[b] = 0 => next_file <= MaxFile
             /\ building' = building \cup {f}
             /\ contents' = [contents EXCEPT ![f] = IF handle[b] = 0 THEN {rec} ELSE @ \cup {rec}]
             /\ writer' = [writer EXCEPT ![w].pc = "answered", ![w].file = f]
    <3>1. f \in File
      BY <1>2, <2>3, BuilderAssumption DEF File
    <3>2. \A g \in File : g < next_file => contents[g] \subseteq contents'[g]
      BY <1>2, <2>3
    <3>3. rec \in contents'[f]
      BY <1>2, <2>3, <3>1
    <3> HIDE DEF f
    <3>4. writer'[w].rec = rec /\ writer'[w].file = f /\ \A v \in Writer \ {w} : writer'[v] = writer[v]
      BY <1>2, <2>1, <2>3 DEF rec
    <3>5. ASSUME NEW v \in Writer, v = w
          PROVE  Kept(writer[v].rec, writer[v].file)'
      <4>1. writer'[v].file \in File \cap (files' \cup building')
        BY <3>1, <3>4, <3>5, <2>3
      <4>2. writer'[v].rec \in contents'[writer'[v].file]
        BY <3>3, <3>4, <3>5
      <4> QED BY <4>1, <4>2 DEF Kept
    <3>6. \A v \in Writer \ {w} : Kept(writer[v].rec, writer[v].file)'
      <4> TAKE v \in Writer \ {w}
      <4>1. Kept(writer[v].rec, writer[v].file) /\ writer[v].file < next_file
        BY <1>1, <1>2
      <4> QED BY <4>1, <3>2, <3>4, <2>2, <2>3, Zenon DEF Kept
    <3>7. \A i \in 1..Len(lsm) : Kept(lsm[i].rec, lsm[i].file)'
      <4> TAKE i \in 1..Len(lsm)
      <4>1. Kept(lsm[i].rec, lsm[i].file) /\ lsm[i].file < next_file
        BY <1>1, <1>2
      <4> QED BY <4>1, <3>2, <2>2, <2>3 DEF Kept
    <3>8. \A v \in Writer : Kept(writer[v].rec, writer[v].file)'
      BY <3>5, <3>6
    <3> QED BY <3>7, <3>8, <2>2, <1>1 DEF ReadableInv
  <2>4. CASE /\ writer' = [writer EXCEPT ![w].pc = "answered"]
             /\ UNCHANGED <<building, contents>>
    <3>1. \A v \in Writer : writer'[v].rec = writer[v].rec /\ writer'[v].file = writer[v].file
      BY <1>2, <2>1, <2>4
    <3> QED BY <3>1, <2>2, <2>4, <1>1 DEF ReadableInv, Kept
  <2> QED BY <1>8, <2>3, <2>4 DEF HandleAdd, w, rec
<1>9. ASSUME NEW b \in Builder, HandleFlush(b)
      PROVE  ReadableInv'
  <2>1. UNCHANGED <<gc, obsolete, writer, lsm, contents>>
    BY <1>9 DEF HandleFlush, gcVars, lsmVars
  <2>2. files \cup building \subseteq files' \cup building'
    BY <1>9 DEF HandleFlush, AddBlobFile
  <2> QED BY <2>1, <2>2, <1>3
<1>10. ASSUME NEW b \in Builder, GetBulk(b)
       PROVE  ReadableInv'
  BY <1>4, <1>10 DEF GetBulk, gcVars, lsmVars, storageVars
<1>11. CASE SwitchMemtable \/ OnMemTableSealed \/ FlushMemtable
  BY <1>4, <1>11 DEF SwitchMemtable, OnMemTableSealed, FlushMemtable, gcVars, lsmVars, storageVars
<1>12. ~BackgroundGC
  <2>1. gc.pc = "idle" /\ \A f \in File : obsolete[f] = 0
    BY <1>1, Zenon DEF NoGC
  <2>2. ~RunGC
    BY <2>1 DEF RunGC, DoRunGC, GCLock, GCFinish, InstallOutputBlobFiles, RewriteKey,
                DeleteInputBlobFiles
  <2> QED BY <2>1, <2>2, Zenon DEF BackgroundGC, PickBlobGC, PurgeObsoleteFile, NoGCOption
<1>13. ASSUME NEW r \in Reader, (\E k \in Key : Get(r, k)) \/ FindFile(r) \/ ReadBuildingFile(r)
       PROVE  ReadableInv'
  BY <1>4, <1>13 DEF Get, FindFile, ReadBuildingFile, gcVars, lsmVars, storageVars
<1>14. ~Restart
  BY Zenon DEF Restart, NoRestart
<1> QED
  BY <1>5, <1>6, <1>7, <1>8, <1>9, <1>10, <1>11, <1>12, <1>13, <1>14 DEF Next, handleRequest

\* Without GC and restarts, a read of any key finds the record that its newest
\* index names, whenever it comes: before, while or after the file is added to
\* the manifest.
THEOREM NewestStaysReadable ==
  ASSUME NoRestart, NoGCOption PROVE Spec => []NewestReadable
<1>1. Init => ReadableInv
  BY DEF Init, ReadableInv, Kept, NoPut
<1>2. IInv /\ ReadableInv /\ [Next]_vars => ReadableInv'
  BY ReadableKeeps
<1>3. IInv /\ ReadableInv => NewestReadable
  <2> SUFFICES ASSUME IInv, ReadableInv, NEW k \in Key,
                      Newest(k, Len(lsm)) # 0, lsm[Newest(k, Len(lsm))].file # 0
               PROVE  /\ lsm[Newest(k, Len(lsm))].file \in files \cup building
                      /\ lsm[Newest(k, Len(lsm))].rec \in contents[lsm[Newest(k, Len(lsm))].file]
    BY DEF NewestReadable
  <2>1. Len(lsm) \in Nat
    BY DEF IInv, BuilderTypes
  <2>2. Newest(k, Len(lsm)) \in 1..Len(lsm)
    BY <2>1, NewestPosition
  <2> QED BY <2>2 DEF ReadableInv, Kept
<1> QED BY <1>1, <1>2, <1>3, Invariance, PTL DEF Spec

=============================================================================
