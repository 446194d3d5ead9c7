----------------------- MODULE ForegroundBuilder_proofs ---------------------
(***************************************************************************)
(* Proofs about ForegroundBuilder, for any keys, writers, readers, builders *)
(* and sizes, as long as the process does not restart: Restart may give a  *)
(* number to a second file, and a sealed memtable may then name it.        *)
(***************************************************************************)
EXTENDS ForegroundBuilder, Integers, TLAPS

-----------------------------------------------------------------------------
(* The inductive invariant                                                 *)

Request == Writer \cup {Flush}
Record  == Rec \cup {<<>>}
Job     == [pc : {"idle", "run", "ran", "locked", "install", "rewrite"},
            input : 0..MaxFile, keep : SUBSET Record, output : Nat]

\* The types the proofs need.
BuilderTypes ==
  /\ writer \in [Writer -> [pc : {"idle", "sent", "answered"}, rec : Record, file : Nat]]
  /\ requests \in [Builder -> Seq(Request)] /\ bulk \in [Builder -> Seq(Request)]
  /\ handle \in [Builder -> 0..MaxFile] /\ finished \in [Builder -> SUBSET Nat]
  /\ contents \in [File -> SUBSET Record]
  /\ lsm \in Seq([rec : Record, file : Nat]) /\ sealed \in 0..Len(lsm)
  /\ next_file \in Nat \ {0} /\ puts \in Nat
  /\ seal \in [b : 0..NumBuilders, answered : BOOLEAN]
  /\ gc \in Job
  /\ gc.pc = "run" => gc.input # 0

\* The numbers in use are below next_file_number_: a new file is in no index.
NumbersOK ==
  /\ \A w \in Writer : writer[w].file < next_file
  /\ \A i \in 1..Len(lsm) : lsm[i].file < next_file
  /\ \A b \in Builder : handle[b] < next_file
  /\ gc.output < next_file

\* A building file is in the hands of a builder.
OwnedOK == \A f \in building : \E b \in Builder : f \in ToFinish(b)

\* One flush request at most is on its way, to the builder that
\* OnMemTableSealed waits for.
FlushesOK ==
  \A b \in Builder :
    /\ \A i \in 1..Len(bulk[b]) : bulk[b][i] = Flush => seal.b = b /\ ~seal.answered
    /\ \A i \in 1..Len(requests[b]) : requests[b][i] = Flush => seal.b = b /\ ~seal.answered
    /\ \A i, j \in 1..Len(bulk[b]) : bulk[b][i] = Flush /\ bulk[b][j] = Flush => i = j
    /\ \A i, j \in 1..Len(requests[b]) :
         requests[b][i] = Flush /\ requests[b][j] = Flush => i = j
    /\ \A i \in 1..Len(bulk[b]), j \in 1..Len(requests[b]) :
         ~(bulk[b][i] = Flush /\ requests[b][j] = Flush)

\* A builder that has answered holds no file with an index in the base DB.
AnsweredOK ==
  \A b \in Builder : b < seal.b \/ (b = seal.b /\ seal.answered) =>
    \A i \in 1..Len(lsm) : lsm[i].file \notin ToFinish(b)

\* No builder holds a file with an index in a sealed memtable.
SealedOK ==
  \A b \in Builder : \A i \in 1..sealed : lsm[i].file \notin ToFinish(b)

IInv == BuilderTypes /\ NumbersOK /\ OwnedOK /\ FlushesOK /\ AnsweredOK /\ SealedOK

\* The base DB and Titan stay up.
NoRestart == "restart" \notin Options

\* The initial state satisfies IInv.
LEMMA InitIInv == Init => IInv
<1> SUFFICES ASSUME Init PROVE IInv
  OBVIOUS
<1> USE BuilderAssumption
<1>1. BuilderTypes
  BY DEF Init, BuilderTypes, NoPut, NoGC, NoSeal, Builder, File, Record, Job
<1>2. NumbersOK /\ OwnedOK /\ FlushesOK /\ AnsweredOK /\ SealedOK
  BY DEF Init, NumbersOK, OwnedOK, FlushesOK, AnsweredOK, SealedOK, NoPut, NoGC, NoSeal, Builder
<1> QED BY <1>1, <1>2 DEF IInv

-----------------------------------------------------------------------------
(* Every step preserves IInv                                               *)

\* What Append does to a queue or to the base DB's log of indexes.
LEMMA AppendOne ==
  ASSUME NEW S, NEW q \in Seq(S), NEW r \in S
  PROVE  /\ Append(q, r) \in Seq(S) /\ Len(Append(q, r)) = Len(q) + 1
         /\ \A i \in 1..Len(q) : Append(q, r)[i] = q[i]
         /\ Append(q, r)[Len(q) + 1] = r
  OBVIOUS

\* What taking the head off a batch leaves.
LEMMA TailOne ==
  ASSUME NEW S, NEW q \in Seq(S), q # <<>>
  PROVE  /\ Tail(q) \in Seq(S) /\ Len(Tail(q)) = Len(q) - 1 /\ Len(q) \in Nat \ {0}
         /\ \A i \in 1..Len(Tail(q)) : Tail(q)[i] = q[i + 1]
         /\ Head(q) = q[1] /\ Head(q) \in S
  OBVIOUS

\* File numbers are numbers, wherever they are kept.
LEMMA FileNumbers ==
  ASSUME IInv
  PROVE  /\ gc.output \in Nat /\ \A i \in 1..Len(lsm) : lsm[i].file \in Nat
         /\ \A w \in Writer : writer[w].file \in Nat
         /\ \A b \in Builder : handle[b] \in Nat
<1>1. \A i \in 1..Len(lsm) : lsm[i] \in [rec : Record, file : Nat]
  <2> DEFINE E == [rec : Record, file : Nat]
  <2>1. lsm \in Seq(E)
    BY DEF IInv, BuilderTypes
  <2> HIDE DEF E
  <2>2. \A i \in 1..Len(lsm) : lsm[i] \in E
    BY <2>1
  <2> QED BY <2>2 DEF E
<1>2. \A w \in Writer : writer[w].file \in Nat
  BY DEF IInv, BuilderTypes
<1>3. gc.output \in Nat /\ \A b \in Builder : handle[b] \in Nat
  BY DEF IInv, BuilderTypes, Job
<1> QED BY <1>1, <1>2, <1>3

\* BlockQueue::Put of a writer's request keeps the queues in order.
LEMMA PutKeeps ==
  ASSUME IInv, NEW w \in Writer, NEW k \in Key, Put(w, k)
  PROVE  IInv'
<1> USE BuilderAssumption
<1> DEFINE rec == [key |-> k, id |-> puts + 1]
           h == Hash[k]
<1>1. h \in Builder /\ w \in Request /\ w # Flush /\ puts < MaxPut
  BY DEF Put, Request, Flush
<1>2. rec \in Record
  BY <1>1 DEF IInv, BuilderTypes, Record, Rec
<1> HIDE DEF rec, h
<1>3. PICK p : p \in {"sent", "answered"} /\ writer' = [writer EXCEPT ![w] =
                 [pc |-> p, rec |-> rec, file |-> 0]]
  BY DEF Put, rec
<1>4. /\ writer' \in [Writer -> [pc : {"idle", "sent", "answered"}, rec : Record, file : Nat]]
      /\ \A v \in Writer : writer'[v].file = writer[v].file \/ writer'[v].file = 0
  <2>1. writer \in [Writer -> [pc : {"idle", "sent", "answered"}, rec : Record, file : Nat]]
    BY DEF IInv, BuilderTypes
  <2> QED BY <1>2, <1>3, <2>1
<1>5. \/ requests' = requests
      \/ requests' = [requests EXCEPT ![h] = Append(requests[h], w)]
  BY DEF Put, BlockQueuePut, h
<1>6. /\ requests \in [Builder -> Seq(Request)] /\ requests' \in [Builder -> Seq(Request)]
      /\ puts' \in Nat
  <2>1. requests \in [Builder -> Seq(Request)]
    BY DEF IInv, BuilderTypes
  <2>2. puts' \in Nat
    <3>1. puts \in Nat /\ puts' = puts + 1
      BY Zenon DEF IInv, BuilderTypes, Put
    <3> QED BY <3>1
  <2>3. Append(requests[h], w) \in Seq(Request)
    BY <1>1, <2>1, AppendOne
  <2>4. [requests EXCEPT ![h] = Append(requests[h], w)] \in [Builder -> Seq(Request)]
    BY <2>1, <2>3, Zenon
  <2> QED BY <1>5, <2>1, <2>2, <2>4, Zenon
<1>7. UNCHANGED <<bulk, handle, finished, contents, lsm, sealed, next_file, seal, gc, building>>
  BY DEF Put, storageVars, lsmVars, gcVars
<1>8. BuilderTypes'
  BY <1>4, <1>6, <1>7 DEF IInv, BuilderTypes
<1>9. NumbersOK'
  <2>1. next_file > 0
    BY DEF IInv, BuilderTypes
  <2> QED BY <2>1, <1>4, <1>7 DEF IInv, NumbersOK
<1>10. OwnedOK' /\ AnsweredOK' /\ SealedOK'
  BY <1>7 DEF IInv, OwnedOK, AnsweredOK, SealedOK, ToFinish
<1>11. FlushesOK'
  <2>1. CASE requests' = requests
    BY <2>1, <1>7 DEF IInv, FlushesOK
  <2>2. CASE requests' = [requests EXCEPT ![h] = Append(requests[h], w)]
    <3> SUFFICES ASSUME NEW b \in Builder
                 PROVE  \A i \in 1..Len(requests'[b]) : requests'[b][i] = Flush =>
                          i \in 1..Len(requests[b]) /\ requests[b][i] = Flush
      BY <1>7 DEF IInv, FlushesOK
    <3>1. requests[h] \in Seq(Request)
      BY <1>1, <1>6
    <3>2. CASE b = h
      <4>1. requests'[h] = Append(requests[h], w)
        BY <1>1, <1>6, <2>2
      <4> QED BY <3>1, <3>2, <4>1, <1>1, AppendOne
    <3>3. CASE b # h
      BY <3>3, <2>2, <1>6
    <3> QED BY <3>2, <3>3
  <2> QED BY <2>1, <2>2, <1>5
<1> QED BY <1>8, <1>9, <1>10, <1>11 DEF IInv

\* BlockQueue::GetBulk moves the queue as a whole.
LEMMA GetBulkKeeps ==
  ASSUME IInv, NEW c \in Builder, GetBulk(c)
  PROVE  IInv'
<1> USE BuilderAssumption
<1>1. UNCHANGED <<writer, handle, finished, contents, lsm, sealed, next_file, seal, gc,
                  building, puts>>
  BY DEF GetBulk, storageVars, lsmVars, gcVars
<1>2. BuilderTypes'
  BY <1>1 DEF IInv, BuilderTypes, GetBulk
<1>3. NumbersOK' /\ OwnedOK' /\ AnsweredOK' /\ SealedOK'
  BY <1>1 DEF IInv, NumbersOK, OwnedOK, AnsweredOK, SealedOK, ToFinish
<1>4. FlushesOK'
  <2> SUFFICES ASSUME NEW b \in Builder
               PROVE  \/ bulk'[b] = bulk[b] /\ requests'[b] = requests[b]
                      \/ bulk'[b] = requests[b] /\ requests'[b] = <<>>
    BY <1>1 DEF IInv, FlushesOK
  <2> QED BY DEF IInv, BuilderTypes, GetBulk
<1> QED BY <1>2, <1>3, <1>4 DEF IInv

\* A write of an index, by a Put or by GC, finds no memtable being sealed.
LEMMA WriteKeeps ==
  ASSUME IInv, NEW rec \in Record, NEW f \in Nat, f < next_file, seal = NoSeal,
         lsm' = Append(lsm, Entry(rec, f)),
         writer' \in [Writer -> [pc : {"idle", "sent", "answered"}, rec : Record, file : Nat]],
         \A w \in Writer : writer'[w].file < next_file,
         gc' \in Job,
         gc'.pc = "run" => gc'.input # 0, gc'.output < next_file,
         UNCHANGED <<builderVars, storageVars, sealed, seal, puts>>
  PROVE  IInv'
<1> USE BuilderAssumption
<1>1. UNCHANGED <<requests, bulk, handle, finished, contents, sealed, next_file, seal,
                  building, puts>>
  BY DEF builderVars, storageVars
<1>2. Entry(rec, f) \in [rec : Record, file : Nat] /\ Entry(rec, f).file = f
  BY DEF Entry
<1>3. /\ lsm' \in Seq([rec : Record, file : Nat]) /\ Len(lsm') = Len(lsm) + 1
      /\ \A i \in 1..Len(lsm) : lsm'[i] = lsm[i]
      /\ lsm'[Len(lsm) + 1].file = f
  BY <1>2, AppendOne DEF IInv, BuilderTypes
<1>4. Len(lsm) \in Nat /\ sealed \in 0..Len(lsm) /\ seal.b = 0 /\ seal.answered = FALSE
  BY DEF IInv, BuilderTypes, NoSeal
<1>5. BuilderTypes'
  <2>1. sealed' \in 0..Len(lsm')
    BY <1>1, <1>3, <1>4
  <2>2. /\ requests \in [Builder -> Seq(Request)] /\ bulk \in [Builder -> Seq(Request)]
        /\ handle \in [Builder -> 0..MaxFile] /\ finished \in [Builder -> SUBSET Nat]
        /\ contents \in [File -> SUBSET Record]
        /\ next_file \in Nat \ {0} /\ puts \in Nat
        /\ seal \in [b : 0..NumBuilders, answered : BOOLEAN]
    BY DEF IInv, BuilderTypes
  <2> QED BY <2>1, <2>2, <1>1, <1>3 DEF BuilderTypes
<1>6. NumbersOK'
  BY <1>1, <1>3, <1>4 DEF IInv, NumbersOK
<1>7. OwnedOK' /\ FlushesOK'
  BY <1>1, SMTT(40) DEF IInv, OwnedOK, FlushesOK, ToFinish
<1>8. AnsweredOK'
  BY <1>1, <1>4 DEF AnsweredOK, Builder
<1>9. SealedOK'
  BY <1>1, <1>3, <1>4 DEF IInv, SealedOK, ToFinish
<1> QED BY <1>5, <1>6, <1>7, <1>8, <1>9 DEF IInv

\* The steps of a memtable switch: one flush request at a time, and all
\* builders have answered at its end.
LEMMA SealKeeps ==
  ASSUME IInv, SwitchMemtable \/ OnMemTableSealed
  PROVE  IInv'
<1> USE BuilderAssumption
<1>1. UNCHANGED <<writer, bulk, handle, finished, contents, lsm, next_file, gc, building, puts>>
  BY DEF SwitchMemtable, OnMemTableSealed, storageVars, lsmVars, gcVars
<1>2. NumbersOK' /\ OwnedOK'
  BY <1>1 DEF IInv, NumbersOK, OwnedOK, ToFinish
<1>3. NumBuilders \in Nat /\ seal.b \in 0..NumBuilders /\ Flush \in Request /\ Len(lsm) \in Nat
  BY DEF IInv, BuilderTypes, Request
<1>4. ASSUME NEW c \in Builder, seal' = [b |-> c, answered |-> FALSE], BlockQueuePut(c, Flush),
             sealed' = sealed, c = seal.b + 1, seal = NoSeal \/ seal.answered
      PROVE  BuilderTypes' /\ FlushesOK' /\ AnsweredOK' /\ SealedOK'
  <2>1. requests' \in [Builder -> Seq(Request)]
    BY <1>3, <1>4, AppendOne DEF IInv, BuilderTypes, BlockQueuePut
  <2>2. BuilderTypes'
    <3>1. seal' \in [b : 0..NumBuilders, answered : BOOLEAN]
      BY <1>4 DEF Builder
    <3> QED BY <3>1, <2>1, <1>1, <1>4 DEF IInv, BuilderTypes
  <2>3. \A b \in Builder : /\ \A i \in 1..Len(bulk[b]) : bulk[b][i] # Flush
                           /\ \A i \in 1..Len(requests[b]) : requests[b][i] # Flush
    BY <1>4 DEF IInv, FlushesOK, NoSeal, Builder
  <2>4. \A b \in Builder \ {c} : requests'[b] = requests[b]
    BY <1>4 DEF IInv, BuilderTypes, BlockQueuePut
  <2>5. \A i \in 1..Len(requests'[c]) : requests'[c][i] = Flush => i = Len(requests[c]) + 1
    BY <2>3, <1>3, <1>4, AppendOne DEF IInv, BuilderTypes, BlockQueuePut
  <2>6. FlushesOK'
    BY <2>3, <2>4, <2>5, <1>1, <1>4, SMTT(40) DEF FlushesOK
  <2>7. AnsweredOK'
    BY <1>1, <1>3, <1>4 DEF IInv, AnsweredOK, ToFinish, NoSeal, Builder
  <2>8. SealedOK'
    BY <1>1, <1>4 DEF IInv, SealedOK, ToFinish
  <2> QED BY <2>2, <2>6, <2>7, <2>8
<1>5. ASSUME seal.answered, seal.b = NumBuilders, seal' = NoSeal, sealed' = Len(lsm),
             UNCHANGED requests
      PROVE  BuilderTypes' /\ FlushesOK' /\ AnsweredOK' /\ SealedOK'
  <2>1. BuilderTypes'
    BY <1>1, <1>3, <1>5 DEF IInv, BuilderTypes, NoSeal
  <2>2. FlushesOK'
    BY <1>1, <1>5 DEF IInv, FlushesOK
  <2>3. AnsweredOK'
    BY <1>1, <1>5 DEF AnsweredOK, NoSeal, Builder
  <2>4. SealedOK'
    BY <1>1, <1>5 DEF IInv, AnsweredOK, SealedOK, ToFinish, Builder
  <2> QED BY <2>1, <2>2, <2>3, <2>4
<1>6. CASE SwitchMemtable
  <2>1. 1 \in Builder /\ 1 = seal.b + 1
    BY <1>6 DEF SwitchMemtable, NoSeal, Builder
  <2> QED BY <2>1, <1>2, <1>4, <1>6 DEF SwitchMemtable, IInv, lsmVars
<1>7. CASE OnMemTableSealed /\ seal.b < NumBuilders
  <2>1. seal.b + 1 \in Builder
    BY <1>3, <1>7 DEF Builder
  <2> QED BY <2>1, <1>2, <1>3, <1>4, <1>7 DEF OnMemTableSealed, IInv
<1>8. CASE OnMemTableSealed /\ seal.b = NumBuilders
  BY <1>2, <1>3, <1>5, <1>8 DEF OnMemTableSealed, IInv
<1> QED BY <1>6, <1>7, <1>8 DEF OnMemTableSealed

\* handleRequest appends the record to the file at hand or to a new one, whose
\* number no index has.
LEMMA AddKeeps ==
  ASSUME IInv, NEW c \in Builder, HandleAdd(c)
  PROVE  IInv'
<1> USE BuilderAssumption
<1> DEFINE w == Head(bulk[c])
           rec == writer[w].rec
           f == IF handle[c] = 0 THEN next_file ELSE handle[c]
           Put1 == [pc : {"idle", "sent", "answered"}, rec : Record, file : Nat]
<1>1. /\ bulk[c] \in Seq(Request) /\ bulk[c] # <<>> /\ w # Flush
      /\ bulk \in [Builder -> Seq(Request)] /\ bulk' = [bulk EXCEPT ![c] = Tail(bulk[c])]
  BY DEF IInv, BuilderTypes, HandleAdd
<1>2. w \in Writer
  BY <1>1, TailOne DEF Request
<1>3. writer \in [Writer -> Put1] /\ rec \in Record /\ writer[w].file < next_file
  BY <1>2 DEF IInv, BuilderTypes, NumbersOK
<1>4. UNCHANGED <<requests, lsm, sealed, seal, gc, puts>>
  BY DEF HandleAdd, lsmVars, gcVars
<1>5. /\ next_file \in Nat \ {0} /\ handle \in [Builder -> 0..MaxFile]
      /\ finished \in [Builder -> SUBSET Nat] /\ contents \in [File -> SUBSET Record]
  BY DEF IInv, BuilderTypes
<1>6. bulk' \in [Builder -> Seq(Request)]
  BY <1>1, TailOne
<1>7. FlushesOK'
  <2>1. ASSUME NEW b \in Builder
        PROVE  \E d \in {0, 1} : \A j \in 1..Len(bulk'[b]) :
                 j + d \in 1..Len(bulk[b]) /\ bulk'[b][j] = bulk[b][j + d]
    <3>1. CASE b = c
      BY <3>1, <1>1, TailOne
    <3>2. CASE b # c
      BY <3>2, <1>1
    <3> QED BY <3>1, <3>2
  <2>2. ASSUME NEW b \in Builder
        PROVE  /\ \A i \in 1..Len(bulk'[b]) : bulk'[b][i] = Flush => seal'.b = b /\ ~seal'.answered
               /\ \A i, j \in 1..Len(bulk'[b]) :
                    bulk'[b][i] = Flush /\ bulk'[b][j] = Flush => i = j
               /\ \A i \in 1..Len(bulk'[b]), j \in 1..Len(requests'[b]) :
                    ~(bulk'[b][i] = Flush /\ requests'[b][j] = Flush)
    <3>1. PICK d \in {0, 1} : \A j \in 1..Len(bulk'[b]) :
                 j + d \in 1..Len(bulk[b]) /\ bulk'[b][j] = bulk[b][j + d]
      BY <2>1
    <3>2. \A i, j \in 1..Len(bulk'[b]) : i + d = j + d => i = j
      BY SMT
    <3>3. /\ \A i \in 1..Len(bulk[b]) : bulk[b][i] = Flush => seal.b = b /\ ~seal.answered
          /\ \A i, j \in 1..Len(bulk[b]) : bulk[b][i] = Flush /\ bulk[b][j] = Flush => i = j
          /\ \A i \in 1..Len(bulk[b]), j \in 1..Len(requests[b]) :
               ~(bulk[b][i] = Flush /\ requests[b][j] = Flush)
      BY DEF IInv, FlushesOK
    <3>4. \A i \in 1..Len(bulk'[b]) : bulk'[b][i] = Flush => seal.b = b /\ ~seal.answered
      BY <3>1, <3>3
    <3>5. \A i, j \in 1..Len(bulk'[b]) : bulk'[b][i] = Flush /\ bulk'[b][j] = Flush => i = j
      BY <3>1, <3>2, <3>3, Zenon
    <3>6. \A i \in 1..Len(bulk'[b]), j \in 1..Len(requests[b]) :
            ~(bulk'[b][i] = Flush /\ requests[b][j] = Flush)
      BY <3>1, <3>3, Zenon
    <3> QED BY <3>4, <3>5, <3>6, <1>4, Zenon
  <2>3. ASSUME NEW b \in Builder
        PROVE  /\ \A i \in 1..Len(requests'[b]) :
                    requests'[b][i] = Flush => seal'.b = b /\ ~seal'.answered
               /\ \A i, j \in 1..Len(requests'[b]) :
                    requests'[b][i] = Flush /\ requests'[b][j] = Flush => i = j
    <3>1. requests' = requests /\ seal' = seal
      BY Zenon, <1>4
    <3>2. /\ \A i \in 1..Len(requests[b]) :
               requests[b][i] = Flush => seal.b = b /\ ~seal.answered
          /\ \A i, j \in 1..Len(requests[b]) :
               requests[b][i] = Flush /\ requests[b][j] = Flush => i = j
      BY Zenon DEF IInv, FlushesOK
    <3> QED BY <3>1, <3>2
  <2> QED BY <2>2, <2>3, Zenon DEF FlushesOK
<1> HIDE DEF w, rec
<1>8. CASE /\ handle[c] = 0 => next_file <= MaxFile
           /\ next_file' = IF handle[c] = 0 THEN next_file + 1 ELSE next_file
           /\ building' = building \cup {f}
           /\ contents' = [contents EXCEPT ![f] = IF handle[c] = 0 THEN {rec} ELSE @ \cup {rec}]
           /\ \/ /\ finished' = [finished EXCEPT ![c] = finished[c] \cup {f}]
                 /\ handle' = [handle EXCEPT ![c] = 0]
              \/ /\ handle' = [handle EXCEPT ![c] = f]
                 /\ UNCHANGED finished
           /\ writer' = [writer EXCEPT ![w].pc = "answered", ![w].file = f]
  <2>1. f \in File /\ f \in Nat /\ f # 0 /\ f < next_file' /\ next_file <= next_file'
        /\ next_file' \in Nat \ {0}
    BY <1>5, <1>8 DEF IInv, NumbersOK, File
  <2>2. writer' \in [Writer -> Put1] /\ \A v \in Writer : writer'[v].file < next_file'
    <3>1. writer' = [writer EXCEPT ![w] = [writer[w] EXCEPT !.pc = "answered", !.file = f]]
      BY <1>2, <1>3, <1>8, Zenon
    <3>2. [writer[w] EXCEPT !.pc = "answered", !.file = f] \in Put1
      BY <1>2, <1>3, <2>1, Zenon
    <3>3. [writer[w] EXCEPT !.pc = "answered", !.file = f].file = f
      BY <1>2, <1>3, <2>1
    <3>4. \A v \in Writer : writer[v].file \in Nat /\ writer[v].file < next_file
      BY <1>3 DEF IInv, NumbersOK
    <3> HIDE DEF f, Put1
    <3> QED BY <3>1, <3>2, <3>3, <3>4, <1>2, <1>3, <1>5, <2>1
  <2>3. /\ handle' \in [Builder -> 0..MaxFile] /\ finished' \in [Builder -> SUBSET Nat]
        /\ contents' \in [File -> SUBSET Record]
        /\ \A b \in Builder : handle'[b] < next_file'
    <3>1. handle' \in [Builder -> 0..MaxFile] /\ finished' \in [Builder -> SUBSET Nat]
      <4>1. f \in 0..MaxFile /\ 0 \in 0..MaxFile /\ finished[c] \cup {f} \in SUBSET Nat
        BY <1>5, <2>1 DEF File
      <4> HIDE DEF f
      <4> QED BY <4>1, <1>5, <1>8
    <3>2. contents' \in [File -> SUBSET Record]
      BY <1>3, <1>5, <1>8, <2>1
    <3>3. \A b \in Builder : handle'[b] < next_file'
      <4>1. \A b \in Builder : handle[b] < next_file /\ handle[b] \in Nat
        BY <1>5 DEF IInv, NumbersOK
      <4>2. \A b \in Builder : handle'[b] \in {handle[b], 0, f}
        BY <1>5, <1>8
      <4> HIDE DEF f
      <4> QED BY <4>1, <4>2, <1>5, <2>1
    <3> QED BY <3>1, <3>2, <3>3
  <2>4. /\ \A b \in Builder \ {c} : ToFinish(b)' = ToFinish(b)
        /\ ToFinish(c)' = ToFinish(c) \cup {f}
    <3>1. \A b \in Builder \ {c} : ToFinish(b)' = ToFinish(b)
      BY <1>5, <1>8 DEF ToFinish
    <3>2. ToFinish(c)' = ToFinish(c) \cup {f}
      BY <1>5, <1>8, <2>1 DEF ToFinish
    <3> QED BY <3>1, <3>2
  <2>5. \A b \in Builder, i \in 1..Len(lsm) : lsm[i].file \in ToFinish(b)' => lsm[i].file \in ToFinish(b)
    <3>1. \A i \in 1..Len(lsm) : lsm[i].file = f => f \in ToFinish(c)
      BY <1>5 DEF IInv, NumbersOK, ToFinish
    <3> HIDE DEF f
    <3> QED BY <3>1, <2>4
  <2>6. BuilderTypes'
    BY <2>1, <2>2, <2>3, <1>4, <1>6 DEF IInv, BuilderTypes
  <2>7. NumbersOK'
    <3>1. gc.output \in Nat /\ \A i \in 1..Len(lsm) : lsm[i].file \in Nat
      BY FileNumbers
    <3>2. gc'.output < next_file' /\ \A i \in 1..Len(lsm') : lsm'[i].file < next_file'
      <4>1. gc.output < next_file /\ \A i \in 1..Len(lsm) : lsm[i].file < next_file
        BY DEF IInv, NumbersOK
      <4>2. next_file \in Nat /\ next_file' \in Nat /\ next_file <= next_file'
        BY <2>1, <1>5
      <4> HIDE DEF f
      <4>3. \A n \in Nat : n < next_file => n < next_file'
        BY <4>2
      <4> QED BY <4>1, <4>3, <3>1, <1>4, Zenon
    <3> QED BY <3>2, <2>2, <2>3, Zenon DEF NumbersOK
  <2>8. OwnedOK'
    <3> HIDE DEF f
    <3> QED BY <2>4, <1>8 DEF IInv, OwnedOK
  <2>9. AnsweredOK'
    BY <2>5, <1>4 DEF IInv, AnsweredOK
  <2>10. SealedOK'
    <3>1. sealed \in 0..Len(lsm) /\ Len(lsm) \in Nat
      BY DEF IInv, BuilderTypes
    <3>2. \A i \in 1..sealed : i \in 1..Len(lsm)
      BY <3>1
    <3> QED BY <3>2, <2>5, <1>4 DEF IInv, SealedOK
  <2> QED BY <2>6, <2>7, <2>8, <2>9, <2>10, <1>7 DEF IInv
<1>9. CASE /\ next_file' = next_file + 1
           /\ writer' = [writer EXCEPT ![w].pc = "answered"]
           /\ UNCHANGED <<building, contents, handle, finished>>
  <2>1. writer' \in [Writer -> Put1] /\ \A v \in Writer : writer'[v].file = writer[v].file
    BY <1>2, <1>3, <1>9
  <2>2. BuilderTypes'
    <3>1. next_file' \in Nat \ {0}
      BY <1>5, <1>9
    <3> QED BY <3>1, <2>1, <1>4, <1>6, <1>9, Zenon DEF IInv, BuilderTypes
  <2>3. NumbersOK'
    BY <2>1, <1>4, <1>5, <1>9, FileNumbers, SMTT(40) DEF IInv, NumbersOK
  <2>4. OwnedOK' /\ AnsweredOK' /\ SealedOK'
    BY <1>4, <1>9 DEF IInv, OwnedOK, AnsweredOK, SealedOK, ToFinish
  <2> QED BY <2>2, <2>3, <2>4, <1>7 DEF IInv
<1> QED
  BY <1>8, <1>9 DEF HandleAdd, FinishBlob, w, rec

\* A flush request empties the builder's hands: the only request on its way.
LEMMA FlushKeeps ==
  ASSUME IInv, NEW c \in Builder, HandleFlush(c)
  PROVE  IInv'
<1> USE BuilderAssumption
<1>1. /\ bulk[c] \in Seq(Request) /\ bulk[c] # <<>> /\ bulk[c][1] = Flush
      /\ bulk \in [Builder -> Seq(Request)] /\ bulk' = [bulk EXCEPT ![c] = Tail(bulk[c])]
  BY DEF IInv, BuilderTypes, HandleFlush
<1>2. 1 \in 1..Len(bulk[c]) /\ seal.b = c /\ ~seal.answered
  <2>1. 1 \in 1..Len(bulk[c])
    BY <1>1, TailOne
  <2> QED BY <2>1, <1>1 DEF IInv, FlushesOK
<1>3. /\ UNCHANGED <<writer, requests, contents, next_file, lsm, sealed, gc, puts>>
      /\ finished' = [finished EXCEPT ![c] = {}] /\ handle' = [handle EXCEPT ![c] = 0]
      /\ seal' = [seal EXCEPT !.answered = TRUE]
      /\ building' = building \ ToFinish(c)
  BY DEF HandleFlush, AddBlobFile, lsmVars, gcVars
<1>4. /\ handle \in [Builder -> 0..MaxFile] /\ finished \in [Builder -> SUBSET Nat]
      /\ seal \in [b : 0..NumBuilders, answered : BOOLEAN] /\ next_file \in Nat \ {0}
  BY DEF IInv, BuilderTypes
<1>5. /\ handle' \in [Builder -> 0..MaxFile] /\ finished' \in [Builder -> SUBSET Nat]
      /\ seal' \in [b : 0..NumBuilders, answered : BOOLEAN] /\ seal'.b = c /\ seal'.answered
      /\ bulk' \in [Builder -> Seq(Request)]
  <2>1. bulk' \in [Builder -> Seq(Request)]
    BY <1>1, TailOne
  <2>2. handle' \in [Builder -> 0..MaxFile] /\ finished' \in [Builder -> SUBSET Nat]
    BY <1>3, <1>4
  <2>3. seal' \in [b : 0..NumBuilders, answered : BOOLEAN] /\ seal'.b = c /\ seal'.answered
    BY <1>2, <1>3, <1>4, Zenon
  <2> QED BY <2>1, <2>2, <2>3
<1>6. BuilderTypes'
  BY <1>3, <1>5, Zenon DEF IInv, BuilderTypes
<1>7. NumbersOK'
  BY <1>3, <1>4 DEF IInv, NumbersOK
<1>8. ToFinish(c)' = {} /\ \A b \in Builder \ {c} : ToFinish(b)' = ToFinish(b)
  BY <1>3, <1>4 DEF ToFinish
<1>9. OwnedOK'
  BY <1>3, <1>8 DEF IInv, OwnedOK
<1>10. FlushesOK'
  <2> SUFFICES ASSUME NEW b \in Builder
               PROVE  /\ \A i \in 1..Len(bulk'[b]) : bulk'[b][i] # Flush
                      /\ \A i \in 1..Len(requests[b]) : requests[b][i] # Flush
    BY <1>3 DEF FlushesOK
  <2>1. CASE b = c
    <3>1. \A i \in 1..Len(requests[c]) : requests[c][i] # Flush
      BY <1>1, <1>2 DEF IInv, FlushesOK
    <3>2. \A i \in 1..Len(bulk[c]) : bulk[c][i] = Flush => i = 1
      BY <1>1, <1>2 DEF IInv, FlushesOK
    <3>3. bulk'[c] = Tail(bulk[c])
      BY <1>1
    <3>4. \A i \in 1..Len(bulk'[c]) : i + 1 \in 1..Len(bulk[c]) /\ i + 1 # 1
                                      /\ bulk'[c][i] = bulk[c][i + 1]
      BY <3>3, <1>1, TailOne
    <3> QED BY <3>1, <3>2, <3>4, <2>1, Zenon
  <2>2. CASE b # c
    BY <2>2, <1>1, <1>2 DEF IInv, FlushesOK
  <2> QED BY <2>1, <2>2
<1>11. AnsweredOK'
  <2>1. \A b \in Builder : b < seal'.b \/ (b = seal'.b /\ seal'.answered) => b = c \/ b < seal.b
    BY <1>2, <1>5
  <2> QED BY <2>1, <1>3, <1>8 DEF IInv, AnsweredOK
<1>12. SealedOK'
  BY <1>3, <1>8 DEF IInv, SealedOK
<1> QED BY <1>6, <1>7, <1>9, <1>10, <1>11, <1>12 DEF IInv

\* A step that leaves the builders and the base DB alone keeps IInv, if building
\* files only go away and next_file_number_ only grows.
LEMMA StorageKeeps ==
  ASSUME IInv, UNCHANGED <<writer, requests, bulk, handle, finished, lsm, sealed, seal, puts>>,
         building' \subseteq building, contents' \in [File -> SUBSET Record],
         next_file' \in Nat, next_file <= next_file', gc' \in Job, gc'.output < next_file',
         gc'.pc = "run" => gc'.input # 0
  PROVE  IInv'
<1>1. next_file \in Nat \ {0}
  BY DEF IInv, BuilderTypes
<1>2. next_file' \in Nat \ {0}
  BY <1>1
<1>3. BuilderTypes'
  BY <1>2 DEF IInv, BuilderTypes
<1>4. NumbersOK'
  BY <1>1, FileNumbers DEF IInv, NumbersOK
<1>5. OwnedOK' /\ FlushesOK' /\ AnsweredOK' /\ SealedOK'
  BY DEF IInv, OwnedOK, FlushesOK, AnsweredOK, SealedOK, ToFinish
<1> QED BY <1>3, <1>4, <1>5 DEF IInv

\* The steps of a GC job: its output takes a new number and is never a
\* building file.
LEMMA GCKeeps ==
  ASSUME IInv, BackgroundGC
  PROVE  IInv'
<1> USE BuilderAssumption
<1>1. /\ gc \in Job /\ gc.output < next_file /\ next_file \in Nat \ {0}
      /\ contents \in [File -> SUBSET Record] /\ (gc.pc = "run" => gc.input # 0)
  BY DEF IInv, BuilderTypes, NumbersOK
<1>2. CASE DoRunGC
  <2> DEFINE keep == {rec \in contents[gc.input] : ~DiscardEntry(rec)}
             out == IF keep = {} THEN 0 ELSE next_file
  <2>1. gc.input \in File /\ keep \in SUBSET Record
    <3>1. gc.input \in File
      BY <1>1, <1>2 DEF DoRunGC, File, Job
    <3> QED BY <3>1, <1>1
  <2>2. /\ gc' = [gc EXCEPT !.pc = "ran", !.keep = keep, !.output = out]
        /\ contents' = [f \in File |-> IF f = out THEN keep ELSE contents[f]]
        /\ next_file' = IF out = 0 THEN next_file ELSE next_file + 1
        /\ UNCHANGED <<writer, requests, bulk, handle, finished, lsm, sealed, seal, puts, building>>
    BY <1>2 DEF DoRunGC, builderVars, lsmVars
  <2> HIDE DEF keep
  <2>3. /\ next_file' \in Nat /\ next_file <= next_file' /\ out \in Nat /\ out < next_file'
    BY <1>1, <2>2
  <2> HIDE DEF out
  <2>4. contents' \in [File -> SUBSET Record]
    BY <1>1, <2>1, <2>2
  <2>5. gc' \in Job /\ gc'.output = out /\ gc'.pc = "ran"
    BY <1>1, <2>1, <2>2, <2>3, Zenon DEF Job
  <2> QED BY <2>2, <2>3, <2>4, <2>5, StorageKeeps
<1>3. CASE GCLock \/ GCFinish \/ InstallOutputBlobFiles
  <2>1. /\ UNCHANGED <<writer, requests, bulk, handle, finished, lsm, sealed, seal, puts,
                       contents, next_file>>
        /\ building' \subseteq building
    BY <1>3 DEF GCLock, GCFinish, InstallOutputBlobFiles, AddBlobFile, builderVars, lsmVars,
                storageVars
  <2>2. \E p \in {"locked", "install", "rewrite"} : gc' = [gc EXCEPT !.pc = p]
    BY <1>3 DEF GCLock, GCFinish, InstallOutputBlobFiles
  <2>3. gc' \in Job /\ gc'.output = gc.output /\ gc'.pc # "run"
    BY <1>1, <2>2 DEF Job
  <2>4. next_file' \in Nat /\ next_file <= next_file'
    BY <1>1, <2>1
  <2> QED BY <1>1, <2>1, <2>3, <2>4, StorageKeeps
<1>4. CASE \E rec \in gc.keep : RewriteKey(rec)
  <2>1. PICK rec \in gc.keep : RewriteKey(rec)
    BY <1>4
  <2>2. rec \in Record /\ gc.output \in Nat
    BY <1>1 DEF Job
  <2>3. gc' \in Job /\ gc'.output = gc.output /\ gc'.pc # "run"
    BY <1>1, <2>1 DEF Job, RewriteKey
  <2>4. /\ writer' \in [Writer -> [pc : {"idle", "sent", "answered"}, rec : Record, file : Nat]]
        /\ \A w \in Writer : writer'[w].file < next_file
    BY <2>1 DEF RewriteKey, IInv, BuilderTypes, NumbersOK
  <2> QED BY <1>1, <2>1, <2>2, <2>3, <2>4, WriteKeeps, Zenon DEF RewriteKey
<1>5. CASE DeleteInputBlobFiles \/ \E f \in File : PickBlobGC(f) \/ PurgeObsoleteFile(f)
  <2>1. /\ UNCHANGED <<writer, requests, bulk, handle, finished, lsm, sealed, seal, puts,
                       building, next_file>>
        /\ contents' = contents \/ \E f \in File : contents' = [contents EXCEPT ![f] = {}]
    BY <1>5, Zenon DEF DeleteInputBlobFiles, PickBlobGC, PurgeObsoleteFile, builderVars, lsmVars,
                storageVars
  <2>2. contents' \in [File -> SUBSET Record]
    BY <1>1, <2>1
  <2>3. gc' = gc \/ gc' = NoGC \/ \E f \in File : gc' = [NoGC EXCEPT !.pc = "run", !.input = f]
    BY <1>5, Zenon DEF DeleteInputBlobFiles, PickBlobGC, PurgeObsoleteFile, gcVars
  <2>4. NoGC \in Job /\ NoGC.output = 0 /\ NoGC.pc = "idle"
    BY DEF NoGC, Job
  <2>5. ASSUME NEW f \in File, gc' = [NoGC EXCEPT !.pc = "run", !.input = f]
        PROVE  gc' \in Job /\ gc'.output = 0 /\ gc'.input # 0
    <3>1. f \in 0..MaxFile /\ f # 0
      BY DEF File
    <3>2. gc'.output = 0 /\ gc'.input = f
      BY <2>4, <2>5 DEF Job
    <3>3. gc' \in Job
      BY <2>4, <2>5, <3>1, Zenon DEF Job
    <3> QED BY <3>1, <3>2, <3>3
  <2>6. gc' \in Job /\ gc'.output < next_file' /\ (gc'.pc = "run" => gc'.input # 0)
    <3>1. CASE gc' = gc
      BY <1>1, <2>1, <3>1
    <3>2. CASE gc' = NoGC
      BY <1>1, <2>1, <2>4, <3>2
    <3>3. ASSUME NEW f \in File, gc' = [NoGC EXCEPT !.pc = "run", !.input = f]
          PROVE  gc' \in Job /\ gc'.output < next_file' /\ (gc'.pc = "run" => gc'.input # 0)
      <4>1. gc' \in Job /\ gc'.output = 0 /\ gc'.input # 0
        BY <2>5, <3>3, Zenon
      <4>2. 0 < next_file'
        BY <1>1, <2>1
      <4> QED BY <4>1, <4>2
    <3> QED BY <2>3, <3>1, <3>2, <3>3, Zenon
  <2>7. next_file' \in Nat /\ next_file <= next_file'
    BY <1>1, <2>1
  <2> QED BY <2>1, <2>2, <2>6, <2>7, StorageKeeps
<1> QED BY <1>2, <1>3, <1>4, <1>5 DEF BackgroundGC, RunGC

\* Every step of a process that stays up preserves IInv.
LEMMA NextKeeps ==
  ASSUME NoRestart, IInv, [Next]_vars
  PROVE  IInv'
<1>1. ASSUME UNCHANGED <<writer, builderVars, storageVars, lsm, sealed, seal, gcVars, puts>>
      PROVE  IInv'
  <2>1. UNCHANGED <<writer, requests, bulk, handle, finished, lsm, sealed, seal, puts,
                    contents, building, next_file, gc>>
    BY <1>1 DEF builderVars, storageVars, gcVars
  <2>2. /\ next_file \in Nat /\ contents \in [File -> SUBSET Record] /\ gc \in Job
        /\ gc.output < next_file /\ (gc.pc = "run" => gc.input # 0)
    BY DEF IInv, BuilderTypes, NumbersOK
  <2>3. next_file <= next_file'
    BY <2>1, <2>2
  <2> QED BY <2>1, <2>2, <2>3, StorageKeeps
<1>2. CASE UNCHANGED vars
  BY <1>1, <1>2 DEF vars, lsmVars
<1>3. ASSUME NEW w \in Writer, NEW k \in Key, Put(w, k)
      PROVE  IInv'
  BY <1>3, PutKeeps
<1>4. ASSUME NEW w \in Writer, Write(w)
      PROVE  IInv'
  <2>1. /\ writer \in [Writer -> [pc : {"idle", "sent", "answered"}, rec : Record, file : Nat]]
        /\ next_file \in Nat \ {0} /\ writer[w].file < next_file
        /\ \A v \in Writer : writer[v].file < next_file
    BY DEF IInv, BuilderTypes, NumbersOK
  <2>2. writer[w].rec \in Record /\ writer[w].file \in Nat
    BY <2>1
  <2>3. /\ writer' \in [Writer -> [pc : {"idle", "sent", "answered"}, rec : Record, file : Nat]]
        /\ \A v \in Writer : writer'[v].file < next_file
    BY <2>1, <1>4 DEF Write, NoPut, Record
  <2>4. gc' \in Job /\ (gc'.pc = "run" => gc'.input # 0) /\ gc'.output < next_file
    BY <1>4 DEF Write, gcVars, IInv, BuilderTypes, NumbersOK
  <2> QED BY <2>1, <2>2, <2>3, <2>4, <1>4, WriteKeeps DEF Write
<1>5. ASSUME NEW b \in Builder, handleRequest(b)
      PROVE  IInv'
  BY <1>5, GetBulkKeeps, AddKeeps, FlushKeeps DEF handleRequest
<1>6. CASE SwitchMemtable \/ OnMemTableSealed
  BY <1>6, SealKeeps
<1>7. CASE FlushMemtable
  BY <1>1, <1>7 DEF FlushMemtable
<1>8. CASE BackgroundGC
  BY <1>8, GCKeeps
<1>9. ASSUME NEW r \in Reader, (\E k \in Key : Get(r, k)) \/ FindFile(r) \/ ReadBuildingFile(r)
      PROVE  IInv'
  BY <1>1, <1>9 DEF Get, FindFile, ReadBuildingFile, lsmVars
<1>10. ~Restart
  BY Zenon DEF Restart, NoRestart
<1> QED BY <1>2, <1>3, <1>4, <1>5, <1>6, <1>7, <1>8, <1>9, <1>10 DEF Next

\* The inductive invariant holds.
THEOREM Invariance == ASSUME NoRestart PROVE Spec => []IInv
<1>1. Init => IInv
  BY InitIInv
<1>2. IInv /\ [Next]_vars => IInv'
  BY NextKeeps
<1> QED BY <1>1, <1>2, PTL DEF Spec

\* OnMemTableSealed does what it is for: while the process stays up, a sealed
\* memtable never names a file that is still being built, whatever Puts, full
\* files, failures of NewFile and GC do meanwhile.
THEOREM SealingLogsFiles == ASSUME NoRestart PROVE Spec => []SealedFilesLogged
<1>1. IInv => SealedFilesLogged
  BY DEF IInv, OwnedOK, SealedOK, SealedFilesLogged
<1> QED BY <1>1, Invariance, PTL

=============================================================================
