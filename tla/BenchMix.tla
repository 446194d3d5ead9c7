------------------------------ MODULE BenchMix ------------------------------
(***************************************************************************)
(* The benchmarks of db_bench that mix operations on the keys of a set of  *)
(* numbers: reads and writes in given shares, merges, deletions in batches *)
(* of numbers in order or not, a sequential fill that is then read with    *)
(* seeks, and the transactions that add the same to one key of every set,  *)
(* by RocksDB's RandomTransactionInserter.                                 *)
(***************************************************************************)
EXTENDS Integers, Sequences, FiniteSets, FiniteSetsExt, SequencesExt

CONSTANTS
  MixThread,    \* the threads
  MixBench,     \* benchmarks
  MixNum,       \* FLAGS_num, and merge_keys_, of the transactions and merges
  MixSeekNum,   \* and of the other benchmarks, not less
  MixOps,       \* readwrites_ and deletes_
  MaxTxns,      \* bound on the transactions of a thread
  GetShare,     \* FLAGS_readwritepercent
  PutShare,     \* and what is left to a hundred
  MixBatch,     \* values of entries_per_batch_
  SeekNexts,    \* values of FLAGS_seek_nexts
  SeekBackward, \* values of FLAGS_reverse_iterator
  TxnKind,      \* "none", "optimistic" (FLAGS_optimistic_transaction_db) or
                \* "pessimistic" (FLAGS_transaction_db)
  TxnSets,      \* FLAGS_transaction_sets
  MaxIncr      \* bound on what a transaction adds

VARIABLES
  mix,     \* the benchmark and its flags
  records,   \* the values of the keys, <<>> for none; only transactions use
           \* more than the first set
  client   \* the threads

vars == <<mix, records, client>>

Num == IF mix.name \in {"txn", "mergerandom", "readrandommergerandom"}
         THEN MixNum ELSE MixSeekNum
Number == 0 .. Num - 1
TxnSet == 0 .. TxnSets - 1
MixKey == TxnSet \X (0 .. MixSeekNum - 1)
Put1 == <<1>>    \* a generated value

\* The numbers whose key has a value.
Present == {n \in Number : records[<<0, n>>] # <<>>}

Init ==
  /\ mix \in [name : MixBench, batch : MixBatch, nexts : SeekNexts,
              backward : SeekBackward, kind : TxnKind]
  /\ mix.name = "txn" \/ mix.kind = "none"
  /\ mix.name # "fillseekseq" =>
       mix.nexts = Min(SeekNexts) /\ mix.backward = FALSE
  /\ mix.name \in {"fillseekseq", "deleteseq", "deleterandom"}
       \/ mix.batch = Min(MixBatch)
  /\ records \in {[k \in MixKey |->
                   IF k[1] = 0 /\ k[2] \in S THEN Put1 ELSE <<>>] :
                  S \in IF mix.name = "fillseekseq" THEN SUBSET Number
                        ELSE IF mix.name \in {"deleteseq", "deleterandom"}
                          THEN {Number} ELSE {{}}}
  /\ client = [t \in MixThread |->
       [pc |-> "loop", ops |-> 0, get |-> 0, put |-> 0, reads |-> 0,
        writes |-> 0, max_length |-> 0, i |-> 0, j |-> 0, at |-> -1,
        iter |-> {}, seen |-> 0, todo |-> {}, picks |-> <<>>, read |-> <<>>,
        incr |-> 0, added |-> 0]]

Starts(t, name) ==
  mix.name = name /\ client[t].pc = "loop" /\ client[t].ops < MixOps

\* Thread t goes on: the fields that f gives a value.
Goes(t, f) == client' = [client EXCEPT ![t] = f @@ @] /\ UNCHANGED mix

-----------------------------------------------------------------------------
\* All reads of a round, then its writes.
Weighted(c) ==
  IF c.get = 0 /\ c.put = 0 THEN [get |-> GetShare, put |-> PutShare]
  ELSE [get |-> c.get, put |-> c.put]

ReadRandomWriteRandom(t) ==
  \E n \in Number :
    LET c == client[t]
        w == Weighted(c)
    IN  /\ Starts(t, "readrandomwriterandom")
        /\ IF w.get > 0
             THEN /\ Goes(t, [ops |-> c.ops + 1, get |-> w.get - 1,
                              put |-> w.put, reads |-> c.reads + 1])
                  /\ UNCHANGED records
             ELSE /\ Goes(t, [ops |-> c.ops + 1, get |-> 0,
                              put |-> w.put - 1, writes |-> c.writes + 1])
                  /\ records' = [records EXCEPT ![<<0, n>>] = Put1]

\* DB::Merge with the operator that appends, atomic in RocksDB.
Merged(old, v) == Append(old, v)

\* The operands of a thread are told apart by their order.
MergeRandom(t) ==
  \E n \in Number :
    LET c == client[t]
    IN  /\ \/ Starts(t, "mergerandom") \/ Starts(t, "readrandommergerandom")
        /\ records' = [records EXCEPT ![<<0, n>>] = Merged(@, <<t, c.writes>>)]
        /\ Goes(t, [ops |-> c.ops + 1, writes |-> c.writes + 1])

ReadRandomMergeRandom(t) ==
  \E n \in Number :
    LET c == client[t]
    IN  /\ Starts(t, "readrandommergerandom")
        /\ Goes(t, [ops |-> c.ops + 1, reads |-> c.reads + 1,
                    max_length |-> Max({c.max_length, Len(records[<<0, n>>])})])
        /\ UNCHANGED records

\* The numbers of the next batch of deletions.
ToDelete(c) ==
  IF mix.name = "deleteseq" THEN {c.i .. c.i + mix.batch - 1}
  ELSE {S \in SUBSET Number : Cardinality(S) \in 1 .. mix.batch}

DoDelete(t) ==
  \E S \in ToDelete(client[t]) :
    LET c == client[t]
    IN  /\ Starts(t, "deleteseq") \/ Starts(t, "deleterandom")
        /\ IF c.ops + mix.batch > MixOps
             THEN Goes(t, [pc |-> "exit"]) /\ UNCHANGED records
             ELSE /\ records' = [k \in MixKey |->
                       IF k[1] = 0 /\ k[2] \in S THEN <<>> ELSE records[k]]
                  /\ Goes(t, [ops |-> c.ops + mix.batch,
                              i |-> c.i + mix.batch])

-----------------------------------------------------------------------------
\* WriteSeqSeekSeq: DoWrite of the numbers in order, in whole batches (the
\* module BenchWrites), then the iterator.
FillSeq(t) ==
  LET filled == 0 .. mix.batch * (Num \div mix.batch) - 1
  IN  /\ Starts(t, "fillseekseq")
      /\ records' = [k \in MixKey |->
           IF k[1] = 0 /\ k[2] \in filled THEN Put1 ELSE records[k]]
      /\ Goes(t, [pc |-> "seek", ops |-> MixOps,
                  iter |-> Present \union filled])

\* Where the iterator is after a call, -1 when it is not valid.
SeekTo(S, n) == IF \E x \in S : x >= n THEN Min({x \in S : x >= n}) ELSE -1
NextOf(S, n) == IF \E x \in S : x > n THEN Min({x \in S : x > n}) ELSE -1
PrevOf(S, n) == IF \E x \in S : x < n THEN Max({x \in S : x < n}) ELSE -1

\* The assertion after a call: the iterator is at the key of number n.
Asserted(t, at, n, f) ==
  Goes(t, IF at = n THEN [at |-> at, i |-> n] @@ f ELSE [pc |-> "abort"])

SeekFirst(t) ==
  LET c == client[t]
  IN  /\ c.pc = "seek"
      /\ Asserted(t, SeekTo(c.iter, c.i), c.i,
                  [pc |-> "next", j |-> 0, seen |-> c.seen + 1])
      /\ UNCHANGED records

StepIterator(t) ==
  LET c == client[t]
      at == IF mix.backward THEN PrevOf(c.iter, c.at) ELSE NextOf(c.iter, c.at)
  IN  /\ c.pc = "next" /\ c.j < mix.nexts /\ c.i + 1 < Num
      /\ Asserted(t, at, c.i + 1, [j |-> c.j + 1, seen |-> c.seen + 1])
      /\ UNCHANGED records

SeekAgain(t) ==
  LET c == client[t]
      last == c.i + 1 >= Num
  IN  /\ c.pc = "next" /\ (c.j >= mix.nexts \/ last)
      /\ IF SeekTo(c.iter, c.i) = c.i
           THEN Goes(t, [pc |-> IF last THEN "exit" ELSE "seek",
                         i |-> c.i + 1])
           ELSE Goes(t, [pc |-> "abort"])
      /\ UNCHANGED records

WriteSeqSeekSeq(t) ==
  FillSeq(t) \/ SeekFirst(t) \/ StepIterator(t) \/ SeekAgain(t)

-----------------------------------------------------------------------------
\* RandomTransaction: a key of every set is read and written with the same
\* added, in a transaction or else in one batch.
CountOf(k) == IF records[k] = <<>> THEN 0 ELSE records[k][1]

TxnStart(t) ==
  \E picks \in [TxnSet -> Number], n \in 1 .. MaxIncr :
    /\ Starts(t, "txn") /\ client[t].ops < MaxTxns
    /\ Goes(t, [pc |-> "txn", ops |-> client[t].ops + 1, todo |-> TxnSet,
                picks |-> picks, incr |-> n,
                read |-> [s \in TxnSet |-> 0]])
    /\ UNCHANGED records

\* The key of set s is locked by another pessimistic transaction.
LockedFor(t, s) ==
  /\ mix.kind = "pessimistic"
  /\ \E u \in MixThread \ {t} :
       /\ client[u].pc = "txn" /\ s \notin client[u].todo
       /\ client[u].picks[s] = client[t].picks[s]

TxnGet(t) ==
  \E s \in client[t].todo :
    LET c == client[t]
    IN  /\ c.pc = "txn" /\ ~LockedFor(t, s)
        /\ Goes(t, [todo |-> c.todo \ {s},
                    read |-> [c.read EXCEPT
                                ![s] = CountOf(<<s, c.picks[s]>>)]])
        /\ UNCHANGED records

TxnOver ==
  [pc |-> "loop", picks |-> <<>>, read |-> <<>>, incr |-> 0]

\* A lock that is not had in time ends the transaction, as a conflict does.
TxnTimeout(t) ==
  /\ client[t].pc = "txn" /\ \E s \in client[t].todo : LockedFor(t, s)
  /\ Goes(t, TxnOver)
  /\ UNCHANGED records

Conflict(c) ==
  /\ mix.kind = "optimistic"
  /\ \E s \in TxnSet : CountOf(<<s, c.picks[s]>>) # c.read[s]

TxnCommit(t) ==
  LET c == client[t]
  IN  /\ c.pc = "txn" /\ c.todo = {}
      /\ IF Conflict(c)
           THEN Goes(t, TxnOver) /\ UNCHANGED records
           ELSE /\ records' = [k \in MixKey |->
                     IF k[2] = c.picks[k[1]] THEN <<c.read[k[1]] + c.incr>>
                     ELSE records[k]]
                /\ Goes(t, [added |-> c.added + c.incr] @@ TxnOver)

RandomTransaction(t) ==
  TxnStart(t) \/ TxnGet(t) \/ TxnTimeout(t) \/ TxnCommit(t)

SetSum(s) == FoldSet(LAMBDA n, x : x + CountOf(<<s, n>>), 0, Number)

\* What RandomTransactionVerify finds when the benchmark is over.
RandomTransactionVerify ==
  mix.kind # "none" => \A s \in TxnSet : SetSum(s) = SetSum(0)

Next ==
  \E t \in MixThread :
    \/ ReadRandomWriteRandom(t) \/ MergeRandom(t) \/ ReadRandomMergeRandom(t)
    \/ DoDelete(t) \/ WriteSeqSeekSeq(t) \/ RandomTransaction(t)

Spec == Init /\ [][Next]_vars

-----------------------------------------------------------------------------
\* The variables have the values the code gives them.
TypeOK ==
  /\ DOMAIN records = MixKey
  /\ \A t \in MixThread : client[t].ops \in 0 .. MixOps /\ client[t].i \in Nat

\* The writes of a round come after its reads and in their share: never ahead
\* of it, and just in it when a round is over.
ShareKept ==
  mix.name = "readrandomwriterandom" => \A t \in MixThread :
    LET c == client[t]
    IN  /\ c.writes * GetShare <= c.reads * PutShare
        /\ c.get = 0 /\ c.put = 0 => c.writes * GetShare = c.reads * PutShare

\* No merge is lost or doubled, whoever else merges: the operands of every
\* thread are in the values, each once and for one key in the thread's order;
\* and no value read was longer than the values have become.
MergesKept ==
  mix.name \in {"mergerandom", "readrandommergerandom"} =>
    /\ FoldSet(LAMBDA n, x : x + Len(records[<<0, n>>]), 0, Number)
         = FoldSet(LAMBDA t, x : x + client[t].writes, 0, MixThread)
    /\ \A t \in MixThread :
         /\ \A w \in 0 .. client[t].writes - 1 :
              \E n \in Number : Contains(records[<<0, n>>], <<t, w>>)
         /\ \A n \in Number :
              LET own == SelectSeq(records[<<0, n>>], LAMBDA v : v[1] = t)
              IN  \A a, b \in DOMAIN own : a < b => own[a][2] < own[b][2]
         /\ \E n \in Number : client[t].max_length <= Len(records[<<0, n>>])

\* Deletions in order leave no key below where a thread is, and every key no
\* thread has come to.
DeletesWhole ==
  mix.name = "deleteseq" =>
    Present = {n \in Number : \A t \in MixThread : n >= client[t].i}

\* The assertions of WriteSeqSeekSeq hold and every number is visited once,
\* whatever the database had before, as long as the batches write all numbers
\* and the iterator goes forward.
SeeksFind ==
  mix.name = "fillseekseq" /\ Num % mix.batch = 0
      /\ (~mix.backward \/ mix.nexts = 0) =>
    \A t \in MixThread : /\ client[t].pc # "abort"
                         /\ client[t].pc = "exit" => client[t].seen = Num

\* With transactions no update is lost: the sum of every set is all that was
\* added by those that committed, so that RandomTransactionVerify succeeds.
SumsAgree ==
  mix.name = "txn" /\ mix.kind # "none" =>
    /\ RandomTransactionVerify
    /\ SetSum(0) = FoldSet(LAMBDA t, x : x + client[t].added, 0, MixThread)
=============================================================================
