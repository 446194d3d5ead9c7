------------------------------ MODULE BenchRun ------------------------------
(***************************************************************************)
(* Benchmark::Run of db_bench: the benchmarks of the list one after the    *)
(* other, each with the parameters of the flags as its name changes them,  *)
(* on a database made anew for it or the one the earlier ones left; its    *)
(* rounds to warm up and the repeated ones the report combines; and the    *)
(* verification of the database against another one.                       *)
(***************************************************************************)
EXTENDS Integers, Sequences, FiniteSets, FiniteSetsExt, SequencesExt

CONSTANTS
  BenchName,    \* the names in the list
  MaxNames,     \* bound on the length of the list
  FlagThreads,  \* FLAGS_threads, not 0
  Thousandth,   \* what fillsync divides num_ by (1000)
  FlagNum,      \* FLAGS_num
  UseExisting,  \* values of FLAGS_use_existing_db
  Warmups,      \* values of W in "[X-W]"
  Repeats,      \* values of X
  Throughput,   \* what RunBenchmark may measure
  EntryKey, EntryValue  \* keys and values of the databases

VARIABLES
  left,      \* how many names are left in the list
  cur,       \* the benchmark being run, num_repeat, num_warmup, rounds run
  params,    \* what Run sets for every name: num_, reads_ ...
  db,        \* the database: whether it is used as it was, and its content
  truth,     \* the database verify compares with
  combined   \* CombinedStats

vars == <<left, cur, params, db, truth, combined>>

NoValue == "none"
Content == [EntryKey -> EntryValue \union {NoValue}]
Empty == [k \in EntryKey |-> NoValue]

NoBench ==
  [name |-> "", repeat |-> 0, warmup |-> 0, rounds |-> 0, pc |-> "next"]

\* The parameters as the flags give them.
Flags == [num |-> FlagNum, reads |-> FlagNum, key |-> 0, value |-> 0,
          batch |-> 1, sync |-> FALSE, threads |-> FlagThreads]

Init ==
  /\ left = MaxNames
  /\ cur = NoBench
  /\ params = Flags
  /\ \E e \in UseExisting :
       db \in [existing : {e}, content : IF e THEN Content ELSE {Empty}]
  /\ truth \in Content
  /\ combined = [ops |-> <<>>, mbs |-> <<>>]

-----------------------------------------------------------------------------
Fresh(name) ==
  name \in {"fillseq", "fillbatch", "fillrandom", "filluniquerandom", "fillsync",
            "fill100K", "fillseqdeterministic", "filluniquerandomdeterministic",
            "randomreplacekeys", "timeseries"}

\* The names that act at once, and those with a method.
HasMethod(name) ==
  name \notin {"stats", "resetstats", "verify", "levelstats", "sstables",
               "stats_history", "compactall"}

\* The parameters are set again for every name.
Sanitize(p) == Flags

\* One thread more, which writes, merges or scans.
WithWriter ==
  {"newiteratorwhilewriting", "seekrandomwhilewriting",
   "seekrandomwhilemerging", "readwhilewriting", "readwhilemerging",
   "readwhilescanning"}

Adjust(name, p) ==
  CASE name = "fillbatch" -> [p EXCEPT !.batch = 1000]
    [] name = "fillsync" -> [p EXCEPT !.num = @ \div Thousandth, !.sync = TRUE]
    [] name = "fill100K" ->
         [p EXCEPT !.num = @ \div Thousandth, !.value = 100 * 1000]
    [] name \in {"filluniquerandom", "fillseqdeterministic",
                 "filluniquerandomdeterministic"} -> [p EXCEPT !.threads = 1]
    [] name = "readtocache" -> [p EXCEPT !.threads = 1, !.reads = p.num]
    [] name = "readrandomsmall" -> [p EXCEPT !.reads = @ \div Thousandth]
    [] name = "readmissing" -> [p EXCEPT !.key = @ + 1]
    [] name \in WithWriter -> [p EXCEPT !.threads = @ + 1]
    [] OTHER -> p

Entries(m) ==
  LET keys == SetToSortSeq({k \in EntryKey : m[k] # NoValue}, <)
  IN  [i \in DOMAIN keys |-> m[keys[i]]]

\* The loops of VerifyDBFromDB: the keys of the other database by Get, then the
\* values of the two iterators side by side, whose keys it does not compare.
VerifyDBFromDB(other, own) ==
  LET t == Entries(other)
      d == Entries(own)
  IN  /\ \A k \in EntryKey : other[k] # NoValue => own[k] = other[k]
      /\ \A i \in DOMAIN d : i \in DOMAIN t /\ t[i] = d[i]
      /\ Len(t) <= Len(d)

NextName ==
  \E name \in BenchName, x \in Repeats, w \in Warmups :
    /\ cur.pc = "next" /\ left > 0
    /\ left' = left - 1
    /\ cur' = [name |-> name, repeat |-> x, warmup |-> w, rounds |-> 0,
               pc |-> "named"]
    /\ params' = Adjust(name, Sanitize(params))
    /\ combined' = [ops |-> <<>>, mbs |-> <<>>]
    /\ UNCHANGED <<db, truth>>

\* A name without a method acts at once. An assertion that fails aborts.
Verify ==
  /\ cur.pc = "named" /\ ~HasMethod(cur.name)
  /\ cur' = IF cur.name = "verify" => VerifyDBFromDB(truth, db.content)
              THEN NoBench ELSE [cur EXCEPT !.pc = "exit"]
  /\ UNCHANGED <<left, params, db, truth, combined>>

\* The database is opened again also when the benchmark is skipped: it is open
\* then, its lock is held, and the program exits.
Prepare ==
  /\ cur.pc = "named" /\ HasMethod(cur.name)
  /\ IF ~Fresh(cur.name) THEN cur' = [cur EXCEPT !.pc = "run"] /\ UNCHANGED db
     ELSE IF db.existing THEN cur' = [cur EXCEPT !.pc = "exit"] /\ UNCHANGED db
     ELSE /\ cur' = [cur EXCEPT !.pc = "run"]
          /\ db' = [db EXCEPT !.content = Empty]
  /\ UNCHANGED <<left, params, truth, combined>>

\* What a round of RunBenchmark may leave in the database.
Effects(name) ==
  IF Fresh(name) \/ name = "readwhilewriting"
    THEN {c \in Content : \A k \in EntryKey : db.content[k] # NoValue
                                                => c[k] # NoValue}
    ELSE {db.content}

WarmUp ==
  /\ cur.pc = "run" /\ cur.warmup > 0
  /\ \E c \in Effects(cur.name) : db' = [db EXCEPT !.content = c]
  /\ cur' = [cur EXCEPT !.warmup = @ - 1, !.rounds = @ + 1]
  /\ UNCHANGED <<left, params, truth, combined>>

\* Some benchmarks count no bytes; their rounds have no MB per second.
AddStats(q, bytes) ==
  [ops |-> Append(combined.ops, q),
   mbs |-> IF bytes THEN Append(combined.mbs, q) ELSE combined.mbs]

RepeatRound ==
  /\ cur.pc = "run" /\ cur.warmup = 0 /\ Len(combined.ops) < cur.repeat
  /\ \E c \in Effects(cur.name) : db' = [db EXCEPT !.content = c]
  /\ \E q \in Throughput, b \in BOOLEAN : combined' = AddStats(q, b)
  /\ cur' = [cur EXCEPT !.rounds = @ + 1]
  /\ UNCHANGED <<left, params, truth>>

Report ==
  /\ cur.pc = "run" /\ cur.warmup = 0 /\ Len(combined.ops) = cur.repeat
  /\ cur' = NoBench
  /\ UNCHANGED <<left, params, db, truth, combined>>

Next == NextName \/ Verify \/ Prepare \/ WarmUp \/ RepeatRound \/ Report

Spec == Init /\ [][Next]_vars

-----------------------------------------------------------------------------
\* CombinedStats: the sum CalcAvg divides, and twice what CalcMedian returns.
CalcSum(data) == FoldLeft(+, 0, data)

CalcMedian2(data) ==
  LET sorted == SortSeq(data, <)
      mid == Len(data) \div 2
  IN  IF Len(data) % 2 = 1 THEN 2 * sorted[mid + 1]
      ELSE sorted[mid + 1] + sorted[mid]

\* The variables have the values the code gives them.
TypeOK ==
  /\ db.content \in Content /\ left \in 0 .. MaxNames
  /\ Len(combined.ops) <= Max(Repeats) /\ Len(combined.mbs) <= Max(Repeats)

\* A benchmark runs with the flags and what its own name changes: nothing of an
\* earlier benchmark in the list is left in the parameters.
ParamsOwn == cur.pc # "next" => params = Adjust(cur.name, Flags)

\* A benchmark that fills a database starts from an empty one, whatever ran
\* before; only its repeated rounds find what the earlier ones wrote.
StartsFresh ==
  cur.pc = "run" /\ cur.rounds = 0
      /\ cur.name \in {"fillseq", "fillbatch", "fillrandom", "fillsync",
                       "fill100K", "timeseries"} => db.content = Empty

\* The combined report is of the repeated rounds, not of those that warm up:
\* not more than half of them are below its median and not more than half above
\* it, and the average is between the least and the greatest.
CombinedRight ==
  Len(combined.ops) > 0 =>
    LET d == combined.ops
        n == Len(d)
        m == CalcMedian2(d)
    IN  /\ n <= cur.repeat \/ cur.pc = "next"
        /\ 2 * Cardinality({i \in 1 .. n : 2 * d[i] < m}) <= n
        /\ 2 * Cardinality({i \in 1 .. n : 2 * d[i] > m}) <= n
        /\ n * Min(ToSet(d)) <= CalcSum(d) /\ CalcSum(d) <= n * Max(ToSet(d))

\* verify says that the databases are the same exactly when they are, though it
\* compares no keys of the iterators.
VerifiesEqual ==
  cur.pc = "named" /\ cur.name = "verify" =>
    (VerifyDBFromDB(truth, db.content) <=> truth = db.content)
=============================================================================
