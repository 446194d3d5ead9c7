---------------------------- MODULE BenchThreads ----------------------------
(***************************************************************************)
(* RunBenchmark of db_bench: the threads of one benchmark, which start     *)
(* together and are waited for through one mutex and one condition         *)
(* variable, what each measures, the sum the report is made of, and the    *)
(* agent that reports the operations of every interval while they run. The *)
(* benchmark is one that reads, one that reads while thread 0 writes or    *)
(* scans, or the time series, where the others stop when thread 0 has.     *)
(***************************************************************************)
EXTENDS Integers, FiniteSets, FiniteSetsExt

CONSTANTS
  NumBenchThreads,    \* FLAGS_threads
  Benchmark,          \* benchmarks, a set of "readrandom", "timeseries",
                      \* "readwhilewriting" and "readwhilescanning"
  BenchOps,           \* reads_ and writes_
  BenchSeconds,       \* values of FLAGS_duration
  BetweenChecks,      \* FLAGS_ops_between_duration_checks
  FinishAfterWrites,  \* values of FLAGS_finish_after_writes
  MaxBenchOps,        \* bound on the operations of one thread
  MaxClock,           \* bound on the clock
  MaxRows             \* bound on the rows of the report file

\* MaxBenchOps is one less than a multiple of BetweenChecks and not less than
\* BenchOps, so that a thread at the bound checks whether its time is up.

Tid == 0 .. NumBenchThreads - 1
Main == -1      \* the thread of RunBenchmark
Nobody == -2

VARIABLES
  clk,       \* Env::NowMicros, in seconds
  bench,     \* the benchmark and its flags
  main,      \* where RunBenchmark is
  common,    \* SharedState; holder is who has mu, waiting who waits on cv
  thread,    \* the ThreadStates, with where their thread is
  reporter,  \* the ReporterAgent, with where its thread is
  merged     \* merge_stats

vars == <<clk, bench, main, common, thread, reporter, merged>>

Unborn == [pc |-> "unborn", made |-> 0, ops |-> 0, done |-> 0, start |-> 0,
           finish |-> 0, last |-> 0, micros |-> 0, excluded |-> FALSE]

Init ==
  /\ clk = 0
  /\ bench \in [name : Benchmark, seconds : BenchSeconds,
                finish_after : FinishAfterWrites]
  /\ bench.name # "readwhilewriting" => ~bench.finish_after    \* not read
  /\ main = "spawn"
  /\ common = [alive |-> TRUE, initialized |-> 0, done |-> 0, start |-> FALSE,
               holder |-> Nobody, waiting |-> {}]
  /\ thread = [t \in Tid |-> Unborn]
  /\ reporter = [pc |-> "wait", stop |-> FALSE, total |-> 0, last |-> 0,
                 snapshot |-> 0, reported |-> 0, rows |-> 0]
  /\ merged = [done |-> 0, start |-> 0, finish |-> 0, micros |-> 0]

Tick == clk < MaxClock /\ clk' = clk + 1
        /\ UNCHANGED <<bench, main, common, thread, reporter, merged>>

-----------------------------------------------------------------------------
\* The ThreadState is made, its Stats started a first time, before its thread.
Spawn ==
  LET born == {t \in Tid : thread[t].pc # "unborn"}
      t == Cardinality(born)
  IN  /\ main = "spawn"
      /\ IF t \in Tid
           THEN /\ thread' = [thread EXCEPT ![t].pc = "init", ![t].made = clk,
                                            ![t].start = clk]
                /\ main' = main
           ELSE thread' = thread /\ main' = "initialized"
      /\ UNCHANGED <<clk, bench, common, reporter, merged>>

Locks(w) == common.holder = Nobody /\ w \notin common.waiting

Enter(t) ==
  LET n == common.initialized + 1
      woken == IF n >= NumBenchThreads THEN {} ELSE common.waiting
  IN  /\ thread[t].pc = "init" /\ Locks(t)
      /\ thread' = [thread EXCEPT ![t].pc = "begin"]
      /\ common' = [common EXCEPT
           !.initialized = n,
           !.waiting = IF common.start THEN woken ELSE woken \union {t}]
      /\ UNCHANGED <<clk, bench, main, reporter, merged>>

\* start_ is read for last_op_finish_ before it is set: the first operation
\* counts from the time the ThreadState was made.
Started(s) ==
  [s EXCEPT !.pc = "run", !.ops = 0, !.done = 0, !.micros = 0,
            !.last = s.start, !.start = clk, !.finish = clk,
            !.excluded = FALSE]

Writes(t) == t = 0 /\ bench.name \in {"readwhilewriting", "timeseries"}

Begin(t) ==
  /\ thread[t].pc = "begin" /\ Locks(t)
  /\ IF common.start
       THEN /\ thread' = [thread EXCEPT
                 ![t] = [Started(@) EXCEPT !.excluded = Writes(t)]]
            /\ UNCHANGED common
       ELSE /\ common' = [common EXCEPT !.waiting = @ \union {t}]
            /\ UNCHANGED thread
  /\ UNCHANGED <<clk, bench, main, reporter, merged>>

FinishedOps(t, ops) ==
  /\ thread' = [thread EXCEPT ![t].ops = ops, ![t].done = @ + 1,
                              ![t].last = clk,
                              ![t].micros = @ + (clk - thread[t].last)]
  /\ reporter' = [reporter EXCEPT !.total = @ + 1]

Stop(t) ==
  /\ thread' = [thread EXCEPT ![t].pc = "stopped", ![t].finish = clk]
  /\ UNCHANGED reporter

\* Duration::Done of an increment of one.
DurationDone(ops, since) ==
  IF bench.seconds # 0
    THEN /\ ops \div BetweenChecks # (ops - 1) \div BetweenChecks
         /\ clk - since >= bench.seconds
    ELSE ops > BenchOps

\* The loop of ReadRandom, and of TimeSeriesWrite.
RunForDuration(t) ==
  LET ops == thread[t].ops + 1
  IN  IF DurationDone(ops, thread[t].start) THEN Stop(t)
      ELSE thread[t].done < MaxBenchOps /\ FinishedOps(t, ops)

BGScan(t) == RunForDuration(t)

BGWriterLeaves(t) ==
  \/ bench.finish_after /\ thread[t].done = BenchOps
  \/ ~bench.finish_after /\ common.done + 1 >= common.initialized

BGWriter(t) ==
  /\ Locks(t)
  /\ IF BGWriterLeaves(t) THEN Stop(t)
     ELSE thread[t].done < MaxBenchOps /\ FinishedOps(t, 0)

\* One seek of the time series may find no record of its key.
TimeSeriesReadOrDelete(t) ==
  /\ Locks(t)
  /\ IF common.done >= 1 THEN Stop(t)
     ELSE \/ thread[t].done < MaxBenchOps /\ FinishedOps(t, 0)
          \/ UNCHANGED <<thread, reporter>>

Run(t) ==
  /\ thread[t].pc = "run"
  /\ CASE bench.name = "readwhilewriting" /\ t = 0 -> BGWriter(t)
       [] bench.name = "readwhilescanning" /\ t = 0 -> BGScan(t)
       [] bench.name = "timeseries" /\ t # 0 -> TimeSeriesReadOrDelete(t)
       [] OTHER -> RunForDuration(t)
  /\ UNCHANGED <<clk, bench, main, common, merged>>

WokenByDone(n) == IF n >= NumBenchThreads THEN {} ELSE common.waiting

DoneLocked(t) ==
  /\ thread[t].pc = "stopped" /\ Locks(t)
  /\ thread' = [thread EXCEPT ![t].pc = "leave"]
  /\ common' = [common EXCEPT !.holder = t, !.done = @ + 1,
                              !.waiting = WokenByDone(common.done + 1)]
  /\ UNCHANGED <<clk, bench, main, reporter, merged>>

DoneUnlocked(t) ==
  /\ thread[t].pc = "leave"
  /\ thread' = [thread EXCEPT ![t].pc = "gone"]
  /\ common' = [common EXCEPT !.holder = Nobody]
  /\ UNCHANGED <<clk, bench, main, reporter, merged>>

-----------------------------------------------------------------------------
AwaitInitialized ==
  /\ main = "initialized" /\ Locks(Main)
  /\ IF common.initialized < NumBenchThreads
       THEN /\ common' = [common EXCEPT !.waiting = @ \union {Main}]
            /\ main' = main
       ELSE /\ common' = [common EXCEPT !.start = TRUE, !.waiting = {}]
            /\ main' = "done"
  /\ UNCHANGED <<clk, bench, thread, reporter, merged>>

AwaitDone ==
  /\ main = "done" /\ Locks(Main)
  /\ IF common.done < NumBenchThreads
       THEN /\ common' = [common EXCEPT !.waiting = @ \union {Main}]
            /\ main' = main
       ELSE main' = "merge" /\ UNCHANGED common
  /\ UNCHANGED <<clk, bench, thread, reporter, merged>>

Spurious(w) ==
  /\ w \in common.waiting
  /\ common' = [common EXCEPT !.waiting = @ \ {w}]
  /\ UNCHANGED <<clk, bench, main, thread, reporter, merged>>

Measured == {t \in Tid : ~thread[t].excluded}

SumOver(S, F(_)) == FoldSet(LAMBDA t, n : n + F(t), 0, S)

\* merge_stats is started when the threads are done; Report counts at least one.
Merge ==
  LET done == SumOver(Measured, LAMBDA t : thread[t].done)
  IN  /\ main = "merge"
      /\ merged' =
           [done |-> Max({1, done}),
            start |-> Min({clk} \union {thread[t].start : t \in Measured}),
            finish |-> Max({clk} \union {thread[t].finish : t \in Measured}),
            micros |-> SumOver(Measured, LAMBDA t : thread[t].micros)]
      /\ main' = "return"
      /\ UNCHANGED <<clk, bench, common, thread, reporter>>

StopReporter ==
  /\ main = "return"
  /\ reporter' = [reporter EXCEPT !.stop = TRUE]
  /\ main' = "join"
  /\ UNCHANGED <<clk, bench, common, thread, merged>>

Return ==
  /\ main = "join" /\ reporter.pc = "exit"
  /\ common' = [common EXCEPT !.alive = FALSE]
  /\ main' = "end"
  /\ UNCHANGED <<clk, bench, thread, reporter, merged>>

-----------------------------------------------------------------------------
AwaitInterval ==
  /\ reporter.pc = "wait"
  /\ \/ reporter.stop /\ reporter' = [reporter EXCEPT !.pc = "exit"]
     \/ /\ ~reporter.stop /\ reporter.rows < MaxRows
        /\ reporter' = [reporter EXCEPT !.pc = "load"]
  /\ UNCHANGED <<clk, bench, main, common, thread, merged>>

LoadTotal ==
  /\ reporter.pc = "load"
  /\ reporter' = [reporter EXCEPT !.pc = "append", !.snapshot = reporter.total]
  /\ UNCHANGED <<clk, bench, main, common, thread, merged>>

LastReportReloaded(r) == r.total

LastReport(r) == r.snapshot

AppendRow ==
  /\ reporter.pc = "append"
  /\ \/ reporter' = [reporter EXCEPT !.pc = "exit"]
     \/ reporter' = [reporter EXCEPT
          !.pc = "wait", !.rows = @ + 1,
          !.reported = @ + (reporter.snapshot - reporter.last),
          !.last = LastReport(reporter)]
  /\ UNCHANGED <<clk, bench, main, common, thread, merged>>

Next ==
  \/ Tick \/ Spawn \/ AwaitInitialized \/ AwaitDone \/ Merge \/ StopReporter
  \/ Return \/ AwaitInterval \/ LoadTotal \/ AppendRow
  \/ \E t \in Tid :
       Enter(t) \/ Begin(t) \/ Run(t) \/ DoneLocked(t) \/ DoneUnlocked(t)
  \/ \E w \in Tid \union {Main} : Spurious(w)

Spec == Init /\ [][Next]_vars

-----------------------------------------------------------------------------
\* The variables have the values the code gives them.
TypeOK ==
  /\ clk \in 0 .. MaxClock /\ common.waiting \subseteq Tid \union {Main}
  /\ common.initialized \in 0 .. NumBenchThreads
  /\ common.done \in 0 .. NumBenchThreads
  /\ \A t \in Tid : thread[t].done \in 0 .. MaxBenchOps

\* RunBenchmark never hangs: while it waits on the condition variable some
\* thread is not waiting, so a signal it needs is still to come.
NotStuck ==
  Main \in common.waiting =>
    \E t \in Tid : /\ t \notin common.waiting
                   /\ thread[t].pc \notin {"unborn", "gone"}

\* The SharedState on RunBenchmark's stack and the agent the threads report to
\* outlive the threads: when it returns, none has an access left to make.
SharedOutlivesThreads ==
  /\ main \in {"merge", "return", "join", "end"}
       => \A t \in Tid : thread[t].pc = "gone"
  /\ ~common.alive => reporter.pc = "exit"

\* The threads run together: none starts its benchmark before all are
\* initialized. Thread 0 writes for as long as any reader reads (unless it is
\* to finish after its writes), and no reader of the time series leaves before
\* its writer has; a benchmark for a time does not end before that time.
RunTogether ==
  /\ \A t \in Tid : thread[t].pc \notin {"unborn", "init", "begin"} =>
       common.initialized = NumBenchThreads
  /\ \A t \in Tid : thread[t].pc \in {"stopped", "leave", "gone"} =>
       CASE bench.name = "readwhilewriting" /\ t = 0 ->
              \/ bench.finish_after
              \/ \A u \in Tid \ {0} : thread[u].pc \in {"leave", "gone"}
         [] bench.name = "timeseries" /\ t # 0 ->
              thread[0].pc \in {"leave", "gone"}
         [] OTHER -> thread[t].finish - thread[t].start >= bench.seconds

\* The report covers what the threads did: the operations and the latencies of
\* every thread that is not excluded, in an interval that holds theirs.
MergedRight ==
  main \in {"return", "join", "end"} =>
    /\ merged.done = Max({1, SumOver(Tid, LAMBDA t :
                                IF Writes(t) THEN 0 ELSE thread[t].done)})
    /\ \A t \in Tid : Writes(t) \/ /\ merged.start <= thread[t].start
                                   /\ merged.finish >= thread[t].finish
    /\ merged.micros = SumOver({t \in Tid : ~Writes(t)},
                               LAMBDA t : thread[t].micros)

\* No time is lost between the operations of a thread: the latencies it adds to
\* its histogram make up the time from when its ThreadState was made to its
\* last operation, the wait for the other threads included.
LatenciesTelescope ==
  \A t \in Tid : thread[t].done > 0 =>
    thread[t].micros = thread[t].last - thread[t].made

\* The rows of the report file add up: every operation is in the row of one
\* interval, or after the last row, whatever finishes while a row is written.
RowsAddUp ==
  /\ reporter.total = SumOver(Tid, LAMBDA t : thread[t].done)
  /\ reporter.reported = reporter.last /\ reporter.last <= reporter.total
=============================================================================
