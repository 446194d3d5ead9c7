---------------------------- MODULE StressThreads ----------------------------
(***************************************************************************)
(* The threads of the stress test (tools/titandb_stress.cc): StressTest::  *)
(* Run starts the workers and the thread that changes the pool size, every *)
(* worker runs ThreadBody and OperateDb, and all of them meet at SharedState*)
(* under mu_ and cv_. What an operation does to the data is StressValues.  *)
(* A section under mu_ is one action. cv_ is the set of its sleepers.      *)
(***************************************************************************)
EXTENDS Integers, Sequences, FiniteSets

CONSTANTS
  Worker,        \* the FLAGS_threads workers
  OpsPerThread,  \* FLAGS_ops_per_thread
  NumReopens,    \* FLAGS_reopen, below OpsPerThread
  MaxBatch,      \* the largest multiget (63 in the code), 1 without multiget
  HoldOps,       \* FLAGS_snapshot_hold_ops
  StressFaults   \* "mismatch": a check of the data fails

VARIABLES
  worker,            \* where each worker is
  op_i,              \* its iteration, the i of OperateDb
  batch_size,        \* its multiget_batch_size
  snapshot_queue,    \* the iterations up to which it holds its snapshots
  main_pc, bg_pc,    \* StressTest::Run and PoolSizeChangeThread
  cv_sleepers,       \* the threads in cv_.Wait
  num_initialized, num_populated, num_done, vote_reopen,
  should_stop_bg_thread, verification_failure,
  num_times_reopened

vars == <<worker, op_i, batch_size, snapshot_queue, main_pc, bg_pc,
          cv_sleepers, num_initialized, num_populated, num_done, vote_reopen,
          should_stop_bg_thread, verification_failure, num_times_reopened>>

Counters == <<num_initialized, num_populated, num_done, vote_reopen>>
Loop     == <<op_i, batch_size, snapshot_queue, num_times_reopened>>
Bg       == <<bg_pc, should_stop_bg_thread>>

NumThreads  == Cardinality(Worker)
OpsPerOpen  == OpsPerThread \div (NumReopens + 1)

\* values kept in a file are verified before anything else
Init ==
  /\ worker \in [Worker -> {"begin", "init"}]
  /\ \A t, u \in Worker : worker[t] = worker[u]
  /\ op_i = [t \in Worker |-> 0] /\ batch_size = [t \in Worker |-> 0]
  /\ snapshot_queue = [t \in Worker |-> <<>>]
  /\ main_pc = "init" /\ bg_pc \in {"run", "none"}
  /\ cv_sleepers = {}
  /\ num_initialized = 0 /\ num_populated = 0 /\ num_done = 0
  /\ vote_reopen = 0 /\ num_times_reopened = 0
  /\ should_stop_bg_thread = FALSE /\ verification_failure = FALSE

Go(t, pc) == worker' = [worker EXCEPT ![t] = pc]

Started       == main_pc \notin {"init"}
VerifyStarted == main_pc \notin {"init", "operate"}

\* cv_.Wait, and the SignalAll of a thread that has found its condition
Sleep(p)       == cv_sleepers' = cv_sleepers \cup {p}
SignalAllIf(c) == cv_sleepers' = IF c THEN {} ELSE cv_sleepers

Awake(p) == p \notin cv_sleepers
----------------------------------------------------------------------------
\* VerifyDb, before the operations and after them: what it finds different is
\* a verification failure
VerifyDb(t) ==
  /\ worker[t] \in {"begin", "verify"}
  /\ Go(t, IF worker[t] = "begin" THEN "init" ELSE "verified")
  /\ verification_failure' \in
       {verification_failure} \cup {TRUE : f \in StressFaults}
  /\ UNCHANGED <<Loop, Bg, Counters, main_pc, cv_sleepers>>

\* Mutant: the last thread does not signal.
IncInitializedLate(t) ==
  /\ worker[t] = "init" /\ Go(t, "start")
  /\ num_initialized' = num_initialized + 1
  /\ SignalAllIf(num_initialized' > NumThreads)
  /\ UNCHANGED <<Loop, Bg, main_pc, num_populated, num_done, vote_reopen,
                 verification_failure>>

IncInitialized(t) ==
  /\ worker[t] = "init" /\ Go(t, "start")
  /\ num_initialized' = num_initialized + 1
  /\ SignalAllIf(num_initialized' >= NumThreads)
  /\ UNCHANGED <<Loop, Bg, main_pc, num_populated, num_done, vote_reopen,
                 verification_failure>>

IncOperated(t) ==
  /\ worker[t] = "operated" /\ Go(t, "start_verify")
  /\ num_populated' = num_populated + 1
  /\ SignalAllIf(num_populated' >= NumThreads)
  /\ UNCHANGED <<Loop, Bg, main_pc, num_initialized, num_done, vote_reopen,
                 verification_failure>>

IncDone(t) ==
  /\ worker[t] = "verified" /\ Go(t, "done")
  /\ num_done' = num_done + 1
  /\ SignalAllIf(num_done' >= NumThreads)
  /\ UNCHANGED <<Loop, Bg, main_pc, num_initialized, num_populated,
                 vote_reopen, verification_failure>>

\* the two waits of ThreadBody, each in a loop
WaitStart(t) ==
  /\ worker[t] = "start" /\ Awake(t)
  /\ IF Started THEN Go(t, "loop") /\ UNCHANGED cv_sleepers
                ELSE Sleep(t) /\ UNCHANGED worker
  /\ UNCHANGED <<Loop, Bg, Counters, main_pc, verification_failure>>

WaitVerify(t) ==
  /\ worker[t] = "start_verify" /\ Awake(t)
  /\ IF VerifyStarted THEN Go(t, "verify") /\ UNCHANGED cv_sleepers
                      ELSE Sleep(t) /\ UNCHANGED worker
  /\ UNCHANGED <<Loop, Bg, Counters, main_pc, verification_failure>>
----------------------------------------------------------------------------
CrossedOpen(i, batch) ==
  /\ i # 0
  /\ \/ i % OpsPerOpen = 0
     \/ i % OpsPerOpen < (i - batch) % OpsPerOpen

Leaves(t) == op_i[t] >= OpsPerThread \/ verification_failure

Leave(t) ==
  /\ worker[t] = "loop" /\ Leaves(t)
  /\ Go(t, "operated")
  /\ UNCHANGED <<Loop, Bg, Counters, main_pc, cv_sleepers,
                 verification_failure>>

\* IncVotedReopen and AllVotedReopen
VotesAfter == (vote_reopen + 1) % NumThreads
AnyVotedReopen(votes) == votes <= 1
AllVotedReopen(votes) == votes = 0

\* StressTest::Reopen deletes the database and opens it again
Reopen == num_times_reopened' = num_times_reopened + 1

\* the snapshots go before the database they are of. The last thread to vote
\* reopens it; the others sleep, once.
VoteReopen(t) ==
  /\ worker[t] = "loop" /\ ~Leaves(t) /\ CrossedOpen(op_i[t], batch_size[t])
  /\ snapshot_queue' = [snapshot_queue EXCEPT ![t] = <<>>]
  /\ vote_reopen' = VotesAfter
  /\ IF AllVotedReopen(vote_reopen')
     THEN Reopen /\ cv_sleepers' = {} /\ Go(t, "op")
     ELSE /\ Sleep(t) /\ Go(t, "voted")
          /\ UNCHANGED num_times_reopened
  /\ UNCHANGED <<op_i, batch_size, Bg, main_pc, num_initialized,
                 num_populated, num_done, verification_failure>>

Woken(t) ==
  /\ worker[t] = "voted" /\ Awake(t)
  /\ Go(t, "op")
  /\ UNCHANGED <<Loop, Bg, Counters, main_pc, cv_sleepers,
                 verification_failure>>

NoVote(t) ==
  /\ worker[t] = "loop" /\ ~Leaves(t) /\ ~CrossedOpen(op_i[t], batch_size[t])
  /\ Go(t, "op")
  /\ UNCHANGED <<Loop, Bg, Counters, main_pc, cv_sleepers,
                 verification_failure>>

Least(a, b) == IF a < b THEN a ELSE b
Most(a, b)  == IF a < b THEN b ELSE a

\* a batch leaves room for one more iteration with a single key
BatchSize(i, b) == Most(Least(b, OpsPerThread - i - 1), 1)

\* a snapshot taken now joins the queue, those due are compared and released
QueueAfter(t, takes) ==
  LET taken == Append(snapshot_queue[t],
                      Least(OpsPerThread - 1, op_i[t] + HoldOps))
  IN SelectSeq(IF takes THEN taken ELSE snapshot_queue[t],
               LAMBDA due : op_i[t] < due)

\* one iteration: a multiget of b keys, or with b = 0 any other operation.
\* Snapshots, backups and checkpoints may differ from what is expected; a
\* secondary that does not catch up also ends the loop.
Operate(t) ==
  /\ worker[t] = "op"
  /\ \E takes \in BOOLEAN, b \in 0..MaxBatch, how \in {"ok"} \cup StressFaults,
        leaves \in BOOLEAN :
       LET batch == IF b = 0 THEN 0 ELSE BatchSize(op_i[t], b)
       IN /\ leaves => how # "ok"
          /\ snapshot_queue' = [snapshot_queue EXCEPT
                                  ![t] = QueueAfter(t, takes)]
          /\ batch_size' = [batch_size EXCEPT ![t] = batch]
          /\ op_i' = [op_i EXCEPT ![t] = @ + Most(batch, 1)]
          /\ verification_failure' = (verification_failure \/ how # "ok")
          /\ Go(t, IF leaves THEN "operated" ELSE "loop")
  /\ UNCHANGED <<Bg, Counters, main_pc, cv_sleepers, num_times_reopened>>
----------------------------------------------------------------------------
\* StressTest::Run waits in turn for AllInitialized, AllOperated and AllDone;
\* SetStart and SetStartVerify are the steps between
Condition ==
  CASE main_pc = "init"    -> num_initialized >= NumThreads
    [] main_pc = "operate" -> num_populated >= NumThreads
    [] main_pc = "verify"  -> num_done >= NumThreads
    [] main_pc = "bg"      -> bg_pc \in {"finished", "none"}
    [] OTHER               -> FALSE

After == [init |-> "operate", operate |-> "verify", verify |-> "bg",
          bg |-> "end"]

Run ==
  /\ main_pc # "end" /\ Awake("main")
  /\ IF Condition
     THEN /\ main_pc' = After[main_pc]
          /\ SignalAllIf(main_pc \in {"init", "operate"})
          /\ should_stop_bg_thread' = (main_pc' \in {"bg", "end"})
     ELSE Sleep("main") /\ UNCHANGED <<main_pc, should_stop_bg_thread>>
  /\ UNCHANGED <<worker, Loop, Counters, bg_pc, verification_failure>>

PoolSizeChangeThread ==
  /\ bg_pc = "run" /\ should_stop_bg_thread
  /\ bg_pc' = "finished" /\ SignalAllIf(TRUE)
  /\ UNCHANGED <<worker, Loop, Counters, main_pc, should_stop_bg_thread,
                 verification_failure>>

WorkerStep(t) ==
  \/ VerifyDb(t) \/ IncInitialized(t) \/ IncOperated(t) \/ IncDone(t)
  \/ WaitStart(t) \/ WaitVerify(t)
  \/ Leave(t) \/ VoteReopen(t) \/ Woken(t) \/ NoVote(t) \/ Operate(t)

Next == Run \/ PoolSizeChangeThread \/ \E t \in Worker : WorkerStep(t)

Spec == Init /\ [][Next]_vars
----------------------------------------------------------------------------
\* Without a verification failure the threads never all sleep: whoever is
\* awake last finds the condition of a sleeper true and signals it (Run,
\* ThreadBody, the vote of OperateDb). A worker that leaves its loop after a
\* failure does not vote, and then they may.
NotStuck ==
  (\A p \in Worker \cup {"main"} :
     p \in cv_sleepers \/ (p \in Worker /\ worker[p] = "done"))
  => \/ verification_failure
     \/ bg_pc = "run" /\ should_stop_bg_thread

ReopenStep ==
  /\ num_times_reopened' # num_times_reopened =>
       /\ \E t \in Worker : \A u \in Worker \ {t} :
            worker[u] = "voted" /\ u \in cv_sleepers
       /\ \A t \in Worker : snapshot_queue'[t] = <<>>
  /\ \A t \in Worker :
       worker'[t] = "operated" /\ ~verification_failure'
         => snapshot_queue'[t] = <<>>

\* Reopen deletes the database while every other worker sleeps on its vote,
\* so none is in an operation, and when no snapshot of it is held; the last
\* snapshots are released by the last iteration (OperateDb: "Leave room for
\* one more iteration of the loop").
ReopenAlone == [][ReopenStep]_vars
=============================================================================
