------------------------------ MODULE YcsbClient ------------------------------
(***************************************************************************)
(* The YCSB client threads (bench_tools/YCSB-C: ycsbc.cc, core/client.h,   *)
(* core/core_workload.*, core/counter_generator.h): a load phase that      *)
(* inserts records, a run phase of transactions, shared counters and a     *)
(* histogram behind a spin lock. A record is its number; key choosers are  *)
(* any number in their range. The database is the set of keys it holds.    *)
(***************************************************************************)
EXTENDS Naturals, FiniteSets, FiniteSetsExt

CONSTANTS
  Client,            \* threads
  RecordCount, OperationCount,
  RequestDist,       \* "uniform", "zipfian" or "latest"
  Proportion         \* the operations with a proportion above 0

Operation == {"INSERT", "READ", "UPDATE", "SCAN", "READMODIFYWRITE"}
Counted == {"INSERT", "READ", "SCAN"}

VARIABLES
  y_phase,           \* "load", "run", "end"
  y_pc, y_left,      \* per thread: its place and the operations left
  y_type,            \* per thread: operation_type, which is recorded
  y_did,             \* per thread: the operation performed
  y_key,             \* per thread: the key of the operation
  y_tmp,             \* per thread: a counter as it was read
  key_counter,       \* key_generator_
  y_store,           \* the keys in the database
  ops_cnt,           \* by operation
  histogram,         \* by operation, how many were added
  hist_lock,
  y_performed,       \* operations performed in this phase
  y_missed,          \* a transaction used a key that was never loaded
  y_wrong            \* an operation was recorded as another one

shared == <<key_counter, y_store, ops_cnt, histogram, hist_lock>>
vars == <<y_phase, y_pc, y_left, y_type, y_did, y_key, y_tmp, shared,
          y_performed, y_missed, y_wrong>>

PerThread(total) == total \div Cardinality(Client)
Zero(S) == [o \in S |-> 0]

Init ==
  /\ y_phase = "load" /\ y_pc = [t \in Client |-> "idle"]
  /\ y_left = [t \in Client |-> PerThread(RecordCount)]
  /\ y_type = [t \in Client |-> "INSERT"] /\ y_did = [t \in Client |-> "INSERT"]
  /\ y_key = [t \in Client |-> 0] /\ y_tmp = [t \in Client |-> 0]
  /\ key_counter = 0 /\ y_store = {} /\ ops_cnt = Zero(Counted)
  /\ histogram = Zero(Operation) /\ hist_lock = FALSE
  /\ y_performed = 0 /\ y_missed = FALSE /\ y_wrong = FALSE

Go(t, from, to) == y_pc[t] = from /\ y_pc' = [y_pc EXCEPT ![t] = to]
Frame == UNCHANGED <<y_phase, y_left>>

\* Client::DoInsert: NextSequenceKey is a fetch_add
NextSequenceKey(t) == /\ y_key' = [y_key EXCEPT ![t] = key_counter]
                      /\ key_counter' = key_counter + 1
DoInsert(t) ==
  /\ y_phase = "load" /\ y_left[t] > 0 /\ Go(t, "idle", "perform")
  /\ NextSequenceKey(t)
  /\ y_type' = [y_type EXCEPT ![t] = "INSERT"] /\ y_did' = [y_did EXCEPT ![t] = "INSERT"]
  /\ UNCHANGED <<y_tmp, y_store, ops_cnt, histogram, hist_lock, y_performed,
                 y_missed, y_wrong>> /\ Frame

\* Client::DoTransaction: NextOperation is called twice. NextTransactionKey
\* chooses again until the key is at most insert_key_sequence_.Last(), which is
\* RecordCount - 1 throughout; the skewed latest generator never gives 0.
Chosen == IF RequestDist = "latest" THEN 1..(RecordCount - 1) ELSE 0..(RecordCount - 1)
DoTransaction(t, type, did) ==
  /\ y_phase = "run" /\ y_left[t] > 0 /\ Go(t, "idle", "perform")
  /\ y_type' = [y_type EXCEPT ![t] = type] /\ y_did' = [y_did EXCEPT ![t] = did]
  /\ IF did = "INSERT" THEN NextSequenceKey(t)
     ELSE /\ \E k \in Chosen : y_key' = [y_key EXCEPT ![t] = k]
          /\ UNCHANGED key_counter
  /\ y_wrong' = (y_wrong \/ type # did)
  /\ UNCHANGED <<y_tmp, y_store, ops_cnt, histogram, hist_lock, y_performed,
                 y_missed>> /\ Frame

\* TransactionRead, TransactionScan, TransactionUpdate, TransactionInsert,
\* TransactionReadModifyWrite and the insert of DoInsert, in the database
Writes(op) == op \in {"INSERT", "UPDATE", "READMODIFYWRITE"}
Counts(t) == y_phase = "run" /\ y_did[t] # "READMODIFYWRITE"
Perform(t) ==
  /\ Go(t, "perform", IF Counts(t) THEN "count" ELSE "lock")
  /\ y_store' = IF Writes(y_did[t]) THEN y_store \cup {y_key[t]} ELSE y_store
  /\ y_missed' = (y_missed \/ (y_did[t] # "INSERT" /\ y_key[t] \notin y_store))
  /\ y_performed' = y_performed + 1
  /\ UNCHANGED <<y_type, y_did, y_key, y_tmp, key_counter, ops_cnt, histogram,
                 hist_lock, y_wrong>> /\ Frame

\* ops_cnt[...]++ of every thread on the same word, an update as an insert
CountSlot(t) == IF y_did[t] = "UPDATE" THEN "INSERT" ELSE y_did[t]
ReadCount(t) ==
  /\ Go(t, "count", "counting")
  /\ y_tmp' = [y_tmp EXCEPT ![t] = ops_cnt[CountSlot(t)]]
  /\ UNCHANGED <<y_type, y_did, y_key, shared, y_performed, y_missed, y_wrong>> /\ Frame
WriteCount(t) ==
  /\ Go(t, "counting", "lock")
  /\ ops_cnt' = [ops_cnt EXCEPT ![CountSlot(t)] = y_tmp[t] + 1]
  /\ y_tmp' = [y_tmp EXCEPT ![t] = 0]
  /\ UNCHANGED <<y_type, y_did, y_key, key_counter, y_store, histogram, hist_lock,
                 y_performed, y_missed, y_wrong>> /\ Frame

\* DelegateClient: the spin lock around Add_Fast
LockAlways == TRUE
LockFree == ~hist_lock
Lock(t) ==
  /\ Go(t, "lock", "add") /\ LockFree /\ hist_lock' = TRUE
  /\ UNCHANGED <<y_type, y_did, y_key, y_tmp, key_counter, y_store, ops_cnt, histogram,
                 y_performed, y_missed, y_wrong>> /\ Frame
ReadBucket(t) ==
  /\ Go(t, "add", "adding")
  /\ y_tmp' = [y_tmp EXCEPT ![t] = histogram[y_type[t]]]
  /\ UNCHANGED <<y_type, y_did, y_key, shared, y_performed, y_missed, y_wrong>> /\ Frame
AddAndUnlock(t) ==
  /\ Go(t, "adding", "idle")
  /\ histogram' = [histogram EXCEPT ![y_type[t]] = y_tmp[t] + 1]
  /\ hist_lock' = FALSE /\ y_left' = [y_left EXCEPT ![t] = @ - 1]
  /\ y_tmp' = [y_tmp EXCEPT ![t] = 0]
  /\ UNCHANGED <<y_phase, y_type, y_did, y_key, key_counter, y_store, ops_cnt,
                 y_performed, y_missed, y_wrong>>

\* main: the futures of the phase are awaited, the figures printed and reset, and
\* the next phase has a new workload, whose key_generator_ starts over
EndPhase ==
  /\ y_phase # "end" /\ \A t \in Client : y_pc[t] = "idle" /\ y_left[t] = 0
  /\ y_phase' = IF y_phase = "load" THEN "run" ELSE "end"
  /\ y_left' = [t \in Client |-> IF y_phase = "load" THEN PerThread(OperationCount) ELSE 0]
  /\ histogram' = Zero(Operation) /\ ops_cnt' = Zero(Counted)
  /\ key_counter' = 0 /\ y_performed' = 0
  /\ UNCHANGED <<y_pc, y_type, y_did, y_key, y_tmp, y_store, hist_lock, y_missed, y_wrong>>

Next ==
  \/ \E t \in Client :
       \/ DoInsert(t) \/ Perform(t) \/ ReadCount(t) \/ WriteCount(t) \/ Lock(t)
       \/ ReadBucket(t) \/ AddAndUnlock(t)
       \/ \E type, did \in Proportion : DoTransaction(t, type, did)
  \/ EndPhase

Spec == Init /\ [][Next]_vars
----------------------------------------------------------------------------
PhaseOver == \A t \in Client : y_pc[t] = "idle" /\ y_left[t] = 0

\* A finished phase did and recorded all of its operations: the loading threads
\* share out the keys from 0 on without a gap or a repetition (CounterGenerator),
\* and no addition to the histogram is lost (histogram_lock). Then a transaction
\* finds its key, provided that the threads divide the record count, which
\* total_ops / num_threads takes for granted.
WorkloadComplete ==
  /\ PhaseOver => /\ MapThenSumSet(LAMBDA o : histogram[o], Operation) = y_performed
                  /\ y_phase = "load" =>
                       /\ y_store = 0..(PerThread(RecordCount) * Cardinality(Client) - 1)
                       /\ y_performed = Cardinality(y_store)
  /\ RecordCount % Cardinality(Client) = 0 => ~y_missed

\* Operations are recorded under their own name (DoTransaction): they are not, as
\* NextOperation is called a second time for the one that is performed.
RecordedAsPerformed == ~y_wrong

\* An insert of the run phase adds a new record: it does not, as the sequence of
\* keys starts over with the workload of the run phase.
InsertsNewKeys ==
  \A t \in Client : y_phase = "run" /\ y_pc[t] = "perform" /\ y_did[t] = "INSERT"
                      => y_key[t] \notin y_store

\* The counts printed are the operations done: they need not be, ops_cnt is
\* incremented without a lock.
CountsRight ==
  y_phase = "run" /\ PhaseOver /\ Proportion \subseteq Counted
    => MapThenSumSet(LAMBDA o : ops_cnt[o], Counted) = y_performed
=============================================================================
