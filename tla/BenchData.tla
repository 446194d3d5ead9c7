------------------------------ MODULE BenchData ------------------------------
(***************************************************************************)
(* Benchmarks of db_bench that rely on what they wrote: RandomWithVerify,  *)
(* which writes and deletes three keys at once and reads them in one       *)
(* snapshot; RandomReplaceKeys, which deletes the current version of a key *)
(* and puts the next; TimeSeries, which writes keys that end in a time and *)
(* deletes expired ones; and the updates that read a value, modify it and  *)
(* write it back (UpdateRandom, XORUpdateRandom, AppendRandom). A key of   *)
(* the database is a pair: a number, and the suffix, version or time.      *)
(***************************************************************************)
EXTENDS Integers, Sequences, FiniteSets, FiniteSetsExt, SequencesExt

CONSTANTS
  DataBench,      \* benchmarks, a set of "verify", "replace", "timeseries",
                  \* "update", "xor" and "append"
  DataThread,     \* threads; "replace" runs one, a time series has one writer
  DataKey,        \* the numbers keys are made of (FLAGS_numdistinct)
  ValueBits,      \* generated values are the sequences of so many bits
  MaxVersions,    \* versions of a key (max_counter)
  GetWeight, PutWeight, DeleteWeight,  \* operations of a kind in a row
  TimeRange,      \* FLAGS_time_range
  SingleDeletes,  \* values of FLAGS_use_single_deletes
  MaxDataOps      \* bound on the operations of a thread

VARIABLES
  run,     \* the benchmark, and whether it uses single deletions
  kv,      \* the database: the value of each key, <<>> when it has none
  puts,    \* puts of a key since it was last deleted
  time,    \* the timestamp emulator
  actor,  \* the threads
  written  \* of each number, the operands written and by whom

vars == <<run, kv, puts, time, actor, written>>

Suffix == 0 .. Max({2, MaxVersions - 1, Cardinality(DataThread) * MaxDataOps})
Key == DataKey \X Suffix
DataValue == [1 .. ValueBits -> {0, 1}]
Delimiter == 2
EmptySlice == <<3>>    \* a value of no bytes, which is not no value
Absent == <<>>
NoKey == <<-1, 0>>

TimeWriter == CHOOSE t \in DataThread : TRUE
Active == IF run.name = "replace" THEN {TimeWriter} ELSE DataThread

Idle == [pc |-> "loop", key |-> NoKey, ops |-> 0, read |-> Absent,
         weight |-> [get |-> 0, put |-> 0, delete |-> 0],
         snapshot |-> <<>>, values |-> <<>>, consistent |-> TRUE,
         counters |-> [k \in DataKey |-> 0], found |-> 0]

\* RandomReplaceKeys puts the first version of every key before its loop.
Init ==
  /\ run \in [name : DataBench, single : SingleDeletes]
  /\ LET first == run.name = "replace"
     IN  /\ kv \in {[k \in Key |-> IF first /\ k[2] = 0 THEN v ELSE Absent] :
                      v \in DataValue}
         /\ puts = [k \in Key |-> IF first /\ k[2] = 0 THEN 1 ELSE 0]
  /\ time = 0
  /\ actor = [t \in DataThread |-> Idle]
  /\ written = [k \in DataKey |-> <<>>]

Put(k, v) ==
  /\ kv' = [kv EXCEPT ![k] = v] /\ puts' = [puts EXCEPT ![k] = @ + 1]

\* Until RocksDB compacts them, a single deletion hides one put only.
Delete(k) ==
  /\ kv' = [kv EXCEPT ![k] = Absent]
  /\ puts' = [puts EXCEPT ![k] = IF run.single THEN @ - 1 ELSE 0]

Starts(t, name) ==
  /\ run.name = name /\ t \in Active
  /\ actor[t].pc = "loop" /\ actor[t].ops < MaxDataOps

\* Where thread t goes next: the fields of w that f gives a value.
Goes(t, f) == actor' = [actor EXCEPT ![t] = f @@ @]

-----------------------------------------------------------------------------
\* RandomWithVerify: all gets of a round, then its puts, then its deletes.
Reweighted(w) ==
  IF w.weight = [get |-> 0, put |-> 0, delete |-> 0]
    THEN [get |-> GetWeight, put |-> PutWeight, delete |-> DeleteWeight]
    ELSE w.weight

Many(k) == {<<k, i>> : i \in 0 .. 2}

PutMany(t) ==
  \E k \in DataKey, v \in DataValue :
    LET w == Reweighted(actor[t])
    IN  /\ Starts(t, "verify") /\ w.get = 0 /\ w.put > 0
        /\ kv' = [x \in Key |-> IF x \in Many(k) THEN v ELSE kv[x]]
        /\ Goes(t, [weight |-> [w EXCEPT !.put = @ - 1],
                    ops |-> actor[t].ops + 1])
        /\ UNCHANGED <<run, puts, time, written>>

DeleteMany(t) ==
  \E k \in DataKey :
    LET w == Reweighted(actor[t])
    IN  /\ Starts(t, "verify") /\ w.get = 0 /\ w.put = 0 /\ w.delete > 0
        /\ kv' = [x \in Key |-> IF x \in Many(k) THEN Absent ELSE kv[x]]
        /\ Goes(t, [weight |-> [w EXCEPT !.delete = @ - 1],
                    ops |-> actor[t].ops + 1])
        /\ UNCHANGED <<run, puts, time, written>>

GetSnapshot(t) ==
  \E k \in DataKey :
    LET w == Reweighted(actor[t])
    IN  /\ Starts(t, "verify") /\ w.get > 0
        /\ Goes(t, [pc |-> "get", key |-> <<k, 0>>, snapshot |-> kv,
                    weight |-> [w EXCEPT !.get = @ - 1], values |-> <<>>,
                    ops |-> actor[t].ops + 1])
        /\ UNCHANGED <<run, kv, puts, time, written>>

GetLatest(w) == kv[<<w.key[1], Len(w.values)>>]

GetAtSnapshot(w) == w.snapshot[<<w.key[1], Len(w.values)>>]

GetMany(t) ==
  LET w == actor[t]
      values == Append(w.values, GetAtSnapshot(w))
  IN  /\ w.pc = "get"
      /\ Goes(t, IF Len(values) < 3 THEN [values |-> values]
                 ELSE [pc |-> "loop", snapshot |-> <<>>, values |-> <<>>,
                       consistent |-> w.consistent
                         /\ values[1] = values[2] /\ values[2] = values[3]])
      /\ UNCHANGED <<run, kv, puts, time, written>>

-----------------------------------------------------------------------------
\* RandomReplaceKeys.
NextVersion(c) == (c + 1) % MaxVersions

DeleteVersion(t) ==
  \E k \in DataKey :
    LET w == actor[t]
    IN  /\ Starts(t, "replace")
        /\ Delete(<<k, w.counters[k]>>)
        /\ Goes(t, [pc |-> "put", key |-> <<k, NextVersion(w.counters[k])>>,
                    counters |-> [w.counters EXCEPT ![k] = NextVersion(@)],
                    ops |-> w.ops + 1])
        /\ UNCHANGED <<run, time, written>>

PutVersion(t) ==
  /\ run.name = "replace" /\ actor[t].pc = "put"
  /\ Put(actor[t].key, EmptySlice)
  /\ Goes(t, [pc |-> "loop"])
  /\ UNCHANGED <<run, time, written>>

-----------------------------------------------------------------------------
\* TimeSeries: the time of the key is taken, then counted up, then written.
TakeTime(t) ==
  \E k \in DataKey :
    /\ Starts(t, "timeseries") /\ t = TimeWriter
    /\ Goes(t, [pc |-> "write", key |-> <<k, time>>, ops |-> actor[t].ops + 1])
    /\ time' = time + 1
    /\ UNCHANGED <<run, kv, puts, written>>

WriteTime(t) ==
  \E v \in DataValue :
    /\ run.name = "timeseries" /\ actor[t].pc = "write"
    /\ Put(actor[t].key, v)
    /\ Goes(t, [pc |-> "loop"])
    /\ UNCHANGED <<run, time, written>>

KeyExpired(k) == time - k[2] > TimeRange

\* The new iterator seeks the key with time 0, and goes on while the record's
\* key starts with all of it, the time included: at most that one record.
SeekTime(t) ==
  \E k \in DataKey :
    /\ Starts(t, "timeseries") /\ t # TimeWriter
    /\ kv[<<k, 0>>] # Absent
    /\ Goes(t, [pc |-> "expire", key |-> <<k, 0>>, found |-> actor[t].found + 1,
                ops |-> actor[t].ops + 1])
    /\ UNCHANGED <<run, kv, puts, time, written>>

ExpireTime(t) ==
  /\ actor[t].pc = "expire"
  /\ Goes(t, [pc |-> "loop"])
  /\ IF KeyExpired(actor[t].key) THEN Delete(actor[t].key)
     ELSE UNCHANGED <<kv, puts>>
  /\ UNCHANGED <<run, time, written>>

-----------------------------------------------------------------------------
\* The updates: a value is read, what is made of it and a generated one written.
ReadOld(t, name) ==
  \E k \in DataKey :
    LET old == kv[<<k, 0>>]
    IN  /\ Starts(t, name)
        /\ Goes(t, [pc |-> "modify", key |-> <<k, 0>>, read |-> old,
                    found |-> actor[t].found + (IF old = Absent THEN 0 ELSE 1),
                    ops |-> actor[t].ops + 1])
        /\ UNCHANGED <<run, kv, puts, time, written>>

WriteBack(t, name, v, modified) ==
  LET k == actor[t].key
  IN  /\ run.name = name /\ actor[t].pc = "modify"
      /\ kv' = [kv EXCEPT ![k] = modified]
      /\ written' = [written EXCEPT ![k[1]] = Append(@, <<t, v>>)]
      /\ Goes(t, [pc |-> "loop", read |-> Absent])
      /\ UNCHANGED <<run, puts, time>>

Replaced(old, v) == v

Xored(old, v) ==
  IF old = Absent THEN v ELSE [i \in DOMAIN v |-> (old[i] + v[i]) % 2]

Appended(old, v) ==
  IF old = Absent THEN v ELSE old \o <<Delimiter>> \o v

UpdateRandom(t) ==
  \/ ReadOld(t, "update")
  \/ \E v \in DataValue :
       WriteBack(t, "update", v, Replaced(actor[t].read, v))

XORUpdateRandom(t) ==
  \/ ReadOld(t, "xor")
  \/ \E v \in DataValue :
       WriteBack(t, "xor", v, Xored(actor[t].read, v))

AppendRandom(t) ==
  \/ ReadOld(t, "append")
  \/ \E v \in DataValue :
       WriteBack(t, "append", v, Appended(actor[t].read, v))

Next ==
  \E t \in DataThread :
    \/ PutMany(t) \/ DeleteMany(t) \/ GetSnapshot(t) \/ GetMany(t)
    \/ DeleteVersion(t) \/ PutVersion(t)
    \/ TakeTime(t) \/ WriteTime(t) \/ SeekTime(t) \/ ExpireTime(t)
    \/ UpdateRandom(t) \/ XORUpdateRandom(t) \/ AppendRandom(t)

Spec == Init /\ [][Next]_vars

-----------------------------------------------------------------------------
\* The variables have the values the code gives them.
TypeOK ==
  /\ time \in Suffix /\ DOMAIN kv = Key
  /\ \A k \in Key : kv[k] \in Seq(0 .. 3)
  /\ \A t \in DataThread : actor[t].ops \in 0 .. MaxDataOps

\* What GetMany verifies holds whatever the other threads write: the three
\* values it reads in its snapshot, one after the other, are equal.
SnapshotConsistent == \A t \in DataThread : actor[t].consistent

\* RandomReplaceKeys writes "without overwriting keys", as single deletions
\* need: no key is put twice without a deletion between, also when the versions
\* wrap around, and every number has one version, or none between the two calls.
NoOverwrite ==
  run.name = "replace" =>
    /\ \A k \in Key : puts[k] \in {0, 1} /\ (puts[k] = 1 <=> kv[k] # Absent)
    /\ \A k \in DataKey :
         LET w == actor[TimeWriter]
             replacing == w.pc = "put" /\ w.key[1] = k
         IN  Cardinality({i \in Suffix : kv[<<k, i>>] # Absent})
               = IF replacing THEN 0 ELSE 1

\* The deletions of the time series leave what has not expired: the record of
\* every time within the range, once written, is there, though the deleting
\* threads decide by a clock that moves on.
RecentKept ==
  run.name = "timeseries" =>
    \A i \in Max({0, time - TimeRange}) .. time - 1 :
      \/ actor[TimeWriter].pc = "write" /\ actor[TimeWriter].key[2] = i
      \/ \E k \in DataKey : kv[<<k, i>>] # Absent

\* Updates by one thread are all in the value: it is what the operands written
\* to the key make one after the other. (Two threads may lose one of theirs.)
UpdatesKept ==
  \A k \in DataKey :
    LET operands == [i \in DOMAIN written[k] |-> written[k][i][2]]
        Kept(name, Modified(_, _)) ==
          run.name = name =>
            kv[<<k, 0>>] = FoldLeft(Modified, Absent, operands)
    IN  Cardinality({written[k][i][1] : i \in DOMAIN written[k]}) = 1 =>
          /\ Kept("update", Replaced)
          /\ Kept("xor", Xored)
          /\ Kept("append", Appended)
=============================================================================
