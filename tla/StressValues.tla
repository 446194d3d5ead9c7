----------------------------- MODULE StressValues -----------------------------
(***************************************************************************)
(* What NonBatchedOpsStressTest (tools/titandb_stress.cc) expects of the   *)
(* database: SharedState keeps a value for every key, marks it unknown     *)
(* while an operation on it is under way, and VerifyDb compares the two.   *)
(* A lock covers KeysPerLock keys. The process may be killed at any point  *)
(* and started again when the expected values are kept in a file. The      *)
(* database is a function from keys to values and may lose one of them.    *)
(***************************************************************************)
EXTENDS Integers, FiniteSets

CONSTANTS
  Tester,       \* 0..FLAGS_threads - 1
  CF,           \* column families, 0 the default one
  StressKeys,   \* max_key_
  KeysPerLock,  \* 2 ^ log2_keys_per_lock_
  Width,        \* FLAGS_range_deletion_width, FLAGS_ingest_external_file_width
  ValueBase,    \* the values written
  MaxOps        \* a bound on the operations of a behaviour

VARIABLES
  flags,        \* what the command line allows
  expected,     \* SharedState::values_
  stored,       \* the database
  act,          \* the operation of each thread
  held, need,   \* the locks it holds and the ones it is about to take
  phase, verified, num_ops,
  alarm,        \* which check failed first, "" while none did
  crashed, unlocked_op, lost

vars == <<flags, expected, stored, act, held, need, phase, verified, num_ops,
          alarm, crashed, unlocked_op, lost>>
Locks   == <<held, need>>
Data    == <<expected, stored>>
Verdict == <<phase, verified, alarm>>
Events  == <<flags, crashed, unlocked_op, lost>>

SKey == 0..(StressKeys - 1)
Idle == [pc |-> "idle", op |-> "none", cf |-> 0, key |-> 0, val |-> "none",
         seen |-> FALSE]

LockOf(cf, k) == <<cf, k \div KeysPerLock>>
Free(l) == \A t \in Tester : l \notin held[t]
Exists(cf, k) == expected[cf, k] # "deleted"
AllowsOverwrite(k) == k \notin flags.no_overwrite

\* VerifyValue: does what is stored pass for what is expected
Agrees(cf, k) ==
  \/ expected[cf, k] = "unknown"
  \/ expected[cf, k] = "deleted" /\ stored[cf, k] = "none"
  \/ expected[cf, k] = stored[cf, k]

\* main checks the flags: kept values exclude ClearColumnFamily, ingestion
\* excludes keys that must not be overwritten
Flags == {f \in [kept : BOOLEAN, clear : BOOLEAN, ingest : BOOLEAN,
                 no_overwrite : {{}, {0}}] :
            (f.kept => ~f.clear) /\ (f.ingest => f.no_overwrite = {})}

Init ==
  /\ flags \in Flags
  /\ expected = [c \in CF \X SKey |-> "deleted"]
  /\ stored = [c \in CF \X SKey |-> "none"]
  /\ act = [t \in Tester |-> Idle]
  /\ held = [t \in Tester |-> {}] /\ need = [t \in Tester |-> {}]
  /\ phase = "operate" /\ verified = {} /\ num_ops = 0 /\ alarm = ""
  /\ crashed = FALSE /\ unlocked_op = FALSE /\ lost = FALSE

Do(t, pc) == act' = [act EXCEPT ![t].pc = pc]
Rest(t) == act' = [act EXCEPT ![t] = Idle]
Take(t, ls) == need' = [need EXCEPT ![t] = ls]
Release(t) == held' = [held EXCEPT ![t] = {}]
Abort(kind) == alarm' = IF alarm = "" THEN kind ELSE alarm
Working(t, pc) == phase = "operate" /\ act[t].pc = pc /\ need[t] = {}
\* an iteration may ingest, then copy the database, then does its operation
AtOperation(t) == \E pc \in {"chosen", "ingested", "checked"} : Working(t, pc)
Unlocked(t) == LockOf(act[t].cf, act[t].key) \notin held[t]

\* MutexLock: one lock after the other, in the order of the keys
NextLock(t) == CHOOSE l \in need[t] : \A m \in need[t] : l[2] <= m[2]
Lock(t) ==
  /\ phase = "operate" /\ need[t] # {} /\ Free(NextLock(t))
  /\ held' = [held EXCEPT ![t] = @ \cup {NextLock(t)}]
  /\ need' = [need EXCEPT ![t] = @ \ {NextLock(t)}]
  /\ UNCHANGED <<Data, Verdict, Events, act, num_ops>>
----------------------------------------------------------------------------
\* OperateDb: one iteration starts with a key, a column family and its lock
Choose(t, cf, k) ==
  /\ Working(t, "idle") /\ num_ops < MaxOps /\ alarm = ""
  /\ act' = [act EXCEPT ![t] = [Idle EXCEPT !.pc = "chosen", !.cf = cf,
                                            !.key = k]]
  /\ Take(t, {LockOf(cf, k)}) /\ num_ops' = num_ops + 1
  /\ UNCHANGED <<Data, Verdict, Events, held>>

\* TestPut and TestDelete take another key while this one may not be written
\* again or is not there to be deleted
Unsuitable(t, op) ==
  /\ ~AllowsOverwrite(act[t].key)
  /\ Exists(act[t].cf, act[t].key) = (op = "put")

Rechoose(t, cf, k) ==
  /\ AtOperation(t) /\ \E op \in {"put", "delete"} : Unsuitable(t, op)
  /\ act' = [act EXCEPT ![t].cf = cf, ![t].key = k]
  /\ Release(t) /\ Take(t, {LockOf(cf, k)})
  /\ UNCHANGED <<Data, Verdict, Events, num_ops>>

\* the cells an operation covers: one, or Width from its key on
Span(op, k) ==
  CASE op = "range"  -> k..(k + Width - 1)
    [] op = "ingest" -> k..(IF k + Width < StressKeys THEN k + Width - 1
                                                      ELSE StressKeys - 1)
    [] OTHER         -> {k}
Cells(a) == {a.cf} \X Span(a.op, a.key)

\* the locks of a span beyond the first key's: where a key starts a new one
MoreLocks(a) ==
  {LockOf(a.cf, k) : k \in {j \in Span(a.op, a.key) \ {a.key} :
                               j % KeysPerLock = 0}}

\* An operation fixes what it does and goes for the locks it still needs. A
\* range that does not fit gets another key and its lock.
Decide(t, op, val, k) ==
  LET a == [act[t] EXCEPT !.pc = "decided", !.op = op, !.val = val, !.key = k]
      moves == k # act[t].key
  IN /\ act' = [act EXCEPT ![t] = a]
     /\ IF moves THEN Release(t) ELSE UNCHANGED held
     /\ Take(t, MoreLocks(a) \cup (IF moves THEN {LockOf(a.cf, k)} ELSE {}))
     /\ UNCHANGED <<Data, Verdict, Events, num_ops>>

\* with verify_before_write
TestPut(t, val) ==
  /\ AtOperation(t) /\ ~Unsuitable(t, "put") /\ Agrees(act[t].cf, act[t].key)
  /\ Decide(t, "put", val, act[t].key)

TestDelete(t) ==
  /\ AtOperation(t) /\ ~Unsuitable(t, "delete")
  /\ Decide(t, "delete", "none", act[t].key)

TestDeleteRange(t, k) ==
  /\ AtOperation(t)
  /\ IF act[t].key > StressKeys - Width
     THEN k \in 0..(StressKeys - Width) ELSE k = act[t].key
  /\ Decide(t, "range", "none", k)

\* it marks its keys while it takes the locks; here once it has them all,
\* which only a kill could tell apart, and a key left unknown agrees with both
TestIngestExternalFile(t, val) ==
  /\ flags.ingest /\ Working(t, "chosen")
  /\ Decide(t, "ingest", val, act[t].key)

VerifyBeforeWrite(t) ==
  /\ AtOperation(t) /\ ~Unsuitable(t, "put")
  /\ ~Agrees(act[t].cf, act[t].key)
  /\ Abort("before_write") /\ Rest(t) /\ Release(t)
  /\ UNCHANGED <<Data, Events, phase, verified, need, num_ops>>

\* SharedState::Put and Delete with pending: a key that is deleted stays so
Unmarked(a) == expected
Pending(a) ==
  [c \in DOMAIN expected |->
     IF c \in Cells(a) /\ (a.op \in {"put", "ingest"} \/ expected[c] # "deleted")
     THEN "unknown" ELSE expected[c]]

\* the same without pending, behind the write
Settled(a) ==
  [c \in DOMAIN expected |->
     IF c \in Cells(a)
     THEN IF a.op \in {"put", "ingest"} THEN a.val ELSE "deleted"
     ELSE expected[c]]

MarkPending(t) ==
  /\ Working(t, "decided") /\ Do(t, "pending")
  /\ expected' = Pending(act[t])
  /\ unlocked_op' = (unlocked_op \/ Unlocked(t))
  /\ UNCHANGED <<stored, Locks, Verdict, num_ops, flags, crashed, lost>>

\* the Put, Delete, DeleteRange or IngestExternalFile of the database
Write(t) ==
  /\ Working(t, "pending") /\ Do(t, "written")
  /\ stored' = [c \in DOMAIN stored |->
                  IF c \notin Cells(act[t]) THEN stored[c]
                  ELSE IF act[t].op \in {"put", "ingest"} THEN act[t].val
                  ELSE "none"]
  /\ UNCHANGED <<expected, Locks, Verdict, Events, num_ops>>

\* an ingestion gives up the lock of the iteration, which goes on without it
Settle(t) ==
  /\ Working(t, "written")
  /\ expected' = Settled(act[t])
  /\ IF act[t].op = "ingest"
     THEN act' = [act EXCEPT ![t] = [Idle EXCEPT !.pc = "ingested",
                                     !.cf = act[t].cf, !.key = act[t].key]]
     ELSE Rest(t)
  /\ Release(t)
  /\ UNCHANGED <<stored, need, Verdict, Events, num_ops>>

\* A copy is made, then the key is read in it. Backups exclude
\* ClearColumnFamily, and a checkpoint is then not looked at.
CopyDb(t) ==
  /\ Working(t, "chosen") \/ Working(t, "ingested")
  /\ ~flags.clear
  /\ act' = [act EXCEPT ![t].pc = "copied",
                        ![t].seen = stored[act[t].cf, act[t].key] # "none"]
  /\ unlocked_op' = (unlocked_op \/ Unlocked(t))
  /\ UNCHANGED <<Data, Locks, Verdict, num_ops, flags, crashed, lost>>
TestBackupRestore(t) == CopyDb(t)
TestCheckpoint(t) == CopyDb(t)

CheckCopy(t) ==
  /\ Working(t, "copied")
  /\ act' = [act EXCEPT ![t].pc = "checked", ![t].seen = FALSE]
  /\ IF act[t].seen = Exists(act[t].cf, act[t].key) THEN UNCHANGED alarm
                                                     ELSE Abort("copy")
  /\ UNCHANGED <<Data, Events, Locks, phase, verified, num_ops>>

\* TestGet, TestMultiGet, TestPrefixScan and TestIterate only count
Read(t) ==
  /\ AtOperation(t) /\ Rest(t) /\ Release(t)
  /\ UNCHANGED <<Data, need, Verdict, Events, num_ops>>

\* MaybeClearOneColumnFamily drops one and creates it again under all its locks
StartClear(t, cf) ==
  /\ Working(t, "idle") /\ num_ops < MaxOps /\ flags.clear /\ alarm = ""
  /\ act' = [act EXCEPT ![t] = [Idle EXCEPT !.pc = "clear", !.cf = cf]]
  /\ Take(t, {LockOf(cf, k) : k \in SKey}) /\ num_ops' = num_ops + 1
  /\ UNCHANGED <<Data, Verdict, Events, held>>

ClearColumnFamily(t) ==
  /\ Working(t, "clear") /\ Rest(t) /\ Release(t)
  /\ stored' = [c \in DOMAIN stored |->
                  IF c[1] = act[t].cf THEN "none" ELSE stored[c]]
  /\ expected' = [c \in DOMAIN expected |->
                    IF c[1] = act[t].cf THEN "deleted" ELSE expected[c]]
  /\ UNCHANGED <<need, Verdict, Events, num_ops>>
----------------------------------------------------------------------------
\* the keys of one thread in VerifyDb: the last one takes the rest
KeysPerThread == StressKeys \div Cardinality(Tester)
EqualShare(t) == (KeysPerThread * t)..(KeysPerThread * (t + 1) - 1)
VerifyShare(t) ==
  (KeysPerThread * t)..(IF t = Cardinality(Tester) - 1
                        THEN StressKeys - 1 ELSE KeysPerThread * (t + 1) - 1)

\* all operated, or started again with kept values
StartVerify ==
  /\ phase = "operate" /\ \A t \in Tester : act[t].pc = "idle"
  /\ phase' = "verify" /\ verified' = {}
  /\ UNCHANGED <<Data, Locks, Events, act, num_ops, alarm>>

VerifyDb(t) ==
  /\ phase \in {"verify", "recover"} /\ t \notin verified
  /\ verified' = verified \cup {t}
  /\ IF \A c \in CF \X VerifyShare(t) : Agrees(c[1], c[2])
     THEN UNCHANGED alarm ELSE Abort("verify")
  /\ phase' = CASE verified' # Tester -> phase
                [] phase = "verify"   -> "done"
                [] OTHER              -> "operate"
  /\ UNCHANGED <<Data, Locks, Events, act, num_ops>>

\* the process is killed; what was written and what was expected remain
Kill ==
  /\ flags.kept /\ ~crashed /\ phase = "operate"
  /\ crashed' = TRUE /\ phase' = "recover" /\ verified' = {}
  /\ act' = [t \in Tester |-> Idle]
  /\ held' = [t \in Tester |-> {}] /\ need' = [t \in Tester |-> {}]
  /\ UNCHANGED <<Data, num_ops, alarm, flags, unlocked_op, lost>>

\* the database loses a value
Lose(c) ==
  /\ phase = "operate" /\ ~lost /\ stored[c] # "none"
  /\ stored' = [stored EXCEPT ![c] = "none"] /\ lost' = TRUE
  /\ UNCHANGED <<expected, Locks, Verdict, act, num_ops, flags, crashed, unlocked_op>>

TesterStep(t) ==
  \/ \E cf \in CF, k \in SKey : Choose(t, cf, k) \/ Rechoose(t, cf, k)
  \/ \E val \in ValueBase : TestPut(t, val) \/ TestIngestExternalFile(t, val)
  \/ TestDelete(t) \/ \E k \in SKey : TestDeleteRange(t, k)
  \/ VerifyBeforeWrite(t) \/ MarkPending(t) \/ Write(t) \/ Settle(t)
  \/ TestBackupRestore(t) \/ TestCheckpoint(t) \/ CheckCopy(t) \/ Read(t) \/ Lock(t)
  \/ \E cf \in CF \ {0} : StartClear(t, cf)
  \/ ClearColumnFamily(t) \/ VerifyDb(t)

Next ==
  \/ \E t \in Tester : TesterStep(t)
  \/ StartVerify \/ Kill \/ \E c \in CF \X SKey : Lose(c)

Spec == Init /\ [][Next]_vars
----------------------------------------------------------------------------
\* The verdict of VerifyDb is right: it fails only if the database lost a
\* value, and a run that ends without an alarm has left no key that differs
\* from what is expected, whatever operations ran side by side, ranges and
\* dropped column families included, and wherever the process was killed.
\* Two things are outside of it: an operation behind an ingestion in the same
\* iteration, which runs without its lock, and a checkpoint that meets a key
\* left unknown by a crash.
VerdictRight ==
  /\ alarm # "" => lost \/ unlocked_op \/ (alarm = "copy" /\ crashed)
  /\ phase = "done" /\ alarm = "" => \A c \in CF \X SKey : Agrees(c[1], c[2])

\* A thread waits only for a lock behind all those it holds, in the same
\* column family, so that no two threads wait for each other (LockColumnFamily,
\* TestDeleteRange, TestIngestExternalFile).
LocksInOrder ==
  \A t \in Tester : need[t] # {} =>
    \A l \in held[t] : l[1] = NextLock(t)[1] /\ l[2] < NextLock(t)[2]
=============================================================================
