---------------------------- MODULE GCScheduler -----------------------------
(***************************************************************************)
(* Who may run GC and when: the GC queue and the USER thread pool of        *)
(* TitanDBImpl, dropping column families, and Close                        *)
(* (src/src/db_impl_gc.cc, src/src/db_impl.cc).                            *)
(*                                                                         *)
(* Every action is what a thread does in one hold of mutex_, or between    *)
(* two holds.  A thread that waits on bg_cv_ is a member of bg_cv and has  *)
(* to evaluate the condition of its loop again once it is signaled.        *)
(***************************************************************************)
EXTENDS Integers, Sequences, FiniteSets

CONSTANTS
  ColumnFamily,
  Worker,            \* threads of the USER pool of env_
  Dropper,           \* calls of DropColumnFamilies
  Closer,            \* the call of Close
  MaxBackgroundGC,   \* max_background_gc
  MaxAdded,          \* bound on additions to the GC queue
  Faults

\* "redrop": a column family may be asked to be dropped when it already was.
\* "manifest": LogAndApply may fail when a column family is dropped.
ASSUME SchedulerAssumption ==
  /\ ColumnFamily # {}
  /\ IsFiniteSet(Worker)
  /\ IsFiniteSet(Dropper)
  /\ Worker \cap Dropper = {}
  /\ Closer \notin Worker \cup Dropper
  /\ MaxBackgroundGC \in Nat \ {0}
  /\ MaxAdded \in Nat
  /\ Faults \subseteq {"redrop", "manifest"}

VARIABLES
  gc_queue, unscheduled_gc, bg_gc_scheduled, bg_gc_running, drop_cf_requests,
  shuting_down,
  bg_cv,               \* threads waiting on bg_cv_
  pool,                \* tasks of the pool that no thread has taken yet
  pc, job_cf,          \* BackgroundCallGC, by worker
  drop_pc, drop_cf,    \* DropColumnFamilies, by call
  close_pc, gc_unscheduled,   \* CloseImpl
  base_dropped,        \* column families the base DB has dropped
  files_obsolete,      \* column families all of whose blob files are obsolete
  obsolete_columns, column_families,   \* BlobFileSet
  added                \* additions to the GC queue so far

queueVars == <<gc_queue, unscheduled_gc, bg_gc_scheduled, pool, added>>
workVars  == <<pc, job_cf, bg_gc_running>>
dropVars  == <<drop_pc, drop_cf, drop_cf_requests>>
closeVars == <<close_pc, gc_unscheduled, shuting_down>>
cfVars    == <<base_dropped, files_obsolete, obsolete_columns, column_families>>
vars      == <<queueVars, workVars, dropVars, closeVars, cfVars, bg_cv>>

Init ==
  /\ gc_queue = <<>>
  /\ unscheduled_gc = 0
  /\ bg_gc_scheduled = 0
  /\ bg_gc_running = 0
  /\ drop_cf_requests = 0
  /\ shuting_down = FALSE
  /\ bg_cv = {}
  /\ pool = 0
  /\ pc = [w \in Worker |-> "idle"]
  /\ job_cf = [w \in Worker |-> CHOOSE cf \in ColumnFamily : TRUE]
  /\ drop_pc = [d \in Dropper |-> "idle"]
  /\ drop_cf \in [Dropper -> ColumnFamily]
  /\ close_pc = "open"
  /\ gc_unscheduled = 0
  /\ base_dropped = {}
  /\ files_obsolete = {}
  /\ obsolete_columns = {}
  /\ column_families = ColumnFamily
  /\ added = 0

-----------------------------------------------------------------------------
(* The queue.                                                              *)

\* Mutant: the loop tests only the limit.
MaybeScheduleGCUnchecked(u, s) ==
  LET n == IF shuting_down \/ s >= MaxBackgroundGC THEN 0 ELSE MaxBackgroundGC - s
  IN /\ unscheduled_gc' = u - n
     /\ bg_gc_scheduled' = s + n
     /\ pool' = pool + n

\* Mutant: unscheduled_gc_ is not decremented.
MaybeScheduleGCForgets(u, s) ==
  LET n == IF u > 0 /\ ~shuting_down /\ s < MaxBackgroundGC THEN 1 ELSE 0
  IN /\ unscheduled_gc' = u
     /\ bg_gc_scheduled' = s + n
     /\ pool' = pool + n

\* Mutant: <= in place of < in the loop's test.
MaybeScheduleGCOneMore(u, s) ==
  LET room == IF shuting_down \/ s > MaxBackgroundGC THEN 0
              ELSE MaxBackgroundGC - s + 1
      n == IF u < room THEN u ELSE room
  IN /\ unscheduled_gc' = u - n
     /\ bg_gc_scheduled' = s + n
     /\ pool' = pool + n

\* MaybeScheduleGC when u entries are unscheduled and s jobs are scheduled.
MaybeScheduleGC(u, s) ==
  LET room == IF shuting_down \/ s >= MaxBackgroundGC THEN 0
              ELSE MaxBackgroundGC - s
      n == IF u < room THEN u ELSE room
  IN /\ unscheduled_gc' = u - n
     /\ bg_gc_scheduled' = s + n
     /\ pool' = pool + n

\* OnCompactionCompleted finds enough garbage.  The base DB runs compactions
\* until it is closed, after CloseImpl.
OnCompactionCompleted(cf) ==
  /\ added < MaxAdded
  /\ close_pc # "closed"
  /\ cf \in column_families
  /\ added' = added + 1
  /\ gc_queue' = Append(gc_queue, cf)
  /\ MaybeScheduleGC(unscheduled_gc + 1, bg_gc_scheduled)
  /\ UNCHANGED <<workVars, dropVars, closeVars, cfVars, bg_cv>>

-----------------------------------------------------------------------------
(* BackgroundCallGC.                                                       *)

\* A pool thread takes a task.
BGWorkGC(w) ==
  /\ pc[w] = "idle"
  /\ pool > 0
  /\ pool' = pool - 1
  /\ pc' = [pc EXCEPT ![w] = "call"]
  /\ UNCHANGED <<gc_queue, unscheduled_gc, bg_gc_scheduled, added, job_cf,
                 bg_gc_running, dropVars, closeVars, cfVars, bg_cv>>

\* Mutant: pending drops are not looked at.
DropPendingIgnored == FALSE

\* The condition of the wait loop.
DropPending == drop_cf_requests > 0

\* A drop is pending: wait.
WaitForDrops(w) ==
  /\ pc[w] = "call"
  /\ w \notin bg_cv
  /\ DropPending
  /\ bg_cv' = bg_cv \cup {w}
  /\ UNCHANGED <<queueVars, workVars, dropVars, closeVars, cfVars>>

\* Mutant: a dropped column family is not skipped, nor are its obsolete files.
MayPickDropped(cf) == cf \in column_families

\* The test for a dropped column family and the picker: BackgroundGC finds
\* files to collect only in a storage it knows and that has live files.
MayPick(cf) ==
  /\ cf \notin obsolete_columns
  /\ cf \in column_families
  /\ cf \notin files_obsolete

\* No drop is pending: pop a column family and pick files of it, or find
\* nothing to do.  A picked job runs without mutex_.  The code also tests that
\* the queue is not empty; QueueAccounting shows that it never is here.
StartGC(w) ==
  /\ pc[w] = "call"
  /\ w \notin bg_cv
  /\ ~DropPending
  /\ gc_queue # <<>>
  /\ bg_gc_running' = bg_gc_running + 1
  /\ gc_queue' = Tail(gc_queue)
  /\ job_cf' = [job_cf EXCEPT ![w] = Head(gc_queue)]
  /\ \/ /\ MayPick(Head(gc_queue))
        /\ pc' = [pc EXCEPT ![w] = "run"]
     \/ pc' = [pc EXCEPT ![w] = "log"]
  /\ UNCHANGED <<unscheduled_gc, bg_gc_scheduled, pool, added, dropVars,
                 closeVars, cfVars, bg_cv>>

\* The job ends, or fails; it may queue its column family again.
FinishGC(w) ==
  /\ pc[w] = "run"
  /\ pc' = [pc EXCEPT ![w] = "log"]
  /\ \/ UNCHANGED <<gc_queue, unscheduled_gc, added>>
     \/ /\ added < MaxAdded
        /\ added' = added + 1
        /\ gc_queue' = Append(gc_queue, job_cf[w])
        /\ unscheduled_gc' = unscheduled_gc + 1
  /\ UNCHANGED <<bg_gc_scheduled, pool, job_cf, bg_gc_running, dropVars,
                 closeVars, cfVars, bg_cv>>

\* Mutant: MaybeScheduleGC is not called.
EndGCNoSchedule(w) ==
  /\ pc[w] = "log"
  /\ pc' = [pc EXCEPT ![w] = "idle"]
  /\ bg_gc_running' = bg_gc_running - 1
  /\ bg_gc_scheduled' = bg_gc_scheduled - 1
  /\ bg_cv' = IF bg_gc_scheduled' = 0 \/ bg_gc_running' = 0 THEN {} ELSE bg_cv
  /\ UNCHANGED <<gc_queue, unscheduled_gc, pool, added, job_cf, dropVars,
                 closeVars, cfVars>>

\* Mutant: only the closer is thought of when signaling.
EndGCSignalsClose(w) ==
  /\ pc[w] = "log"
  /\ pc' = [pc EXCEPT ![w] = "idle"]
  /\ bg_gc_running' = bg_gc_running - 1
  /\ MaybeScheduleGC(unscheduled_gc, bg_gc_scheduled - 1)
  /\ bg_cv' = IF bg_gc_scheduled' = 0 THEN {} ELSE bg_cv
  /\ UNCHANGED <<gc_queue, added, job_cf, dropVars, closeVars, cfVars>>

\* The counters are given back, and whoever waits for them is signaled.
EndGC(w) ==
  /\ pc[w] = "log"
  /\ pc' = [pc EXCEPT ![w] = "idle"]
  /\ bg_gc_running' = bg_gc_running - 1
  /\ MaybeScheduleGC(unscheduled_gc, bg_gc_scheduled - 1)
  /\ bg_cv' = IF bg_gc_scheduled' = 0 \/ bg_gc_running' = 0 THEN {} ELSE bg_cv
  /\ UNCHANGED <<gc_queue, added, job_cf, dropVars, closeVars, cfVars>>

BackgroundCallGC(w) == \/ WaitForDrops(w)
                       \/ StartGC(w)
                       \/ FinishGC(w)
                       \/ EndGC(w)

-----------------------------------------------------------------------------
(* DropColumnFamilies and DestroyColumnFamilyHandle.                       *)

\* One test of the wait loop: d waits while a GC job is running.
TestGCRunning(d) ==
  /\ drop_pc' = [drop_pc EXCEPT ![d] = IF bg_gc_running > 0 THEN "check" ELSE "base"]
  /\ bg_cv' = IF bg_gc_running > 0 THEN bg_cv \cup {d} ELSE bg_cv

\* The request is counted, which keeps new GC jobs from starting.
DropColumnFamilies(d) ==
  /\ drop_pc[d] = "idle"
  /\ close_pc = "open"
  /\ "redrop" \in Faults \/
       \A e \in Dropper \ {d} : drop_pc[e] # "idle" => drop_cf[e] # drop_cf[d]
  /\ drop_cf_requests' = drop_cf_requests + 1
  /\ TestGCRunning(d)
  /\ UNCHANGED <<queueVars, workVars, drop_cf, closeVars, cfVars>>

WaitForGC(d) ==
  /\ drop_pc[d] = "check"
  /\ d \notin bg_cv
  /\ TestGCRunning(d)
  /\ UNCHANGED <<queueVars, workVars, drop_cf, drop_cf_requests, closeVars,
                 cfVars>>

\* The base DB drops a column family once.
BaseDropCF(d) ==
  /\ drop_pc[d] = "base"
  /\ drop_cf[d] \notin base_dropped
  /\ base_dropped' = base_dropped \cup {drop_cf[d]}
  /\ drop_pc' = [drop_pc EXCEPT ![d] = "titan"]
  /\ UNCHANGED <<queueVars, workVars, drop_cf, drop_cf_requests, closeVars,
                 files_obsolete, obsolete_columns, column_families, bg_cv>>

\* When it fails, the call returns and the request stays counted.
BaseDropCFFails(d) ==
  /\ drop_pc[d] = "base"
  /\ drop_cf[d] \in base_dropped
  /\ drop_pc' = [drop_pc EXCEPT ![d] = "failed"]
  /\ UNCHANGED <<queueVars, workVars, drop_cf, drop_cf_requests, closeVars,
                 cfVars, bg_cv>>

\* Mutant: the waiting GC tasks are not signaled.
EndDropNoSignal(d, result) ==
  /\ drop_pc[d] = "titan"
  /\ drop_pc' = [drop_pc EXCEPT ![d] = result]
  /\ drop_cf_requests' = drop_cf_requests - 1
  /\ UNCHANGED <<queueVars, workVars, drop_cf, closeVars, base_dropped,
                 column_families, bg_cv>>

\* The request is given back, whatever BlobFileSet::DropColumnFamilies returned.
EndDrop(d, result) ==
  /\ drop_pc[d] = "titan"
  /\ drop_pc' = [drop_pc EXCEPT ![d] = result]
  /\ drop_cf_requests' = drop_cf_requests - 1
  /\ bg_cv' = IF drop_cf_requests' = 0 THEN {} ELSE bg_cv
  /\ UNCHANGED <<queueVars, workVars, drop_cf, closeVars, base_dropped,
                 column_families>>

\* BlobFileSet::DropColumnFamilies makes every blob file obsolete.
TitanDropCF(d) ==
  /\ EndDrop(d, "done")
  /\ files_obsolete' = files_obsolete \cup {drop_cf[d]}
  /\ obsolete_columns' = obsolete_columns \cup {drop_cf[d]}

\* LogAndApply fails: the base DB has dropped the column family, Titan has not.
TitanDropCFFails(d) ==
  /\ "manifest" \in Faults
  /\ EndDrop(d, "undone")
  /\ UNCHANGED <<files_obsolete, obsolete_columns>>

Drop(d) == \/ WaitForGC(d)
           \/ BaseDropCF(d)
           \/ BaseDropCFFails(d)
           \/ TitanDropCF(d)
           \/ TitanDropCFFails(d)

\* The handle of a dropped column family is destroyed: its files may be purged
\* from now on, and the storage goes with the last of them, possibly at once.
DestroyColumnFamilyHandle(cf) ==
  /\ cf \in obsolete_columns
  /\ close_pc = "open"
  /\ obsolete_columns' = obsolete_columns \ {cf}
  /\ column_families' \in {column_families, column_families \ {cf}}
  /\ UNCHANGED <<queueVars, workVars, dropVars, closeVars, base_dropped,
                 files_obsolete, bg_cv>>

\* BlobFileSet::GetObsoleteFiles removes the storage of a destroyed column
\* family with its last obsolete file.
PurgeColumnFamily(cf) ==
  /\ cf \in column_families \cap files_obsolete
  /\ cf \notin obsolete_columns
  /\ column_families' = column_families \ {cf}
  /\ UNCHANGED <<queueVars, workVars, dropVars, closeVars, base_dropped,
                 files_obsolete, obsolete_columns, bg_cv>>

-----------------------------------------------------------------------------
(* CloseImpl.  The user has let the calls of DropColumnFamilies return.     *)

Close ==
  /\ close_pc = "open"
  /\ \A d \in Dropper : drop_pc[d] \in {"idle", "done", "undone", "failed"}
  /\ close_pc' = "unschedule"
  /\ shuting_down' = TRUE
  /\ UNCHANGED <<queueVars, workVars, dropVars, gc_unscheduled, cfVars, bg_cv>>

\* Mutant: tasks are counted that can still run.
UnScheduleCountsOnly ==
  /\ close_pc = "unschedule"
  /\ close_pc' = "subtract"
  /\ gc_unscheduled' = pool
  /\ UNCHANGED <<queueVars, workVars, dropVars, shuting_down, cfVars, bg_cv>>

\* Env::UnSchedule takes back the tasks no thread has started.
UnSchedule ==
  /\ close_pc = "unschedule"
  /\ close_pc' = "subtract"
  /\ gc_unscheduled' = pool
  /\ pool' = 0
  /\ UNCHANGED <<gc_queue, unscheduled_gc, bg_gc_scheduled, added, workVars,
                 dropVars, shuting_down, cfVars, bg_cv>>

\* They are subtracted, once, and the first test of the wait loop follows.
Subtract ==
  /\ close_pc = "subtract"
  /\ bg_gc_scheduled' = bg_gc_scheduled - gc_unscheduled
  /\ gc_unscheduled' = 0
  /\ close_pc' = IF bg_gc_scheduled' > 0 THEN "check" ELSE "closed"
  /\ bg_cv' = IF bg_gc_scheduled' > 0 THEN bg_cv \cup {Closer} ELSE bg_cv
  /\ UNCHANGED <<gc_queue, unscheduled_gc, pool, added, workVars, dropVars,
                 shuting_down, cfVars>>

\* Signaled: the test again.
CheckScheduled ==
  /\ close_pc = "check"
  /\ Closer \notin bg_cv
  /\ close_pc' = IF bg_gc_scheduled > 0 THEN "check" ELSE "closed"
  /\ bg_cv' = IF bg_gc_scheduled > 0 THEN bg_cv \cup {Closer} ELSE bg_cv
  /\ UNCHANGED <<queueVars, workVars, dropVars, gc_unscheduled, shuting_down,
                 cfVars>>

CloseImpl == UnSchedule \/ Subtract \/ CheckScheduled

-----------------------------------------------------------------------------
Next == \/ \E cf \in ColumnFamily : \/ OnCompactionCompleted(cf)
                                    \/ DestroyColumnFamilyHandle(cf)
                                    \/ PurgeColumnFamily(cf)
        \/ \E w \in Worker : BGWorkGC(w) \/ BackgroundCallGC(w)
        \/ \E d \in Dropper : DropColumnFamilies(d) \/ Drop(d)
        \/ Close
        \/ CloseImpl

Spec == Init /\ [][Next]_vars

\* The pool runs its tasks, and a thread that has entered one of the three
\* functions goes on whenever it is not waiting.
FairSpec == /\ Spec
            /\ WF_vars(\E w \in Worker : BGWorkGC(w))
            /\ \A w \in Worker : WF_vars(BackgroundCallGC(w))
            /\ \A d \in Dropper : WF_vars(Drop(d))
            /\ WF_vars(CloseImpl)

-----------------------------------------------------------------------------
(* Properties.                                                             *)

Running == {w \in Worker : pc[w] \in {"run", "log"}}
Active  == {w \in Worker : pc[w] # "idle"}
Calling == {w \in Worker : pc[w] = "call"}
Dropping == {d \in Dropper : drop_pc[d] \in {"check", "base", "titan"}}

\* Every variable has its type.
TypeOK ==
  /\ gc_queue \in Seq(ColumnFamily)
  /\ unscheduled_gc \in Nat
  /\ bg_gc_scheduled \in Nat
  /\ bg_gc_running \in Nat
  /\ drop_cf_requests \in Nat
  /\ shuting_down \in BOOLEAN
  /\ bg_cv \subseteq Worker \cup Dropper \cup {Closer}
  /\ pool \in Nat
  /\ pc \in [Worker -> {"idle", "call", "run", "log"}]
  /\ job_cf \in [Worker -> ColumnFamily]
  /\ drop_pc \in [Dropper -> {"idle", "check", "base", "titan", "done", "undone",
                           "failed"}]
  /\ drop_cf \in [Dropper -> ColumnFamily]
  /\ close_pc \in {"open", "unschedule", "subtract", "check", "closed"}
  /\ gc_unscheduled \in Nat
  /\ base_dropped \subseteq ColumnFamily
  /\ files_obsolete \subseteq ColumnFamily
  /\ obsolete_columns \subseteq ColumnFamily
  /\ column_families \subseteq ColumnFamily
  /\ added \in 0..MaxAdded

\* No GC job runs while a column family is being dropped, in the base DB or in
\* Titan (the two wait loops on bg_cv_).
NoGCDuringDrop ==
  (\E d \in Dropper : drop_pc[d] \in {"base", "titan"}) => Running = {}

\* Titan's part of the drop of cf has failed.
DropUndone(cf) == \E d \in Dropper : drop_pc[d] = "undone" /\ drop_cf[d] = cf

\* A drop has failed in the base DB.
DropFailed == \E d \in Dropper : drop_pc[d] = "failed"

\* A GC job runs only for a column family the base DB still has, unless Titan's
\* part of its drop failed: the handle BackgroundGC looks up exists.
GCOnLiveColumnFamily ==
  \A w \in Worker :
    pc[w] = "run" => job_cf[w] \notin base_dropped \/ DropUndone(job_cf[w])

\* Until Close, every entry of the GC queue is unscheduled or has one task, not
\* yet begun, that will pop it; so no entry is forgotten and a task that begins
\* finds one (AddToGCQueue, MaybeScheduleGC, PopFirstFromGCQueue).
QueueAccounting ==
  ~shuting_down =>
    Len(gc_queue) = unscheduled_gc + pool + Cardinality(Calling)

\* max_background_gc bounds the jobs; none is left over while there is room
\* (MaybeScheduleGC).
GCLimit ==
  /\ bg_gc_scheduled <= MaxBackgroundGC
  /\ ~shuting_down /\ unscheduled_gc > 0 /\ Running = {}
       => bg_gc_scheduled = MaxBackgroundGC

\* When Close has returned, no task is queued or running, so nothing touches
\* the DB that is about to be destroyed.
NoGCAfterClose == close_pc = "closed" => pool = 0 /\ Active = {}

\* What the counters count.  A drop that failed in the base DB stays counted.
CountersOK ==
  /\ bg_gc_running = Cardinality(Running)
  /\ Cardinality(Dropping) <= drop_cf_requests
  /\ bg_gc_scheduled = pool + Cardinality(Active) + gc_unscheduled

\* How far Close is.
CloseOK ==
  /\ close_pc # "open" => shuting_down
  /\ close_pc # "subtract" => gc_unscheduled = 0
  /\ close_pc \in {"subtract", "check", "closed"} => pool = 0
  /\ close_pc = "closed" => bg_gc_scheduled = 0

\* Where a column family the base DB has dropped stands in Titan.
DroppedOK ==
  \A cf \in base_dropped :
    \/ cf \in files_obsolete
    \/ \E d \in Dropper : drop_pc[d] \in {"titan", "undone"} /\ drop_cf[d] = cf

\* The inductive invariant behind the safety properties, for any number of
\* threads: the counters of TitanDBImpl count the threads in each function.
IInv ==
  /\ TypeOK
  /\ CountersOK
  /\ CloseOK
  /\ NoGCDuringDrop
  /\ QueueAccounting
  /\ GCLimit
  /\ DroppedOK
  /\ GCOnLiveColumnFamily

\* What is queued is collected, unless the DB is closed or a drop has failed in
\* the base DB (BackgroundCallGC, MaybeScheduleGC).
QueueDrains ==
  gc_queue # <<>> ~> gc_queue = <<>> \/ shuting_down \/ DropFailed

\* A call of DropColumnFamilies returns, with or without success.
DropReturns ==
  \A d \in Dropper :
    drop_pc[d] = "check" ~> drop_pc[d] \in {"done", "undone", "failed"}

\* Close returns, unless a drop has failed in the base DB (CloseImpl).
CloseReturns == close_pc # "open" ~> close_pc = "closed" \/ DropFailed

\* Nobody waits for ever on bg_cv_: what is queued is collected, and calls of
\* DropColumnFamilies and Close return, although drops wait for jobs, tasks for
\* drops and Close for tasks; a drop that failed in the base DB, whose request
\* stays counted, is the exception.
NobodyWaitsForEver == QueueDrains /\ DropReturns /\ CloseReturns

-----------------------------------------------------------------------------
(* What comments and assertions of the code claim.                         *)

\* Close returns: the last task signals it.
CloseAlwaysReturns == close_pc # "open" ~> close_pc = "closed"

\* BackgroundGC asserts that the base DB has the column family of a job.
HandleFound == \A w \in Worker : pc[w] = "run" => job_cf[w] \notin base_dropped

=============================================================================
