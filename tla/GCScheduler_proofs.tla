------------------------- MODULE GCScheduler_proofs -------------------------
(***************************************************************************)
(* The safety properties of GCScheduler for every number of column         *)
(* families, pool threads and drops.  The counters of TitanDBImpl are      *)
(* cardinalities of sets of threads (CountersOK); each step moves one      *)
(* thread, so the proofs rest on what a move does to those sets.           *)
(***************************************************************************)
EXTENDS GCScheduler, FiniteSetTheorems, TLAPS

\* The sets of threads are finite.
LEMMA Finite ==
  /\ IsFiniteSet(Running) /\ Cardinality(Running) \in Nat
  /\ IsFiniteSet(Active) /\ Cardinality(Active) \in Nat
  /\ IsFiniteSet(Calling) /\ Cardinality(Calling) \in Nat
  /\ IsFiniteSet(Dropping) /\ Cardinality(Dropping) \in Nat
<1>1. /\ Running \in SUBSET Worker /\ Active \in SUBSET Worker
      /\ Calling \in SUBSET Worker /\ Dropping \in SUBSET Dropper
  BY Zenon DEF Running, Active, Calling, Dropping
<1>2. /\ IsFiniteSet(Running) /\ IsFiniteSet(Active)
      /\ IsFiniteSet(Calling) /\ IsFiniteSet(Dropping)
  BY Zenon, <1>1, SchedulerAssumption, FS_Subset
<1> QED
  BY Zenon, <1>2, FS_CardinalityType

\* What the move of a worker does to the sets it is counted in.
LEMMA WorkerMoves ==
  ASSUME TypeOK, NEW w \in Worker, NEW v, pc' = [pc EXCEPT ![w] = v]
  PROVE  /\ pc[w] = "idle" /\ v = "call" =>
              /\ Cardinality(Active') = Cardinality(Active) + 1
              /\ Cardinality(Calling') = Cardinality(Calling) + 1
              /\ Running' = Running
         /\ pc[w] = "call" /\ v \in {"run", "log"} =>
              /\ Active' = Active
              /\ Cardinality(Calling') = Cardinality(Calling) - 1
              /\ Cardinality(Running') = Cardinality(Running) + 1
         /\ pc[w] = "run" /\ v = "log" =>
              /\ Active' = Active
              /\ Calling' = Calling
              /\ Running' = Running
         /\ pc[w] = "log" /\ v = "idle" =>
              /\ Cardinality(Active') = Cardinality(Active) - 1
              /\ Calling' = Calling
              /\ Cardinality(Running') = Cardinality(Running) - 1
<1>0. pc'[w] = v /\ \A x \in Worker \ {w} : pc'[x] = pc[x]
  BY Zenon DEF TypeOK
<1>1. ASSUME pc[w] = "idle", v = "call"
      PROVE  /\ Cardinality(Active') = Cardinality(Active) + 1
             /\ Cardinality(Calling') = Cardinality(Calling) + 1
             /\ Running' = Running
  <2>1. Active' = Active \cup {w} /\ w \notin Active
    BY Zenon, <1>0, <1>1 DEF Active
  <2>2. Calling' = Calling \cup {w} /\ w \notin Calling
    BY Zenon, <1>0, <1>1 DEF Calling
  <2>3. Running' = Running
    BY Zenon, <1>0, <1>1 DEF Running
  <2> QED
    BY Zenon, <2>1, <2>2, <2>3, Finite, FS_AddElement
<1>2. ASSUME pc[w] = "call", v \in {"run", "log"}
      PROVE  /\ Active' = Active
             /\ Cardinality(Calling') = Cardinality(Calling) - 1
             /\ Cardinality(Running') = Cardinality(Running) + 1
  <2>1. Active' = Active
    BY Zenon, <1>0, <1>2 DEF Active
  <2>2. Calling' = Calling \ {w} /\ w \in Calling
    BY Zenon, <1>0, <1>2 DEF Calling
  <2>3. Running' = Running \cup {w} /\ w \notin Running
    BY Zenon, <1>0, <1>2 DEF Running
  <2>4. Cardinality(Calling') = Cardinality(Calling) - 1
    BY Zenon, <2>2, Finite, FS_RemoveElement
  <2>5. Cardinality(Running') = Cardinality(Running) + 1
    BY Zenon, <2>3, Finite, FS_AddElement
  <2> QED
    BY Zenon, <2>1, <2>4, <2>5
<1>3. ASSUME pc[w] = "run", v = "log"
      PROVE  Active' = Active /\ Calling' = Calling /\ Running' = Running
  BY Zenon, <1>0, <1>3 DEF Active, Calling, Running
<1>4. ASSUME pc[w] = "log", v = "idle"
      PROVE  /\ Cardinality(Active') = Cardinality(Active) - 1
             /\ Calling' = Calling
             /\ Cardinality(Running') = Cardinality(Running) - 1
  <2>1. Active' = Active \ {w} /\ w \in Active
    BY Zenon, <1>0, <1>4 DEF Active
  <2>2. Running' = Running \ {w} /\ w \in Running
    BY Zenon, <1>0, <1>4 DEF Running
  <2>3. Calling' = Calling
    BY Zenon, <1>0, <1>4 DEF Calling
  <2> QED
    BY Zenon, <2>1, <2>2, <2>3, Finite, FS_RemoveElement
<1> QED
  BY Zenon, <1>1, <1>2, <1>3, <1>4

\* What the move of a drop does to the set of drops in progress.
LEMMA DropMoves ==
  ASSUME TypeOK, NEW d \in Dropper, NEW v, drop_pc' = [drop_pc EXCEPT ![d] = v]
  PROVE  /\ drop_pc[d] = "idle" /\ v \in {"check", "base"} =>
              Cardinality(Dropping') = Cardinality(Dropping) + 1
         /\ drop_pc[d] \in {"check", "base"} /\ v \in {"check", "base", "titan"} =>
              Dropping' = Dropping
         /\ drop_pc[d] \in {"base", "titan"} /\ v \in {"done", "undone", "failed"} =>
              Cardinality(Dropping') = Cardinality(Dropping) - 1
<1>0. drop_pc'[d] = v /\ \A x \in Dropper \ {d} : drop_pc'[x] = drop_pc[x]
  BY Zenon DEF TypeOK
<1>1. ASSUME drop_pc[d] = "idle", v \in {"check", "base"}
      PROVE  Cardinality(Dropping') = Cardinality(Dropping) + 1
  <2>1. Dropping' = Dropping \cup {d} /\ d \notin Dropping
    BY Zenon, <1>0, <1>1 DEF Dropping
  <2> QED
    BY Zenon, <2>1, Finite, FS_AddElement
<1>2. ASSUME drop_pc[d] \in {"check", "base"}, v \in {"check", "base", "titan"}
      PROVE  Dropping' = Dropping
  BY Zenon, <1>0, <1>2 DEF Dropping
<1>3. ASSUME drop_pc[d] \in {"base", "titan"}, v \in {"done", "undone", "failed"}
      PROVE  Cardinality(Dropping') = Cardinality(Dropping) - 1
  <2>1. Dropping' = Dropping \ {d} /\ d \in Dropping
    BY Zenon, <1>0, <1>3 DEF Dropping
  <2> QED
    BY Zenon, <2>1, Finite, FS_RemoveElement
<1> QED
  BY Zenon, <1>1, <1>2, <1>3

\* MaybeScheduleGC moves n entries to the pool, none after Close has begun, and
\* as many as fit otherwise.
LEMMA Schedules ==
  ASSUME NEW u \in Nat, NEW s \in Nat, s <= MaxBackgroundGC, pool \in Nat,
         shuting_down \in BOOLEAN, MaybeScheduleGC(u, s)
  PROVE  \E n \in Nat : /\ n <= u
                        /\ unscheduled_gc' = u - n
                        /\ bg_gc_scheduled' = s + n
                        /\ pool' = pool + n
                        /\ shuting_down => n = 0
                        /\ s + n <= MaxBackgroundGC
                        /\ ~shuting_down /\ u - n > 0 => s + n = MaxBackgroundGC
<1> DEFINE room == IF shuting_down \/ s >= MaxBackgroundGC THEN 0
                   ELSE MaxBackgroundGC - s
           m == IF u < room THEN u ELSE room
<1>1. MaxBackgroundGC \in Nat
  BY Zenon, SchedulerAssumption
<1>2. room \in Nat
  BY <1>1
<1>3. /\ unscheduled_gc' = u - m /\ bg_gc_scheduled' = s + m
      /\ pool' = pool + m
  BY Zenon DEF MaybeScheduleGC
<1>4. m \in Nat /\ m <= u /\ m <= room
  BY <1>2
<1>5. shuting_down => m = 0
  BY <1>4
<1>6. s + m <= MaxBackgroundGC
  BY <1>1, <1>4
<1>7. ~shuting_down /\ u - m > 0 => s + m = MaxBackgroundGC
  BY <1>1
<1> HIDE DEF m
<1> QED
  BY Zenon, <1>3, <1>4, <1>5, <1>6, <1>7

\* Threads that do not move stay in their sets.
LEMMA NoMoves ==
  /\ UNCHANGED pc => /\ Running' = Running
                     /\ Active' = Active
                     /\ Calling' = Calling
  /\ UNCHANGED drop_pc => Dropping' = Dropping
BY Zenon DEF Running, Active, Calling, Dropping

\* The invariant holds initially.
LEMMA InvInit == Init => IInv
<1> SUFFICES ASSUME Init PROVE IInv
  BY Zenon
<1>1. Running = {} /\ Active = {} /\ Calling = {} /\ Dropping = {}
  BY Zenon DEF Init, Running, Active, Calling, Dropping
<1>2. Cardinality({}) = 0
  BY Zenon, FS_EmptySet
<1>3. TypeOK
  <2>1. gc_queue \in Seq(ColumnFamily) /\ added \in 0..MaxAdded
    BY SchedulerAssumption DEF Init
  <2>2. /\ pc \in [Worker -> {"idle", "call", "run", "log"}]
        /\ job_cf \in [Worker -> ColumnFamily]
        /\ drop_pc \in [Dropper ->
                         {"idle", "check", "base", "titan", "done", "undone",
                          "failed"}]
    BY Zenon, SchedulerAssumption DEF Init
  <2> QED
    BY Zenon, <2>1, <2>2 DEF Init, TypeOK
<1>4. CountersOK
  BY <1>1, <1>2 DEF Init, CountersOK
<1>5. CloseOK /\ DroppedOK
  BY Zenon DEF Init, CloseOK, DroppedOK
<1>6. QueueAccounting
  BY <1>1, <1>2 DEF Init, QueueAccounting
<1>7. NoGCDuringDrop /\ GCLimit
  BY <1>1, SchedulerAssumption DEF Init, NoGCDuringDrop, GCLimit
<1>8. GCOnLiveColumnFamily
  BY Zenon DEF Init, GCOnLiveColumnFamily
<1> QED
  BY Zenon, <1>3, <1>4, <1>5, <1>6, <1>7, <1>8 DEF IInv

\* A compaction adds to the queue.
LEMMA InvCompaction ==
  ASSUME IInv, NEW cf \in ColumnFamily, OnCompactionCompleted(cf)
  PROVE  IInv'
<1>1. PICK n \in Nat : /\ n <= unscheduled_gc + 1
                       /\ unscheduled_gc' = unscheduled_gc + 1 - n
                       /\ bg_gc_scheduled' = bg_gc_scheduled + n
                       /\ pool' = pool + n
                       /\ shuting_down => n = 0
                       /\ bg_gc_scheduled + n <= MaxBackgroundGC
                       /\ ~shuting_down /\ unscheduled_gc + 1 - n > 0
                            => bg_gc_scheduled + n = MaxBackgroundGC
  BY Schedules DEF OnCompactionCompleted, IInv, TypeOK, GCLimit
<1>2. /\ Running' = Running /\ Active' = Active /\ Calling' = Calling
      /\ Dropping' = Dropping
  BY Zenon, NoMoves DEF OnCompactionCompleted, workVars, dropVars
<1>3. Len(gc_queue') = Len(gc_queue) + 1 /\ gc_queue' \in Seq(ColumnFamily)
  BY DEF OnCompactionCompleted, IInv, TypeOK
<1>4. TypeOK'
  BY <1>1, <1>3, SchedulerAssumption
     DEF OnCompactionCompleted, IInv, TypeOK, workVars, dropVars,
         closeVars, cfVars
<1>5. CountersOK'
  <2>1. /\ bg_gc_running' = bg_gc_running
        /\ drop_cf_requests' = drop_cf_requests
        /\ gc_unscheduled' = gc_unscheduled
    BY Zenon DEF OnCompactionCompleted, workVars, dropVars, closeVars
  <2>2. /\ bg_gc_scheduled = pool + Cardinality(Active) + gc_unscheduled
        /\ pool \in Nat /\ gc_unscheduled \in Nat /\ Cardinality(Active) \in Nat
    BY Zenon, Finite DEF IInv, TypeOK, CountersOK
  <2>3. bg_gc_scheduled' = pool' + Cardinality(Active) + gc_unscheduled
    BY <1>1, <2>2
  <2> QED
    BY Zenon, <1>2, <2>1, <2>3 DEF IInv, CountersOK
<1>6. CloseOK'
  BY <1>1 DEF OnCompactionCompleted, IInv, TypeOK, CloseOK, closeVars
<1>7. NoGCDuringDrop'
  BY Zenon, <1>2 DEF OnCompactionCompleted, IInv, NoGCDuringDrop, dropVars
<1>8. QueueAccounting'
  <2>1. shuting_down' = shuting_down
    BY Zenon DEF OnCompactionCompleted, closeVars
  <2>2. /\ ~shuting_down =>
             Len(gc_queue) = unscheduled_gc + pool + Cardinality(Calling)
        /\ unscheduled_gc \in Nat /\ pool \in Nat /\ Cardinality(Calling) \in Nat
    BY Zenon, Finite DEF IInv, TypeOK, QueueAccounting
  <2>3. ~shuting_down =>
          Len(gc_queue') = unscheduled_gc' + pool' + Cardinality(Calling)
    BY <1>1, <1>3, <2>2
  <2> QED
    BY Zenon, <1>2, <2>1, <2>3 DEF QueueAccounting
<1>9. GCLimit'
  BY Zenon, <1>1, SchedulerAssumption
     DEF OnCompactionCompleted, IInv, TypeOK, GCLimit, closeVars
<1>10. (DroppedOK => DroppedOK') /\ (GCOnLiveColumnFamily => GCOnLiveColumnFamily')
  BY Zenon DEF OnCompactionCompleted, DroppedOK, GCOnLiveColumnFamily,
               DropUndone, dropVars, cfVars, workVars
<1> QED
  BY Zenon, <1>4, <1>5, <1>6, <1>7, <1>8, <1>9, <1>10 DEF IInv

\* A pool thread takes a task.
LEMMA InvTake ==
  ASSUME IInv, NEW w \in Worker, BGWorkGC(w)
  PROVE  IInv'
<1>1. /\ Cardinality(Active') = Cardinality(Active) + 1
      /\ Cardinality(Calling') = Cardinality(Calling) + 1
      /\ Running' = Running
  BY Zenon, WorkerMoves DEF BGWorkGC, IInv
<1>2. Dropping' = Dropping
  BY Zenon, NoMoves DEF BGWorkGC, dropVars
<1>3. TypeOK'
  BY DEF BGWorkGC, IInv, TypeOK, dropVars, closeVars, cfVars
<1>4. /\ pool \in Nat /\ gc_unscheduled \in Nat /\ unscheduled_gc \in Nat
      /\ Cardinality(Active) \in Nat /\ Cardinality(Calling) \in Nat
  BY Zenon, Finite DEF IInv, TypeOK
<1>5. /\ pool' = pool - 1
      /\ UNCHANGED <<bg_gc_running, drop_cf_requests, bg_gc_scheduled,
                     gc_unscheduled, gc_queue, unscheduled_gc, shuting_down>>
  BY Zenon DEF BGWorkGC, dropVars, closeVars
<1>6. CountersOK'
  <2>1. pool' + Cardinality(Active') + gc_unscheduled' =
          pool + Cardinality(Active) + gc_unscheduled
    BY <1>1, <1>4, <1>5
  <2> QED
    BY Zenon, <1>1, <1>2, <1>5, <2>1 DEF IInv, CountersOK
<1>7. CloseOK'
  BY DEF BGWorkGC, IInv, TypeOK, CloseOK, closeVars
<1>8. NoGCDuringDrop'
  BY Zenon, <1>1 DEF BGWorkGC, IInv, NoGCDuringDrop, dropVars
<1>9. QueueAccounting'
  <2>1. unscheduled_gc' + pool' + Cardinality(Calling') =
          unscheduled_gc + pool + Cardinality(Calling)
    BY <1>1, <1>4, <1>5
  <2> QED
    BY Zenon, <1>5, <2>1 DEF IInv, QueueAccounting
<1>10. GCLimit'
  BY Zenon, <1>1 DEF BGWorkGC, IInv, GCLimit, closeVars
<1>11. (DroppedOK => DroppedOK') /\ (GCOnLiveColumnFamily => GCOnLiveColumnFamily')
  BY DEF BGWorkGC, IInv, TypeOK, DroppedOK, GCOnLiveColumnFamily, DropUndone,
         dropVars, cfVars
<1> QED
  BY Zenon, <1>3, <1>6, <1>7, <1>8, <1>9, <1>10, <1>11 DEF IInv

\* A worker waits, the handle of a dropped column family is destroyed, or its
\* storage goes.
LEMMA InvWait ==
  ASSUME IInv,
         \/ \E w \in Worker : WaitForDrops(w)
         \/ \E cf \in ColumnFamily :
              DestroyColumnFamilyHandle(cf) \/ PurgeColumnFamily(cf)
  PROVE  IInv'
<1>1. /\ UNCHANGED <<queueVars, workVars, dropVars, closeVars, base_dropped,
                     files_obsolete>>
      /\ bg_cv' \subseteq Worker \cup Dropper \cup {Closer}
      /\ obsolete_columns' \subseteq ColumnFamily
      /\ column_families' \subseteq ColumnFamily
  BY Zenon DEF IInv, TypeOK, WaitForDrops, DestroyColumnFamilyHandle,
               PurgeColumnFamily,
         cfVars
<1>2. /\ Running' = Running /\ Active' = Active /\ Calling' = Calling
      /\ Dropping' = Dropping
  BY Zenon, <1>1, NoMoves DEF workVars, dropVars
<1>3. TypeOK'
  BY Zenon, <1>1 DEF IInv, TypeOK, queueVars, workVars, dropVars, closeVars
<1>4. CountersOK' /\ CloseOK' /\ QueueAccounting' /\ GCLimit'
  BY Zenon, <1>1, <1>2 DEF IInv, CountersOK, CloseOK, QueueAccounting, GCLimit,
                    queueVars, workVars, dropVars, closeVars
<1>5. NoGCDuringDrop'
  BY Zenon, <1>1, <1>2 DEF IInv, NoGCDuringDrop, dropVars
<1>6. (DroppedOK => DroppedOK') /\ (GCOnLiveColumnFamily => GCOnLiveColumnFamily')
  BY Zenon, <1>1
     DEF DroppedOK, GCOnLiveColumnFamily, DropUndone, dropVars, workVars
<1> QED
  BY Zenon, <1>3, <1>4, <1>5, <1>6 DEF IInv

\* The numbers the invariant relates.
Numbers ==
  /\ bg_gc_running = Cardinality(Running)
  /\ Cardinality(Dropping) <= drop_cf_requests
  /\ bg_gc_scheduled = pool + Cardinality(Active) + gc_unscheduled
  /\ ~shuting_down =>
       Len(gc_queue) = unscheduled_gc + pool + Cardinality(Calling)
  /\ bg_gc_scheduled <= MaxBackgroundGC
  /\ pool \in Nat /\ unscheduled_gc \in Nat /\ bg_gc_scheduled \in Nat
  /\ bg_gc_running \in Nat /\ drop_cf_requests \in Nat
  /\ gc_unscheduled \in Nat /\ MaxBackgroundGC \in Nat
  /\ Len(gc_queue) \in Nat
  /\ Cardinality(Running) \in Nat /\ Cardinality(Active) \in Nat
  /\ Cardinality(Calling) \in Nat /\ Cardinality(Dropping) \in Nat

\* The invariant gives them.
LEMMA Counts == IInv => Numbers
BY Finite, SchedulerAssumption
   DEF IInv, TypeOK, CountersOK, QueueAccounting, GCLimit, Numbers

\* A GC job starts.
LEMMA InvStart ==
  ASSUME IInv, NEW w \in Worker, StartGC(w)
  PROVE  IInv'
<1>0. Numbers
  BY Zenon, Counts
<1>1. PICK v \in {"run", "log"} :
        /\ pc' = [pc EXCEPT ![w] = v]
        /\ v = "run" => Head(gc_queue) \notin files_obsolete
  BY Zenon DEF StartGC, MayPick
<1>2. /\ Active' = Active
      /\ Cardinality(Calling') = Cardinality(Calling) - 1
      /\ Cardinality(Running') = Cardinality(Running) + 1
  BY Zenon, <1>1, WorkerMoves DEF StartGC, IInv
<1>3. Dropping' = Dropping /\ Dropping = {}
  <2>1. drop_cf_requests = 0
    BY DEF StartGC, DropPending, IInv, TypeOK
  <2>2. Cardinality(Dropping) = 0
    BY <2>1, <1>0 DEF Numbers
  <2> QED
    BY Zenon, <2>2, Finite, FS_EmptySet, NoMoves DEF StartGC, dropVars
<1>4. /\ Len(gc_queue') = Len(gc_queue) - 1
      /\ gc_queue' \in Seq(ColumnFamily)
      /\ Head(gc_queue) \in ColumnFamily
      /\ Len(gc_queue) \in Nat
  BY DEF StartGC, IInv, TypeOK
<1>5. w \in Running'
  BY Zenon, <1>1 DEF IInv, TypeOK, Running
<1>6. TypeOK'
  BY <1>1, <1>4 DEF StartGC, IInv, TypeOK, dropVars, closeVars, cfVars
<1>7. CountersOK'
  <2>1. /\ bg_gc_running' = Cardinality(Running')
        /\ bg_gc_scheduled' = pool' + Cardinality(Active') + gc_unscheduled'
    BY Zenon, <1>2, <1>0 DEF StartGC, closeVars, Numbers
  <2>2. Cardinality(Dropping') <= drop_cf_requests'
    BY Zenon, <1>3, <1>0 DEF StartGC, dropVars, Numbers
  <2> QED
    BY Zenon, <2>1, <2>2 DEF CountersOK
<1>8. CloseOK'
  BY Zenon DEF StartGC, IInv, CloseOK, closeVars
<1>9. NoGCDuringDrop'
  BY Zenon, <1>3 DEF NoGCDuringDrop, Dropping
<1>10. QueueAccounting'
  <2>1. UNCHANGED <<shuting_down, unscheduled_gc, pool>>
    BY Zenon DEF StartGC, closeVars
  <2>2. /\ ~shuting_down =>
             Len(gc_queue) = unscheduled_gc + pool + Cardinality(Calling)
        /\ unscheduled_gc \in Nat /\ pool \in Nat /\ Cardinality(Calling) \in Nat
    BY Zenon, <1>0 DEF Numbers
  <2>3. ~shuting_down =>
          Len(gc_queue') = unscheduled_gc + pool + Cardinality(Calling')
    BY <1>2, <1>4, <2>2
  <2> QED
    BY Zenon, <2>1, <2>3 DEF QueueAccounting
<1>11. GCLimit'
  BY Zenon, <1>5 DEF StartGC, IInv, GCLimit, closeVars
<1>12. DroppedOK => DroppedOK'
  BY Zenon DEF StartGC, DroppedOK, dropVars, cfVars
<1>13. ASSUME DroppedOK, GCOnLiveColumnFamily PROVE GCOnLiveColumnFamily'
  <2>1. \A cf \in base_dropped : cf \in files_obsolete \/ DropUndone(cf)
    BY Zenon, <1>3, <1>13 DEF DroppedOK, Dropping, DropUndone
  <2>2. job_cf'[w] = Head(gc_queue) /\ base_dropped' = base_dropped
    BY Zenon DEF StartGC, IInv, TypeOK, cfVars
  <2>3. ASSUME NEW x \in Worker, pc'[x] = "run"
        PROVE  job_cf'[x] \notin base_dropped' \/ DropUndone(job_cf'[x])
    <3>1. CASE x = w
      BY Zenon, <1>1, <2>1, <2>2, <2>3, <3>1 DEF IInv, TypeOK
    <3>2. CASE x # w
      BY Zenon, <1>1, <1>13, <2>2, <2>3, <3>2
         DEF StartGC, IInv, TypeOK, GCOnLiveColumnFamily
    <3> QED
      BY Zenon, <3>1, <3>2
  <2>4. \A cf : DropUndone(cf) => DropUndone(cf)'
    BY Zenon DEF StartGC, dropVars, DropUndone
  <2> QED
    BY Zenon, <2>3, <2>4 DEF GCOnLiveColumnFamily, DropUndone, StartGC, dropVars
<1> QED
  BY Zenon, <1>6, <1>7, <1>8, <1>9, <1>10, <1>11, <1>12, <1>13 DEF IInv

\* A GC job ends.
LEMMA InvFinish ==
  ASSUME IInv, NEW w \in Worker, FinishGC(w)
  PROVE  IInv'
<1>0. Numbers
  BY Zenon, Counts
<1>1. /\ Active' = Active
      /\ Calling' = Calling
      /\ Running' = Running
  BY Zenon, WorkerMoves DEF FinishGC, IInv
<1>2. Dropping' = Dropping
  BY Zenon, NoMoves DEF FinishGC, dropVars
<1>3. PICK n \in {0, 1} :
        /\ added' = added + n /\ added' \in 0..MaxAdded
        /\ unscheduled_gc' = unscheduled_gc + n
        /\ Len(gc_queue') = Len(gc_queue) + n
        /\ gc_queue' \in Seq(ColumnFamily)
        /\ Len(gc_queue) \in Nat
  <2>1. CASE UNCHANGED <<gc_queue, unscheduled_gc, added>>
    BY <2>1 DEF IInv, TypeOK
  <2>2. CASE /\ added < MaxAdded
             /\ added' = added + 1
             /\ gc_queue' = Append(gc_queue, job_cf[w])
             /\ unscheduled_gc' = unscheduled_gc + 1
    BY <2>2, SchedulerAssumption DEF IInv, TypeOK
  <2> QED
    BY Zenon, <2>1, <2>2 DEF FinishGC
<1>4. w \in Running
  BY Zenon DEF FinishGC, Running
<1>5. TypeOK'
  BY <1>3 DEF FinishGC, IInv, TypeOK, dropVars, closeVars, cfVars
<1>6. CountersOK'
  BY Zenon, <1>1, <1>2 DEF FinishGC, IInv, CountersOK, dropVars, closeVars
<1>7. CloseOK'
  BY Zenon DEF FinishGC, IInv, CloseOK, closeVars
<1>8. NoGCDuringDrop'
  BY Zenon, <1>1 DEF FinishGC, IInv, NoGCDuringDrop, dropVars
<1>9. QueueAccounting'
  <2>1. UNCHANGED <<shuting_down, pool>>
    BY Zenon DEF FinishGC, closeVars
  <2>2. /\ ~shuting_down =>
             Len(gc_queue) = unscheduled_gc + pool + Cardinality(Calling)
        /\ unscheduled_gc \in Nat /\ pool \in Nat /\ Cardinality(Calling) \in Nat
    BY Zenon, <1>0 DEF Numbers
  <2>3. ~shuting_down =>
          Len(gc_queue') = unscheduled_gc' + pool + Cardinality(Calling)
    BY <1>3, <2>2
  <2> QED
    BY Zenon, <1>1, <2>1, <2>3 DEF QueueAccounting
<1>10. GCLimit'
  BY Zenon, <1>1, <1>4 DEF FinishGC, IInv, GCLimit, closeVars
<1>11. (DroppedOK => DroppedOK') /\ (GCOnLiveColumnFamily => GCOnLiveColumnFamily')
  BY DEF FinishGC, IInv, TypeOK, DroppedOK, GCOnLiveColumnFamily, DropUndone,
         dropVars, cfVars
<1> QED
  BY Zenon, <1>5, <1>6, <1>7, <1>8, <1>9, <1>10, <1>11 DEF IInv

\* A GC task gives its counters back.
LEMMA InvEnd ==
  ASSUME IInv, NEW w \in Worker, EndGC(w)
  PROVE  IInv'
<1>0. Numbers
  BY Zenon, Counts
<1>1. /\ Cardinality(Active') = Cardinality(Active) - 1
      /\ Calling' = Calling
      /\ Cardinality(Running') = Cardinality(Running) - 1
  BY Zenon, WorkerMoves DEF EndGC, IInv
<1>2. Dropping' = Dropping
  BY Zenon, NoMoves DEF EndGC, dropVars
<1>3. Cardinality(Active') \in Nat /\ Cardinality(Running') \in Nat
  <2>1. Active' \in SUBSET Worker /\ Running' \in SUBSET Worker
    BY Zenon DEF Active, Running
  <2> QED
    BY Zenon, <2>1, SchedulerAssumption, FS_Subset, FS_CardinalityType
<1>4. bg_gc_scheduled - 1 \in Nat /\ bg_gc_running - 1 \in Nat
  <2>1. /\ bg_gc_scheduled = pool + Cardinality(Active) + gc_unscheduled
        /\ pool \in Nat /\ gc_unscheduled \in Nat /\ Cardinality(Active) \in Nat
    BY Zenon, <1>0 DEF Numbers
  <2>2. bg_gc_running = Cardinality(Running) /\ Cardinality(Running) \in Nat
    BY Zenon, <1>0 DEF Numbers
  <2>3. Cardinality(Active) - 1 \in Nat /\ Cardinality(Running) - 1 \in Nat
    BY Zenon, <1>1, <1>3
  <2>4. bg_gc_scheduled - 1 \in Nat
    BY <2>1, <2>3
  <2>5. bg_gc_running - 1 \in Nat
    BY Zenon, <2>2, <2>3
  <2> QED
    BY Zenon, <2>4, <2>5
<1>5. PICK n \in Nat : /\ n <= unscheduled_gc
                       /\ unscheduled_gc' = unscheduled_gc - n
                       /\ bg_gc_scheduled' = (bg_gc_scheduled - 1) + n
                       /\ pool' = pool + n
                       /\ shuting_down => n = 0
                       /\ (bg_gc_scheduled - 1) + n <= MaxBackgroundGC
                       /\ ~shuting_down /\ unscheduled_gc - n > 0
                            => (bg_gc_scheduled - 1) + n = MaxBackgroundGC
  <2>1. bg_gc_scheduled - 1 <= MaxBackgroundGC
    BY <1>0 DEF Numbers
  <2>2. /\ unscheduled_gc \in Nat /\ pool \in Nat /\ shuting_down \in BOOLEAN
        /\ MaybeScheduleGC(unscheduled_gc, bg_gc_scheduled - 1)
    BY Zenon DEF EndGC, IInv, TypeOK
  <2> QED
    BY Zenon, <1>4, <2>1, <2>2, Schedules
<1>6. UNCHANGED <<shuting_down, gc_unscheduled, close_pc, drop_cf_requests, gc_queue>>
  BY Zenon DEF EndGC, closeVars, dropVars
<1>7. TypeOK'
  <2>1. /\ unscheduled_gc' \in Nat /\ bg_gc_scheduled' \in Nat /\ pool' \in Nat
    <3>1. unscheduled_gc \in Nat /\ pool \in Nat
      BY Zenon, <1>0 DEF Numbers
    <3> QED
      BY <1>4, <1>5, <3>1
  <2>2. bg_gc_running' \in Nat
    BY Zenon, <1>4 DEF EndGC
  <2>3. bg_cv' \subseteq Worker \cup Dropper \cup {Closer}
    BY Zenon DEF EndGC, IInv, TypeOK
  <2>4. pc' \in [Worker -> {"idle", "call", "run", "log"}]
    BY Zenon DEF EndGC, IInv, TypeOK
  <2> QED
    BY Zenon, <2>1, <2>2, <2>3, <2>4
       DEF EndGC, IInv, TypeOK, dropVars, closeVars, cfVars
<1>8. CountersOK'
  <2>1. bg_gc_running' = Cardinality(Running')
    BY Zenon, <1>1, <1>0 DEF EndGC, Numbers
  <2>2. bg_gc_scheduled' = pool' + Cardinality(Active') + gc_unscheduled
    <3>1. /\ bg_gc_scheduled = pool + Cardinality(Active) + gc_unscheduled
          /\ pool \in Nat /\ gc_unscheduled \in Nat /\ Cardinality(Active) \in Nat
      BY Zenon, <1>0 DEF Numbers
    <3> QED
      BY <1>1, <1>5, <3>1
  <2> QED
    BY Zenon, <1>2, <1>6, <2>1, <2>2, <1>0 DEF CountersOK, Numbers
<1>9. CloseOK'
  <2>1. shuting_down => pool' = pool /\ bg_gc_scheduled' = bg_gc_scheduled - 1
    BY <1>5, <1>0 DEF Numbers
  <2>2. close_pc # "closed"
    BY <1>4, <1>0 DEF IInv, CloseOK, Numbers
  <2> QED
    BY Zenon, <1>6, <2>1, <2>2 DEF IInv, CloseOK
<1>10. NoGCDuringDrop'
  <2>1. w \in Running
    BY Zenon DEF EndGC, Running
  <2> QED
    BY Zenon, <2>1 DEF EndGC, IInv, NoGCDuringDrop, dropVars
<1>11. QueueAccounting'
  <2>1. ~shuting_down =>
          Len(gc_queue) = unscheduled_gc' + pool' + Cardinality(Calling)
    BY <1>5, <1>0 DEF Numbers
  <2> QED
    BY Zenon, <1>1, <1>6, <2>1 DEF QueueAccounting
<1>12. GCLimit'
  BY Zenon, <1>5, <1>6 DEF GCLimit
<1>13. (DroppedOK => DroppedOK') /\ (GCOnLiveColumnFamily => GCOnLiveColumnFamily')
  BY DEF EndGC, IInv, TypeOK, DroppedOK, GCOnLiveColumnFamily, DropUndone,
         dropVars, cfVars
<1> QED
  BY Zenon, <1>7, <1>8, <1>9, <1>10, <1>11, <1>12, <1>13 DEF IInv

\* A drop tests whether a GC job runs, on entry or when it was signaled.
LEMMA InvTest ==
  ASSUME IInv, NEW d \in Dropper, DropColumnFamilies(d) \/ WaitForGC(d)
  PROVE  IInv'
<1>0. Numbers
  BY Zenon, Counts
<1>1. /\ TestGCRunning(d)
      /\ drop_pc[d] \in {"idle", "check"}
      /\ drop_cf_requests' = IF drop_pc[d] = "idle" THEN drop_cf_requests + 1
                                                    ELSE drop_cf_requests
      /\ UNCHANGED <<queueVars, workVars, drop_cf, closeVars, cfVars>>
  BY Zenon DEF DropColumnFamilies, WaitForGC
<1>2. PICK v \in {"check", "base"} :
        /\ drop_pc' = [drop_pc EXCEPT ![d] = v]
        /\ v = "base" => bg_gc_running = 0
        /\ bg_cv' \subseteq Worker \cup Dropper \cup {Closer}
  <2>1. bg_cv \subseteq Worker \cup Dropper \cup {Closer}
    BY Zenon DEF IInv, TypeOK
  <2>2. CASE bg_gc_running > 0
    BY Zenon, <1>1, <2>1, <2>2 DEF TestGCRunning
  <2>3. CASE ~(bg_gc_running > 0)
    <3>1. bg_gc_running = 0
      BY <1>0, <2>3 DEF Numbers
    <3> QED
      BY Zenon, <1>1, <2>1, <2>3, <3>1 DEF TestGCRunning
  <2> QED
    BY Zenon, <2>2, <2>3
<1>3. /\ Running' = Running /\ Active' = Active /\ Calling' = Calling
  BY Zenon, <1>1, NoMoves DEF workVars
<1>4. Cardinality(Dropping') <= drop_cf_requests'
  <2>1. CASE drop_pc[d] = "idle"
    <3>1. Cardinality(Dropping') = Cardinality(Dropping) + 1
      BY Zenon, <1>2, <2>1, DropMoves DEF IInv
    <3>2. /\ Cardinality(Dropping) <= drop_cf_requests
          /\ Cardinality(Dropping) \in Nat /\ drop_cf_requests \in Nat
      BY Zenon, <1>0 DEF Numbers
    <3> QED
      BY <1>1, <2>1, <3>1, <3>2
  <2>2. CASE drop_pc[d] = "check"
    BY Zenon, <1>1, <1>2, <2>2, DropMoves, <1>0 DEF IInv, Numbers
  <2> QED
    BY Zenon, <1>1, <2>1, <2>2
<1>5. TypeOK'
  BY <1>1, <1>2 DEF IInv, TypeOK, queueVars, workVars, closeVars, cfVars
<1>6. CountersOK' /\ CloseOK' /\ QueueAccounting' /\ GCLimit'
  BY Zenon, <1>1, <1>3, <1>4
     DEF IInv, CountersOK, CloseOK, QueueAccounting, GCLimit,
                          queueVars, workVars, closeVars
<1>7. NoGCDuringDrop'
  <2>1. CASE bg_gc_running = 0
    <3>1. Cardinality(Running) = 0
      BY Zenon, <2>1, <1>0 DEF Numbers
    <3> QED
      BY Zenon, <1>3, <3>1, Finite, FS_EmptySet DEF NoGCDuringDrop
  <2>2. CASE v = "check"
    BY Zenon, <1>2, <1>3, <2>2 DEF IInv, TypeOK, NoGCDuringDrop
  <2> QED
    BY Zenon, <1>2, <2>1, <2>2
<1>8. (DroppedOK => DroppedOK') /\ (GCOnLiveColumnFamily => GCOnLiveColumnFamily')
  BY <1>1, <1>2 DEF IInv, TypeOK, DroppedOK, GCOnLiveColumnFamily, DropUndone,
                    workVars, cfVars
<1> QED
  BY Zenon, <1>5, <1>6, <1>7, <1>8 DEF IInv

\* The base DB drops the column family, or refuses to.
LEMMA InvBase ==
  ASSUME IInv, NEW d \in Dropper, BaseDropCF(d) \/ BaseDropCFFails(d)
  PROVE  IInv'
<1>0. Numbers
  BY Zenon, Counts
<1>1. /\ drop_pc[d] = "base"
      /\ UNCHANGED <<queueVars, workVars, drop_cf, drop_cf_requests, closeVars,
                     files_obsolete, obsolete_columns, column_families, bg_cv>>
  BY Zenon DEF BaseDropCF, BaseDropCFFails, cfVars
<1>2. PICK v \in {"titan", "failed"} :
        /\ drop_pc' = [drop_pc EXCEPT ![d] = v]
        /\ base_dropped' = IF v = "titan" THEN base_dropped \cup {drop_cf[d]}
                                          ELSE base_dropped
  BY Zenon DEF BaseDropCF, BaseDropCFFails, cfVars
<1>3. Running' = Running /\ Active' = Active /\ Calling' = Calling
  BY Zenon, <1>1, NoMoves DEF workVars
<1>4. Cardinality(Dropping') <= drop_cf_requests'
  <2>1. /\ Cardinality(Dropping) <= drop_cf_requests
        /\ Cardinality(Dropping) \in Nat /\ drop_cf_requests \in Nat
    BY Zenon, <1>0 DEF Numbers
  <2>2. \/ Dropping' = Dropping
        \/ Cardinality(Dropping') = Cardinality(Dropping) - 1
    BY Zenon, <1>1, <1>2, DropMoves DEF IInv
  <2> QED
    BY <1>1, <2>1, <2>2
<1>5. Running = {}
  BY Zenon, <1>1 DEF IInv, NoGCDuringDrop
<1>6. TypeOK'
  <2>1. base_dropped' \subseteq ColumnFamily
    BY Zenon, <1>2 DEF IInv, TypeOK
  <2> QED
    BY Zenon, <1>1, <1>2, <2>1 DEF IInv, TypeOK, queueVars, workVars, closeVars
<1>7. CountersOK' /\ CloseOK' /\ QueueAccounting' /\ GCLimit'
  BY Zenon, <1>1, <1>3, <1>4
     DEF IInv, CountersOK, CloseOK, QueueAccounting, GCLimit,
                          queueVars, workVars, closeVars
<1>8. NoGCDuringDrop'
  BY Zenon, <1>3, <1>5 DEF NoGCDuringDrop
<1>9. GCOnLiveColumnFamily'
  BY Zenon, <1>3, <1>5 DEF GCOnLiveColumnFamily, Running
<1>10. ASSUME DroppedOK PROVE DroppedOK'
  <2> SUFFICES ASSUME NEW cf \in base_dropped', cf \notin files_obsolete
               PROVE  \E e \in Dropper : /\ drop_pc'[e] \in {"titan", "undone"}
                                         /\ drop_cf[e] = cf
    BY Zenon, <1>1 DEF DroppedOK
  <2>1. CASE cf \in base_dropped
    <3>1. PICK e \in Dropper : drop_pc[e] \in {"titan", "undone"} /\ drop_cf[e] = cf
      BY Zenon, <1>10, <2>1 DEF DroppedOK
    <3>2. drop_pc'[e] = drop_pc[e]
      BY Zenon, <1>1, <1>2, <3>1 DEF IInv, TypeOK
    <3> QED
      BY Zenon, <3>1, <3>2
  <2>2. CASE cf \notin base_dropped
    <3>1. v = "titan" /\ cf = drop_cf[d]
      BY Zenon, <1>2, <2>2
    <3>2. drop_pc'[d] = "titan"
      BY Zenon, <1>2, <3>1 DEF IInv, TypeOK
    <3> QED
      BY Zenon, <3>1, <3>2
  <2> QED
    BY Zenon, <2>1, <2>2
<1> QED
  BY Zenon, <1>6, <1>7, <1>8, <1>9, <1>10 DEF IInv

\* Titan drops the column family, or its manifest write fails.
LEMMA InvTitan ==
  ASSUME IInv, NEW d \in Dropper, TitanDropCF(d) \/ TitanDropCFFails(d)
  PROVE  IInv'
<1>0. Numbers
  BY Zenon, Counts
<1>1. PICK v \in {"done", "undone"} :
        /\ EndDrop(d, v)
        /\ v = "done" => files_obsolete' = files_obsolete \cup {drop_cf[d]}
        /\ v = "undone" => files_obsolete' = files_obsolete
  BY Zenon DEF TitanDropCF, TitanDropCFFails
<1>2. /\ drop_pc[d] = "titan"
      /\ drop_pc' = [drop_pc EXCEPT ![d] = v]
      /\ drop_cf_requests' = drop_cf_requests - 1
      /\ UNCHANGED <<queueVars, workVars, drop_cf, closeVars, base_dropped,
                     column_families>>
  BY Zenon, <1>1 DEF EndDrop
<1>3. Running' = Running /\ Active' = Active /\ Calling' = Calling
  BY Zenon, <1>2, NoMoves DEF workVars
<1>4. Cardinality(Dropping') <= drop_cf_requests' /\ drop_cf_requests' \in Nat
  <2>1. /\ Cardinality(Dropping) <= drop_cf_requests
        /\ Cardinality(Dropping) \in Nat /\ drop_cf_requests \in Nat
    BY Zenon, <1>0 DEF Numbers
  <2>2. Cardinality(Dropping') = Cardinality(Dropping) - 1
    BY Zenon, <1>2, DropMoves DEF IInv
  <2>3. Cardinality(Dropping') \in Nat
    <3>1. Dropping' \in SUBSET Dropper
      BY Zenon DEF Dropping
    <3> QED
      BY Zenon, <3>1, SchedulerAssumption, FS_Subset, FS_CardinalityType
  <2> QED
    BY <1>2, <2>1, <2>2, <2>3
<1>5. TypeOK'
  <2>1. bg_cv' \subseteq Worker \cup Dropper \cup {Closer}
    BY Zenon, <1>1 DEF EndDrop, IInv, TypeOK
  <2>2. files_obsolete' \subseteq ColumnFamily /\ obsolete_columns' \subseteq ColumnFamily
    BY Zenon DEF TitanDropCF, TitanDropCFFails, IInv, TypeOK
  <2> QED
    BY Zenon, <1>2, <1>4, <2>1, <2>2
       DEF IInv, TypeOK, queueVars, workVars, closeVars
<1>6. CountersOK' /\ CloseOK' /\ QueueAccounting' /\ GCLimit'
  BY Zenon, <1>2, <1>3, <1>4
     DEF IInv, CountersOK, CloseOK, QueueAccounting, GCLimit,
                          queueVars, workVars, closeVars
<1>7. NoGCDuringDrop'
  BY Zenon, <1>2, <1>3 DEF IInv, NoGCDuringDrop
<1>8. GCOnLiveColumnFamily'
  <2>1. Running = {}
    BY Zenon, <1>2 DEF IInv, NoGCDuringDrop
  <2> QED
    BY Zenon, <1>3, <2>1 DEF GCOnLiveColumnFamily, Running
<1>9. DroppedOK'
  <2> SUFFICES ASSUME NEW cf \in base_dropped, cf \notin files_obsolete'
               PROVE  \E e \in Dropper : /\ drop_pc'[e] \in {"titan", "undone"}
                                         /\ drop_cf[e] = cf
    BY Zenon, <1>2 DEF DroppedOK
  <2>1. PICK e \in Dropper : drop_pc[e] \in {"titan", "undone"} /\ drop_cf[e] = cf
    BY Zenon, <1>1 DEF IInv, DroppedOK
  <2>2. CASE e = d
    BY Zenon, <1>1, <1>2, <2>1, <2>2 DEF IInv, TypeOK
  <2>3. CASE e # d
    BY Zenon, <1>2, <2>1, <2>3 DEF IInv, TypeOK
  <2> QED
    BY Zenon, <2>2, <2>3
<1> QED
  BY Zenon, <1>5, <1>6, <1>7, <1>8, <1>9 DEF IInv

\* Close begins, takes tasks back, and waits.
LEMMA InvClose ==
  ASSUME IInv, Close \/ CloseImpl
  PROVE  IInv'
<1>0. Numbers
  BY Zenon, Counts
<1>1. UNCHANGED <<gc_queue, unscheduled_gc, added, workVars, dropVars, cfVars>>
  BY Zenon DEF Close, CloseImpl, UnSchedule, Subtract, CheckScheduled, queueVars
<1>2. /\ Running' = Running /\ Active' = Active /\ Calling' = Calling
      /\ Dropping' = Dropping
  BY Zenon, <1>1, NoMoves DEF workVars, dropVars
<1>3. /\ shuting_down' = TRUE
      /\ CloseOK'
      /\ pool' \in Nat /\ bg_gc_scheduled' \in Nat /\ gc_unscheduled' \in Nat
      /\ bg_gc_scheduled' <= MaxBackgroundGC
      /\ bg_gc_scheduled' = pool' + Cardinality(Active) + gc_unscheduled'
      /\ close_pc' \in {"open", "unschedule", "subtract", "check", "closed"}
      /\ bg_cv' \subseteq Worker \cup Dropper \cup {Closer}
  <2>1. /\ bg_gc_scheduled = pool + Cardinality(Active) + gc_unscheduled
        /\ pool \in Nat /\ gc_unscheduled \in Nat /\ Cardinality(Active) \in Nat
        /\ bg_gc_scheduled \in Nat
        /\ bg_gc_scheduled <= MaxBackgroundGC /\ MaxBackgroundGC \in Nat
    BY Zenon, <1>0 DEF Numbers
  <2>2. /\ CloseOK /\ shuting_down \in BOOLEAN
        /\ bg_cv \subseteq Worker \cup Dropper \cup {Closer}
    BY Zenon DEF IInv, TypeOK
  <2>3. CASE Close
    BY Zenon, <2>1, <2>2, <2>3 DEF Close, CloseOK, queueVars
  <2>4. CASE UnSchedule
    BY <2>1, <2>2, <2>4 DEF UnSchedule, CloseOK
  <2>5. CASE Subtract
    <3>1. /\ pool = 0 /\ shuting_down
          /\ pool' = pool /\ shuting_down' = shuting_down
          /\ gc_unscheduled' = 0
          /\ bg_gc_scheduled' = bg_gc_scheduled - gc_unscheduled
          /\ close_pc' = IF bg_gc_scheduled' > 0 THEN "check" ELSE "closed"
      BY Zenon, <2>2, <2>5 DEF Subtract, CloseOK
    <3>2. bg_gc_scheduled' = Cardinality(Active)
      BY <2>1, <3>1
    <3>3. bg_gc_scheduled' <= MaxBackgroundGC
      BY <2>1, <3>2
    <3>4. CloseOK'
      BY <2>1, <3>1, <3>2 DEF CloseOK
    <3>5. bg_cv' \subseteq Worker \cup Dropper \cup {Closer}
      BY Zenon, <2>2, <2>5 DEF Subtract
    <3> QED
      BY <2>1, <3>1, <3>2, <3>3, <3>4, <3>5
  <2>6. CASE CheckScheduled
    <3>1. CloseOK'
      BY <2>1, <2>2, <2>6 DEF CheckScheduled, CloseOK, queueVars
    <3>2. bg_cv' \subseteq Worker \cup Dropper \cup {Closer}
      BY Zenon, <2>2, <2>6 DEF CheckScheduled
    <3> QED
      BY Zenon, <2>1, <2>2, <2>6, <3>1, <3>2
         DEF CheckScheduled, CloseOK, queueVars
  <2> QED
    BY Zenon, <2>3, <2>4, <2>5, <2>6 DEF CloseImpl
<1>4. TypeOK'
  BY Zenon, <1>1, <1>3 DEF IInv, TypeOK, workVars, dropVars, cfVars
<1>5. CountersOK'
  BY Zenon, <1>1, <1>2, <1>3 DEF IInv, CountersOK, workVars, dropVars
<1>6. NoGCDuringDrop'
  BY Zenon, <1>1, <1>2 DEF IInv, NoGCDuringDrop, dropVars
<1>7. QueueAccounting' /\ GCLimit'
  BY Zenon, <1>3 DEF QueueAccounting, GCLimit
<1>8. (DroppedOK => DroppedOK') /\ (GCOnLiveColumnFamily => GCOnLiveColumnFamily')
  BY Zenon, <1>1
     DEF DroppedOK, GCOnLiveColumnFamily, DropUndone, dropVars, cfVars, workVars
<1> QED
  BY Zenon, <1>3, <1>4, <1>5, <1>6, <1>7, <1>8 DEF IInv

\* Every step preserves the invariant.
LEMMA InvStep == IInv /\ [Next]_vars => IInv'
<1> SUFFICES ASSUME IInv, [Next]_vars PROVE IInv'
  BY Zenon
<1>1. ASSUME NEW cf \in ColumnFamily, OnCompactionCompleted(cf) PROVE IInv'
  BY Zenon, <1>1, InvCompaction
<1>2. ASSUME NEW cf \in ColumnFamily,
             DestroyColumnFamilyHandle(cf) \/ PurgeColumnFamily(cf)
      PROVE  IInv'
  BY Zenon, <1>2, InvWait
<1>3. ASSUME NEW w \in Worker, BGWorkGC(w) \/ BackgroundCallGC(w) PROVE IInv'
  BY Zenon, <1>3, InvTake, InvWait, InvStart, InvFinish, InvEnd
     DEF BackgroundCallGC
<1>4. ASSUME NEW d \in Dropper, DropColumnFamilies(d) \/ Drop(d) PROVE IInv'
  BY Zenon, <1>4, InvTest, InvBase, InvTitan DEF Drop
<1>5. CASE Close \/ CloseImpl
  BY Zenon, <1>5, InvClose
<1>6. CASE UNCHANGED vars
  <2>1. /\ Running' = Running /\ Active' = Active /\ Calling' = Calling
        /\ Dropping' = Dropping
    BY Zenon, <1>6, NoMoves DEF vars, workVars, dropVars
  <2>2. /\ TypeOK' /\ CountersOK' /\ CloseOK' /\ QueueAccounting' /\ GCLimit'
        /\ NoGCDuringDrop'
    BY Zenon, <1>6, <2>1
       DEF IInv, TypeOK, CountersOK, CloseOK, QueueAccounting, GCLimit,
                      NoGCDuringDrop, vars, queueVars, workVars, dropVars, closeVars,
                      cfVars
  <2>3. (DroppedOK => DroppedOK') /\ (GCOnLiveColumnFamily => GCOnLiveColumnFamily')
    BY Zenon, <1>6 DEF DroppedOK, GCOnLiveColumnFamily, DropUndone, vars,
                       dropVars, cfVars, workVars
  <2> QED
    BY Zenon, <2>2, <2>3 DEF IInv
<1> QED
  BY Zenon, <1>1, <1>2, <1>3, <1>4, <1>5, <1>6 DEF Next

-----------------------------------------------------------------------------
\* The counters of TitanDBImpl count what they are meant to count, whatever the
\* number of threads and whichever fault happens.
THEOREM InvCorrect == Spec => []IInv
BY InvInit, InvStep, PTL DEF Spec

\* The unsigned counters of TitanDBImpl never go below zero and every thread is
\* at one of the points its function has.
THEOREM TypeCorrect == Spec => []TypeOK
<1>1. IInv => TypeOK
  BY Zenon DEF IInv
<1> QED
  BY <1>1, InvCorrect, PTL

\* GC jobs and drops of column families exclude each other: the two wait loops
\* on bg_cv_ in BackgroundCallGC and DropColumnFamilies.
THEOREM DropExcludesGC == Spec => []NoGCDuringDrop
<1>1. IInv => NoGCDuringDrop
  BY Zenon DEF IInv
<1> QED
  BY <1>1, InvCorrect, PTL

\* No queued column family is forgotten, and a task that starts finds one: the
\* counting of AddToGCQueue, MaybeScheduleGC and PopFirstFromGCQueue.
THEOREM QueueAccounted == Spec => []QueueAccounting
<1>1. IInv => QueueAccounting
  BY Zenon DEF IInv
<1> QED
  BY <1>1, InvCorrect, PTL

\* At most max_background_gc jobs are scheduled, and no fewer than that when
\* work is left over (MaybeScheduleGC).
THEOREM JobsLimited == Spec => []GCLimit
<1>1. IInv => GCLimit
  BY Zenon DEF IInv
<1> QED
  BY <1>1, InvCorrect, PTL

\* No GC task survives CloseImpl.
THEOREM CloseStopsGC == Spec => []NoGCAfterClose
<1>1. ASSUME IInv PROVE NoGCAfterClose
  <2> SUFFICES ASSUME close_pc = "closed" PROVE pool = 0 /\ Active = {}
    BY Zenon DEF NoGCAfterClose
  <2>1. bg_gc_scheduled = 0
    BY Zenon, <1>1 DEF IInv, CloseOK
  <2>2. /\ bg_gc_scheduled = pool + Cardinality(Active) + gc_unscheduled
        /\ pool \in Nat /\ gc_unscheduled \in Nat /\ Cardinality(Active) \in Nat
    BY Zenon, <1>1, Counts DEF Numbers
  <2>3. pool = 0 /\ Cardinality(Active) = 0
    BY <2>1, <2>2
  <2> QED
    BY Zenon, <2>3, Finite, FS_EmptySet
<1> QED
  BY <1>1, InvCorrect, PTL

\* A GC job runs only for a column family the base DB still has, unless Titan's
\* part of its drop failed: what the assertion in BackgroundGC needs.
THEOREM GCColumnFamilyLive == Spec => []GCOnLiveColumnFamily
<1>1. IInv => GCOnLiveColumnFamily
  BY Zenon DEF IInv
<1> QED
  BY <1>1, InvCorrect, PTL

=============================================================================
