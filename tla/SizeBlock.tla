------------------------------ MODULE SizeBlock ------------------------------
(***************************************************************************)
(* block_write_size: TitanDBImpl::Put waits on size_cv_ while              *)
(* block_for_size_ is set (src/src/db_impl.cc).  OnCompactionCompleted sets *)
(* and clears the flag under mutex_, BackgroundGC (src/src/db_impl_gc.cc)  *)
(* clears it under mutex_ and size_mutex_, CloseImpl under both.           *)
(*                                                                         *)
(* The size of the blob files is a small number: flushes raise it, GC and  *)
(* compactions lower it.                                                   *)
(***************************************************************************)
EXTENDS Naturals

CONSTANTS
  Writer,
  BlockWriteSize, MaxSize    \* block_write_size, and a bound on the size

VARIABLES
  pc,               \* of each Put
  total,            \* rocksdb.titandb.live-blob-file-size
  block_for_size,
  size_mutex,       \* its holder, or NoOne
  mutex,            \* "free", or who holds mutex_ between two steps
  gc_queued,        \* AddToGCQueue and MaybeScheduleGC have been called
  closed

vars == <<pc, total, block_for_size, size_mutex, mutex, gc_queued, closed>>

NoOne == "none"

Init ==
  /\ pc = [w \in Writer |-> "idle"] /\ total = 0 /\ block_for_size = FALSE
  /\ size_mutex = NoOne /\ mutex = "free" /\ gc_queued = FALSE /\ closed = FALSE

Goto(w, from, to) == pc[w] = from /\ pc' = [pc EXCEPT ![w] = to]

\* size_cv_.SignalAll
Woken == [w \in Writer |-> IF pc[w] = "waiting" THEN "woken" ELSE pc[w]]

-----------------------------------------------------------------------------
(* Put                                                                     *)

Put(w) ==
  /\ ~closed /\ Goto(w, "idle", "test")
  /\ UNCHANGED <<total, block_for_size, size_mutex, mutex, gc_queued, closed>>

\* The loop's condition; if it holds GC is asked for.
TestBlock(w) ==
  /\ IF block_for_size
       THEN Goto(w, "test", "lock") /\ gc_queued' = (gc_queued \/ ~closed)
       ELSE Goto(w, "test", "write") /\ UNCHANGED gc_queued
  /\ UNCHANGED <<total, block_for_size, size_mutex, mutex, closed>>

\* MutexLock l(&size_mutex_), and the second load of block_for_size_.
LockAndTest(w) ==
  /\ size_mutex = NoOne
  /\ IF block_for_size THEN Goto(w, "lock", "wait") /\ size_mutex' = w
                       ELSE Goto(w, "lock", "test") /\ UNCHANGED size_mutex
  /\ UNCHANGED <<total, block_for_size, mutex, gc_queued, closed>>

\* size_cv_.Wait gives size_mutex_ up and sleeps.
Wait(w) ==
  /\ Goto(w, "wait", "waiting") /\ size_mutex' = NoOne
  /\ UNCHANGED <<total, block_for_size, mutex, gc_queued, closed>>

\* Wait returns with size_mutex_, which the end of the loop's body gives up.
EndWait(w) ==
  /\ size_mutex = NoOne /\ Goto(w, "woken", "test")
  /\ UNCHANGED <<total, block_for_size, size_mutex, mutex, gc_queued, closed>>

\* The write to the base DB, whose flush may raise the size.
Write(w) ==
  /\ Goto(w, "write", "idle")
  /\ total' \in {total, total + 1} /\ total' <= MaxSize
  /\ UNCHANGED <<block_for_size, size_mutex, mutex, gc_queued, closed>>

-----------------------------------------------------------------------------
(* OnCompactionCompleted, BackgroundGC and CloseImpl                       *)

\* OnCompactionCompleted holds mutex_ from its test to the signal, and does not
\* take size_mutex_.
OnCompactionCompleted ==
  /\ mutex = "free"
  /\ \E size \in 0..total :
       /\ total' = size
       /\ IF size > BlockWriteSize
            THEN block_for_size' = TRUE /\ UNCHANGED mutex
            ELSE /\ block_for_size' = FALSE
                 /\ mutex' = IF block_for_size THEN "signal" ELSE "free"
  /\ UNCHANGED <<pc, size_mutex, gc_queued, closed>>

SignalAll ==
  /\ mutex = "signal" /\ mutex' = "free" /\ pc' = Woken
  /\ UNCHANGED <<total, block_for_size, size_mutex, gc_queued, closed>>

\* A GC job that found something to do; it keeps mutex_ for the next step if
\* it is to clear the flag, and asks for another job if it does not.
BackgroundGC ==
  /\ gc_queued /\ mutex = "free"
  /\ total' \in 0..total
  /\ IF block_for_size /\ total' < BlockWriteSize
       THEN mutex' = "gc" /\ gc_queued' = FALSE
       ELSE mutex' = "free" /\ gc_queued' = (block_for_size /\ ~closed)
  /\ UNCHANGED <<pc, block_for_size, size_mutex, closed>>

\* "Titan GC nothing to do"
NothingToDo ==
  /\ gc_queued /\ mutex = "free" /\ gc_queued' = FALSE
  /\ UNCHANGED <<pc, total, block_for_size, size_mutex, mutex, closed>>

ClearBlock ==
  /\ mutex = "gc" /\ size_mutex = NoOne /\ mutex' = "free"
  /\ block_for_size' = FALSE /\ pc' = Woken
  /\ UNCHANGED <<total, size_mutex, gc_queued, closed>>

\* Mutant: size_mutex_ is not taken.
CloseImplUnlocked ==
  /\ ~closed /\ mutex = "free"
  /\ closed' = TRUE /\ block_for_size' = FALSE /\ pc' = Woken
  /\ gc_queued' \in {gc_queued, FALSE}     \* a job that runs ends by itself
  /\ UNCHANGED <<total, size_mutex, mutex>>

CloseImpl ==
  /\ ~closed /\ mutex = "free" /\ size_mutex = NoOne
  /\ closed' = TRUE /\ block_for_size' = FALSE /\ pc' = Woken
  /\ gc_queued' \in {gc_queued, FALSE}     \* a job that runs ends by itself
  /\ UNCHANGED <<total, size_mutex, mutex>>

Next ==
  \/ \E w \in Writer : \/ Put(w) \/ TestBlock(w) \/ LockAndTest(w)
                       \/ Wait(w) \/ EndWait(w) \/ Write(w)
  \/ OnCompactionCompleted \/ SignalAll
  \/ BackgroundGC \/ NothingToDo \/ ClearBlock \/ CloseImpl

Spec == Init /\ [][Next]_vars

\* A thread that is between two steps goes on.  Nothing says that a compaction
\* or a GC job comes, or that there is a Close.
FairSpec ==
  /\ Spec
  /\ \A w \in Writer : WF_vars(TestBlock(w) \/ LockAndTest(w) \/ Wait(w) \/ EndWait(w))
  /\ WF_vars(SignalAll) /\ WF_vars(ClearBlock)

-----------------------------------------------------------------------------
(* Properties                                                              *)

ClearStep ==
  /\ block_for_size /\ ~block_for_size'
  /\ mutex = "gc" \/ closed' # closed
  => \A w \in Writer : pc'[w] \notin {"wait", "waiting"}

\* GC and Close clear the flag only when no Put is between its test and its
\* wait: after either no Put sleeps on size_cv_ or is about to (size_mutex_).
ClearWakesAll == [][ClearStep]_vars

-----------------------------------------------------------------------------
(* What a comment of the code claims.                                      *)

\* A Put waits only because the blob files are too large: one that sleeps on
\* size_cv_ is woken once block_for_size_ is cleared.
WaitersWoken ==
  \A w \in Writer : (pc[w] = "waiting" /\ ~block_for_size) ~> pc[w] # "waiting"

=============================================================================
