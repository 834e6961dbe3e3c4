---------------------------- MODULE ThreadPool ----------------------------
(***************************************************************************)
(* The pool of threads that look batches up for the master                 *)
(* (src/scan/thread_pool.c): a bounded queue under a mutex with a          *)
(* condition variable, a list of completed batches under a mutex of its    *)
(* own, and an eventfd.  A batch is the pointer that goes through them;    *)
(* what process_fn does with it is left to the module that extends this    *)
(* one.                                                                    *)
(*                                                                         *)
(* The ring buffer is a sequence.  What a thread does with queue_mutex     *)
(* held is one step, except that a thread which is about to wait is        *)
(* "testing": it still holds the mutex, and stop can be set without it.    *)
(***************************************************************************)
EXTENDS Integers, Sequences, FiniteSets

CONSTANTS
  Batch,       \* the batches
  NoBatch,     \* no batch
  NumThreads,  \* num_threads
  Capacity     \* TP_QUEUE_CAPACITY (256)

Threads == 1 .. NumThreads

ASSUME ThreadAssumption == NumThreads \in Nat \ {0}
ASSUME CapacityAssumption == Capacity \in Nat
ASSUME BatchAssumption == NoBatch \notin Batch

VARIABLES
  queue,      \* the work queue
  pc,         \* where each thread is
  hand,       \* the batch it took
  completed,  \* completed_head .. completed_tail
  event,      \* the counter of event_fd is not 0
  stop,       \* tp->stop
  born,       \* threads created so far
  owner       \* where the owner is with the pool

threadVars == <<pc, hand, born>>
tpVars == <<queue, threadVars, completed, event, stop, owner>>

Places == {"unborn", "looking", "testing", "asleep", "working", "notifying", "ended"}

\* calloc, and an eventfd that nothing was written to.
NewPool ==
  /\ queue = <<>> /\ completed = <<>>
  /\ pc = [t \in Threads |-> "unborn"] /\ hand = [t \in Threads |-> NoBatch]
  /\ event = FALSE /\ stop = FALSE /\ born = 0 /\ owner = "creating"

Asleep == {t \in Threads : pc[t] = "asleep"}
MutexFree == \A t \in Threads : pc[t] # "testing"

Goes(t, place) == pc' = [pc EXCEPT ![t] = place]

\* pthread_cond_signal wakes one of those asleep, broadcast all of them.
Signal ==
  \/ Asleep = {} /\ UNCHANGED pc
  \/ \E t \in Asleep : Goes(t, "looking")
Broadcast == pc' = [t \in Threads |-> IF t \in Asleep THEN "looking" ELSE pc[t]]

(***************************************************************************)
(* worker_thread                                                           *)
(***************************************************************************)
Take(t) ==
  /\ pc[t] = "looking" /\ MutexFree /\ queue # <<>>
  /\ hand' = [hand EXCEPT ![t] = Head(queue)]
  /\ queue' = Tail(queue)
  /\ Goes(t, "working")
  /\ UNCHANGED <<completed, event, stop, born, owner>>

Test(t) ==
  /\ pc[t] = "looking" /\ MutexFree /\ queue = <<>>
  /\ Goes(t, IF stop THEN "ended" ELSE "testing")
  /\ UNCHANGED <<queue, hand, completed, event, stop, born, owner>>

\* pthread_cond_wait lets go of the mutex, and may return for no reason.
FallAsleep(t) ==
  /\ pc[t] = "testing" /\ Goes(t, "asleep")
  /\ UNCHANGED <<queue, hand, completed, event, stop, born, owner>>

Wake(t) ==
  /\ pc[t] = "asleep" /\ Goes(t, "looking")
  /\ UNCHANGED <<queue, hand, completed, event, stop, born, owner>>

\* process_fn returned.  (A thread that finds no memory for the node would
\* lose its batch: left out, as everywhere.)
Complete(t) ==
  /\ pc[t] = "working"
  /\ completed' = Append(completed, hand[t])
  /\ hand' = [hand EXCEPT ![t] = NoBatch]
  /\ Goes(t, "notifying")
  /\ UNCHANGED <<queue, event, stop, born, owner>>

Notify(t) ==
  /\ pc[t] = "notifying" /\ event' = TRUE
  /\ Goes(t, "looking")
  /\ UNCHANGED <<queue, hand, completed, stop, born, owner>>

(***************************************************************************)
(* The owner: thread_pool_create                                           *)
(***************************************************************************)
CreateThread ==
  /\ owner = "creating"
  /\ born' = born + 1 /\ Goes(born', "looking")
  /\ owner' = IF born' = NumThreads THEN "open" ELSE "creating"
  /\ UNCHANGED <<queue, hand, completed, event, stop>>

\* No further thread: those there are told to stop, without the mutex.
CreateFails ==
  /\ owner = "creating" /\ owner' = "failing"
  /\ stop' = TRUE /\ Broadcast
  /\ UNCHANGED <<queue, hand, completed, event, born>>

(***************************************************************************)
(* thread_pool_submit, thread_pool_poll_completed, thread_pool_destroy     *)
(***************************************************************************)
HasRoom == Len(queue) < Capacity

\* MUTANT: nobody is told that there is work.
SubmitQuietly(b) ==
  /\ owner = "open" /\ MutexFree /\ HasRoom
  /\ queue' = Append(queue, b)
  /\ UNCHANGED <<threadVars, completed, event, stop, owner>>

Submit(b) ==
  /\ owner = "open" /\ MutexFree /\ HasRoom
  /\ queue' = Append(queue, b) /\ Signal
  /\ UNCHANGED <<hand, completed, event, stop, born, owner>>

\* The queue is full: the caller keeps the batch.
Refuse ==
  /\ owner = "open" /\ MutexFree /\ ~HasRoom
  /\ UNCHANGED tpVars

Poll ==
  /\ owner = "open" /\ completed # <<>>
  /\ completed' = Tail(completed)
  /\ UNCHANGED <<queue, threadVars, event, stop, owner>>

\* read(event_fd): the counter is 0 again.
ReadEvent ==
  /\ owner = "open" /\ event /\ event' = FALSE
  /\ UNCHANGED <<queue, threadVars, completed, stop, owner>>

\* MUTANT: one thread is woken up to end, not all.
DestroyOne ==
  /\ owner = "open" /\ MutexFree
  /\ stop' = TRUE /\ Signal /\ owner' = "closing"
  /\ UNCHANGED <<queue, hand, completed, event, born>>

Destroy ==
  /\ owner = "open" /\ MutexFree
  /\ stop' = TRUE /\ Broadcast /\ owner' = "closing"
  /\ UNCHANGED <<queue, hand, completed, event, born>>

\* Every pthread_join returned; what is left in the list is freed.
Joined ==
  /\ owner \in {"failing", "closing"}
  /\ \A t \in Threads : pc[t] \in {"unborn", "ended"}
  /\ owner' = "gone" /\ completed' = <<>>
  /\ UNCHANGED <<queue, threadVars, event, stop>>

ThreadStep(t) ==
  Take(t) \/ Test(t) \/ FallAsleep(t) \/ Wake(t) \/ Complete(t) \/ Notify(t)

OwnerStep ==
  \/ CreateThread \/ CreateFails \/ (\E b \in Batch : Submit(b)) \/ Refuse
  \/ Poll \/ ReadEvent \/ Destroy \/ Joined

TpNext == OwnerStep \/ \E t \in Threads : ThreadStep(t)

TpSpec == NewPool /\ [][TpNext]_tpVars

-----------------------------------------------------------------------------
(* What TLAPS proves of every pool: module PipelineProofs.   *)

TpTypeOK ==
  /\ queue \in Seq(Batch) /\ completed \in Seq(Batch)
  /\ pc \in [Threads -> Places] /\ hand \in [Threads -> Batch \cup {NoBatch}]
  /\ event \in BOOLEAN /\ stop \in BOOLEAN
  /\ born \in 0 .. NumThreads
  /\ owner \in {"creating", "open", "failing", "closing", "gone"}

\* The pool never sleeps over a batch: while one is queued a thread is on its
\* way to the queue (worker_thread, thread_pool_submit).
PoolAwake ==
  queue # <<>> => \E t \in Threads : pc[t] \in {"looking", "working", "notifying"}

\* A pool that is being destroyed has nobody who sleeps, or is about to, so
\* that every thread sees the stop (thread_pool_destroy).
StopIsHeard ==
  owner = "closing" => stop /\ \A t \in Threads : pc[t] \notin {"asleep", "testing"}

\* The pool is what the bus takes it for.
Pool == INSTANCE WorkPool
=============================================================================
