-------------------------------- MODULE Bus --------------------------------
(***************************************************************************)
(* What the actors of the message bus share: the master's slots, counters  *)
(* and lists, the two message queues of every IPC thread, and the three    *)
(* pipes of every worker process.  The actors are in WorkerProc, IpcThread *)
(* and MainLoop; WorkerBus composes them.                                  *)
(*                                                                         *)
(* A message queue is a bounded sequence: module MsgQueue shows that the   *)
(* ring buffer with its eventfd is one.  A pipe is a bounded sequence of   *)
(* whole messages: module Framing shows how far the bytes in it make one.  *)
(***************************************************************************)
EXTENDS Integers, Sequences, FiniteSets, SequencesExt

CONSTANTS
  NumWorkers,   \* slots of the worker pool
  Paths,        \* names in the tree
  Root,         \* cfg.target_path
  Listing,      \* a directory's batches: directory -> Seq(Seq(Paths))
  QueueCap,     \* capacity of a command or return queue (1024)
  PipeCap,      \* messages a pipe holds
  EagainMax,    \* retries of a SCAN on a full pipe (10)
  PoolThreads,  \* cfg.master_threads
  PoolCap,      \* TP_QUEUE_CAPACITY (256)
  MaxInc,       \* bound of the model: incarnations of a slot's worker
  FaultSets,    \* bound of the model: the faults of a behaviour, each at most once
  None          \* no path, no batch

Slots == 0 .. NumWorkers - 1
Dirs == DOMAIN Listing

ASSUME SizeAssumption ==
  /\ NumWorkers \in Nat \ {0} /\ QueueCap \in Nat \ {0, 1}
  /\ PipeCap \in Nat \ {0}    /\ EagainMax \in Nat
  /\ PoolThreads \in Nat \ {0} /\ PoolCap \in Nat
  /\ MaxInc \in Nat \ {0}

ASSUME FaultAssumption ==
  FaultSets \subseteq SUBSET {"quit", "stuck", "crash", "silence", "nospawn"}

\* scan_and_send sends at least one batch, if only an empty one.
ASSUME TreeAssumption ==
  /\ None \notin Paths /\ None \notin Seq(Paths \cup {None})
  /\ Root \in Dirs /\ Dirs \subseteq Paths
  /\ \A d \in Dirs : Listing[d] \in Seq(Seq(Paths)) /\ Listing[d] # <<>>

VARIABLES
  \* The master's main thread.
  mpc,             \* phase of main_loop_run
  cur,             \* slot its phase is at
  batch,           \* rest of the batch process_completed_batch works on
  slot,            \* ctx->worker_pool->slots
  spawned,         \* per slot, the incarnations spawned so far
  activeCount,     \* worker_pool->active_count
  pendingTasks,    \* ctx->pending_tasks
  pendingBatches,  \* ctx->pending_batches
  lost,            \* ctx->lost_tasks
  nextDispatch,    \* ctx->next_dispatch_worker
  emitted,         \* output records handed to the async writer, per path
  \* The thread pool of the master.
  poolQ, working, completed, visited,
  \* The IPC threads.
  cmdQ, retQ,      \* per slot, its command and return queue
  ipc,             \* per slot, its thread's state
  shut,            \* workers whose three pipe ends the master closed
  \* The worker processes.
  worker, cmdPipe, dataPipe, ctrlPipe,
  faults           \* the faults that can still happen

masterVars == <<mpc, cur, batch, slot, spawned, activeCount, pendingTasks,
                pendingBatches, lost, nextDispatch, emitted>>
poolVars == <<poolQ, working, completed, visited>>
ipcVars == <<ipc, shut>>
workerVars == <<worker, cmdPipe, dataPipe, ctrlPipe>>
vars == <<masterVars, poolVars, cmdQ, retQ, ipcVars, workerVars, faults>>

-----------------------------------------------------------------------------
\* A worker process is the n-th incarnation of a slot; NoPid is pid -1.
NoPid == 0
Workers == Slots \X (1 .. MaxInc)

Msg(t, a) == [type |-> t, arg |-> a]

\* msg_queue_send: false and no change when the queue is full.
Send(q, m) == IF Len(q) < QueueCap THEN Append(q, m) ELSE q

\* The first message of a queue or pipe has type t.
HeadIs(q, t) == q # <<>> /\ Head(q).type = t

\* How many messages of type t a queue or pipe holds.
Count(t, q) == Cardinality({i \in DOMAIN q : q[i].type = t})

\* A process that was not started yet, or is gone.
NoProcess == [up |-> FALSE, ready |-> FALSE, stop |-> FALSE, exited |-> FALSE,
              mail |-> None, task |-> None, sent |-> 0]

\* A process as worker_pool_spawn starts it.
NewProcess == [NoProcess EXCEPT !.up = TRUE]

\* A slot as worker_pool_spawn fills it.
NewSlot(n) == [alive |-> TRUE, pid |-> n, state |-> "INITIALIZING",
               path |-> None, cleanupDone |-> FALSE]

\* Processes end, whatever they were doing.  What one left in fd_data and
\* fd_ctrl cannot be read any more: every reader looks for HUP first.
DieAll(gone) ==
  /\ worker' = [w \in Workers |-> IF w \in gone THEN NoProcess ELSE worker[w]]
  /\ dataPipe' = [w \in Workers |-> IF w \in gone THEN <<>> ELSE dataPipe[w]]
  /\ ctrlPipe' = [w \in Workers |-> IF w \in gone THEN <<>> ELSE ctrlPipe[w]]

Die(w) == DieAll({w})

\* Something outside the program goes wrong.
Fault(kind) == kind \in faults /\ faults' = faults \ {kind}
=============================================================================
