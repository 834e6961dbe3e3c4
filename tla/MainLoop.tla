------------------------------ MODULE MainLoop ------------------------------
(***************************************************************************)
(* The master's main thread, main_loop_run (src/scan/main_loop.c), with    *)
(* what it calls: dispatch.c, lost_tasks.c, batch_processor.c and the      *)
(* thread pool (thread_pool.c).  A turn of the loop goes through the       *)
(* phases "recv" (return queues), "batch" (completed batches), "replace",  *)
(* "lost" and "check"; one step handles one message, one entry of a batch, *)
(* one slot or one lost task.  The devices are healthy and no historical   *)
(* progress is pumped.                                                     *)
(***************************************************************************)
EXTENDS Bus

ipcAndWorkers == <<ipcVars, worker, dataPipe, ctrlPipe, faults>>

MasterUp == mpc \notin {"done", "killed"}

Phase(p) == mpc = p /\ batch = None

\* The next slot of the phase, or the next phase.
NextSlot(phase) ==
  IF cur + 1 < NumWorkers THEN cur' = cur + 1 /\ mpc' = mpc
                          ELSE cur' = 0 /\ mpc' = phase

-----------------------------------------------------------------------------
(* dispatch.c *)

Idle(s) == slot[s].alive /\ slot[s].state = "IDLE"

\* dispatch_find_idle_worker: the round robin's k-th candidate, and whether it
\* is the one returned.  The counter is kept modulo the number of slots.
Candidate(k) == (nextDispatch + k) % NumWorkers
FirstIdle(k) == Idle(Candidate(k)) /\ \A j \in 0 .. k - 1 : ~Idle(Candidate(j))
NoneIdle == \A s \in Slots : ~Idle(s)

\* lost_tasks_init, lost_tasks_push and lost_tasks_pop: a queue.
LostInit == lost = <<>>
LostDestroyed == lost' = <<>>
Requeue(tasks, p) == Append(tasks, p)
Oldest(tasks) == Head(tasks)

\* send_scan_to_ipc succeeds: the slot is BUSY and the task is counted.
Dispatch(k, p) ==
  LET s == Candidate(k) IN
  /\ FirstIdle(k)
  /\ Len(cmdQ[s]) < QueueCap
  /\ nextDispatch' = Candidate(k + 1)
  /\ slot' = [slot EXCEPT ![s].state = "BUSY", ![s].path = p]
  /\ cmdQ' = [cmdQ EXCEPT ![s] = Append(@, Msg("SCAN", p))]
  /\ pendingTasks' = pendingTasks + 1

\* It fails: the slot is IDLE again and the count is back where it was.
DispatchFails(k) ==
  /\ FirstIdle(k)
  /\ Len(cmdQ[Candidate(k)]) >= QueueCap
  /\ nextDispatch' = Candidate(k + 1)
  /\ UNCHANGED <<cmdQ, pendingTasks>>

\* send_replace_to_ipc and send_stop_to_ipc: a full queue drops the command.
SendReplace(q, n) == Send(q, Msg("REPLACE", n))
SendStop(q) == Send(q, Msg("STOP", None))

\* MUTANT: the pid of a cleaned slot is left as it was.
CleanupKeepsPid(s, redispatch) ==
  IF ~slot[s].alive \/ slot[s].cleanupDone
  THEN UNCHANGED <<slot, cmdPipe, pendingTasks, lost, activeCount>>
  ELSE /\ pendingTasks' = pendingTasks - 1
       /\ activeCount' = activeCount - 1
       /\ slot' = [slot EXCEPT ![s].alive = FALSE, ![s].state = "DEAD",
                               ![s].cleanupDone = TRUE]
       /\ UNCHANGED <<cmdPipe, lost>>

\* cleanup_dead_worker_slot.
Cleanup(s, redispatch) ==
  LET w == <<s, slot[s].pid>>
      again == redispatch /\ slot[s].path # None
  IN IF slot[s].pid = NoPid \/ slot[s].cleanupDone
     THEN UNCHANGED <<slot, cmdPipe, pendingTasks, lost, activeCount>>
     ELSE /\ cmdPipe' = [cmdPipe EXCEPT ![w] = <<>>]
          /\ pendingTasks' = pendingTasks - (1 + Count("SCAN", cmdPipe[w]))
                               + (IF again THEN 1 ELSE 0)
          /\ lost' = IF again THEN Requeue(lost, slot[s].path) ELSE lost
          /\ activeCount' = IF slot[s].alive THEN activeCount - 1 ELSE activeCount
          /\ slot' = [slot EXCEPT ![s].alive = FALSE, ![s].pid = NoPid,
                                  ![s].state = "DEAD", ![s].cleanupDone = TRUE]

-----------------------------------------------------------------------------
(* handle_return_message *)

Receive(t) ==
  /\ Phase("recv")
  /\ HeadIs(retQ[cur], t)
  /\ retQ' = [retQ EXCEPT ![cur] = Tail(@)]
  /\ UNCHANGED <<mpc, cur, spawned, nextDispatch, emitted, working, completed,
                 cmdQ, ipcAndWorkers>>

\* MUTANT: the fingerprint set is never asked.
KeepAll(entries) == entries

\* batch_dedup_worker: fp_set_insert tells the entries seen before, in an earlier
\* batch or in this one; they are blanked, process_completed_batch skips them.
Dedup(entries) ==
  LET seen(i) == visited \cup {entries[j] : j \in 1 .. i - 1} IN
  [i \in DOMAIN entries |-> IF entries[i] \in seen(i) THEN None ELSE entries[i]]

\* MUTANT: every batch counts as a finished task.
RecvBatchCountsTask ==
  /\ Receive("BATCH")
  /\ Len(poolQ) < PoolCap
  /\ pendingBatches' = pendingBatches + 1
  /\ pendingTasks' = pendingTasks - 1
  /\ poolQ' = Append(poolQ, Head(retQ[cur]).arg)
  /\ UNCHANGED <<batch, visited, slot, activeCount, lost, cmdPipe>>

RecvBatch ==
  LET entries == Head(retQ[cur]).arg IN
  /\ Receive("BATCH")
  /\ pendingBatches' = pendingBatches + 1
  /\ IF Len(poolQ) < PoolCap
     THEN poolQ' = Append(poolQ, entries) /\ UNCHANGED <<batch, visited>>
     ELSE /\ batch' = Dedup(entries)
          /\ visited' = visited \cup ToSet(entries)
          /\ UNCHANGED poolQ
  /\ UNCHANGED <<slot, activeCount, pendingTasks, lost, cmdPipe>>

RecvReady ==
  /\ Receive("READY")
  /\ slot' = [slot EXCEPT ![cur].state = "IDLE"]
  /\ UNCHANGED <<batch, activeCount, pendingTasks, pendingBatches, lost,
                 poolQ, visited, cmdPipe>>

\* MUTANT: FINISH is not counted.
RecvFinishNotCounted ==
  /\ Receive("FINISH")
  /\ slot' = [slot EXCEPT ![cur].state = "IDLE"]
  /\ UNCHANGED <<batch, activeCount, pendingTasks, pendingBatches, lost,
                 poolQ, visited, cmdPipe>>

RecvFinish ==
  /\ Receive("FINISH")
  /\ pendingTasks' = pendingTasks - 1
  /\ slot' = [slot EXCEPT ![cur].state = "IDLE"]
  /\ UNCHANGED <<batch, activeCount, pendingBatches, lost, poolQ, visited, cmdPipe>>

\* A report about a live slot is taken for a stale one.
RecvDead ==
  /\ Receive("DEAD")
  /\ IF slot[cur].alive /\ slot[cur].pid # NoPid
     THEN UNCHANGED <<slot, cmdPipe, pendingTasks, lost, activeCount>>
     ELSE Cleanup(cur, TRUE)
  /\ UNCHANGED <<batch, pendingBatches, poolQ, visited>>

RecvDevTimeout ==
  /\ Receive("DEV_TIMEOUT")
  /\ Cleanup(cur, TRUE)
  /\ UNCHANGED <<batch, pendingBatches, poolQ, visited>>

\* main_loop_handle_exit: nobody scans the path of the slot again.
HandleExit(s) == Cleanup(s, FALSE)

RecvExit ==
  /\ Receive("EXIT")
  /\ HandleExit(cur)
  /\ UNCHANGED <<batch, pendingBatches, poolQ, visited>>

RecvDrop ==
  /\ Receive("DROP")
  /\ lost' = Requeue(lost, Head(retQ[cur]).arg)
  /\ UNCHANGED <<batch, slot, activeCount, pendingTasks, pendingBatches,
                 poolQ, visited, cmdPipe>>

RecvEnd ==
  /\ Phase("recv")
  /\ retQ[cur] = <<>>
  /\ NextSlot("batch")
  /\ UNCHANGED <<batch, slot, spawned, activeCount, pendingTasks, pendingBatches,
                 lost, nextDispatch, emitted, poolVars, cmdQ, retQ, cmdPipe, ipcAndWorkers>>

-----------------------------------------------------------------------------
(* The thread pool: at most PoolThreads batches are being worked on, and   *)
(* they may complete in any order.                                         *)

PoolTake ==
  /\ MasterUp
  /\ poolQ # <<>> /\ Len(working) < PoolThreads
  /\ poolQ' = Tail(poolQ)
  /\ working' = Append(working, Head(poolQ))
  /\ UNCHANGED <<masterVars, completed, visited, cmdQ, retQ, cmdPipe, ipcAndWorkers>>

PoolComplete(i) ==
  /\ MasterUp
  /\ i \in DOMAIN working
  /\ working' = RemoveAt(working, i)
  /\ completed' = Append(completed, Dedup(working[i]))
  /\ visited' = visited \cup ToSet(working[i])
  /\ UNCHANGED <<masterVars, poolQ, cmdQ, retQ, cmdPipe, ipcAndWorkers>>

-----------------------------------------------------------------------------
(* drain_completed_batches and process_completed_batch *)

PollBatch ==
  /\ Phase("batch")
  /\ completed # <<>>
  /\ batch' = Head(completed)
  /\ completed' = Tail(completed)
  /\ UNCHANGED <<mpc, cur, slot, spawned, activeCount, pendingTasks, pendingBatches,
                 lost, nextDispatch, emitted, poolQ, working, visited,
                 cmdQ, retQ, cmdPipe, ipcAndWorkers>>

PollEnd ==
  /\ Phase("batch")
  /\ completed = <<>>
  /\ mpc' = "replace"
  /\ UNCHANGED <<cur, batch, slot, spawned, activeCount, pendingTasks, pendingBatches,
                 lost, nextDispatch, emitted, poolVars, cmdQ, retQ, cmdPipe, ipcAndWorkers>>

\* The next entry of the batch.
Entry(p) ==
  /\ MasterUp
  /\ batch # None /\ batch # <<>>
  /\ p = Head(batch)
  /\ batch' = Tail(batch)
  /\ UNCHANGED <<mpc, cur, spawned, activeCount, pendingBatches, poolVars,
                 retQ, cmdPipe, ipcAndWorkers>>

\* A duplicate is skipped.
SkipEntry ==
  /\ Entry(None)
  /\ UNCHANGED <<slot, pendingTasks, lost, nextDispatch, emitted, cmdQ>>

Emit(p) == emitted' = [emitted EXCEPT ![p] = @ + 1]

FileEntry(p) ==
  /\ Entry(p) /\ p \notin Dirs
  /\ Emit(p)
  /\ UNCHANGED <<slot, pendingTasks, lost, nextDispatch, cmdQ>>

DirEntry(p) ==
  /\ Entry(p) /\ p \in Dirs
  /\ Emit(p)
  /\ \E k \in 0 .. NumWorkers - 1 :
       \/ Dispatch(k, p)
       \/ DispatchFails(k) /\ slot' = [slot EXCEPT ![Candidate(k)].path = p]
  /\ UNCHANGED lost

\* Nobody is idle: the directory waits among the lost tasks, and the rest of
\* its handling is skipped.
DirEntryWaits(p) ==
  /\ Entry(p) /\ p \in Dirs
  /\ NoneIdle
  /\ lost' = Requeue(lost, p)
  /\ UNCHANGED <<slot, pendingTasks, nextDispatch, emitted, cmdQ>>

BatchEnd ==
  /\ MasterUp
  /\ batch = <<>>
  /\ batch' = None
  /\ pendingBatches' = pendingBatches - 1
  /\ UNCHANGED <<mpc, cur, slot, spawned, activeCount, pendingTasks, lost,
                 nextDispatch, emitted, poolVars, cmdQ, retQ, cmdPipe, ipcAndWorkers>>

-----------------------------------------------------------------------------
(* The rest of a turn *)

\* worker_pool_replace and send_replace_to_ipc: the slot is dead, so nothing
\* is killed and cleanup_dead_worker_slot returns at once.
Respawn ==
  /\ Phase("replace")
  /\ ~slot[cur].alive /\ slot[cur].pid = NoPid
  /\ spawned[cur] < MaxInc
  /\ LET n == spawned[cur] + 1 IN
       /\ spawned' = [spawned EXCEPT ![cur] = n]
       /\ slot' = [slot EXCEPT ![cur] = NewSlot(n)]
       /\ worker' = [worker EXCEPT ![<<cur, n>>] = NewProcess]
       /\ cmdQ' = [cmdQ EXCEPT ![cur] = SendReplace(@, n)]
  /\ activeCount' = activeCount + 1
  /\ NextSlot("lost")
  /\ UNCHANGED <<batch, pendingTasks, pendingBatches, lost, nextDispatch, emitted,
                 poolVars, retQ, ipcVars, cmdPipe, dataPipe, ctrlPipe, faults>>

\* No pipe or no process could be made: REPLACE goes out all the same, with
\* the fds and the pid that cleanup set to -1.
SpawnFails ==
  /\ Fault("nospawn")
  /\ Phase("replace")
  /\ ~slot[cur].alive /\ slot[cur].pid = NoPid
  /\ cmdQ' = [cmdQ EXCEPT ![cur] = SendReplace(@, NoPid)]
  /\ NextSlot("lost")
  /\ UNCHANGED <<batch, slot, spawned, activeCount, pendingTasks, pendingBatches, lost,
                 nextDispatch, emitted, poolVars, retQ, ipcVars, workerVars>>

ReplaceNone ==
  /\ Phase("replace")
  /\ slot[cur].alive \/ slot[cur].pid # NoPid
  /\ NextSlot("lost")
  /\ UNCHANGED <<batch, slot, spawned, activeCount, pendingTasks, pendingBatches, lost,
                 nextDispatch, emitted, poolVars, cmdQ, retQ, cmdPipe, ipcAndWorkers>>

\* One turn of the loop of dispatch_lost_tasks: the task goes to a worker, or
\* back to the end of the list because the command queue is full.
DispatchLost ==
  /\ Phase("lost")
  /\ lost # <<>>
  /\ \E k \in 0 .. NumWorkers - 1 :
       \/ Dispatch(k, Oldest(lost)) /\ lost' = Tail(lost)
       \/ DispatchFails(k) /\ lost' = Requeue(Tail(lost), Oldest(lost)) /\ UNCHANGED slot
  /\ UNCHANGED <<mpc, cur, batch, spawned, activeCount, pendingBatches, emitted,
                 poolVars, retQ, cmdPipe, ipcAndWorkers>>

\* MUTANT: the loop goes on until the list is empty, idle workers or not.
LostEndWhenEmpty ==
  /\ Phase("lost")
  /\ lost = <<>>
  /\ mpc' = "check"
  /\ UNCHANGED <<cur, batch, slot, spawned, activeCount, pendingTasks, pendingBatches,
                 lost, nextDispatch, emitted, poolVars, cmdQ, retQ, cmdPipe, ipcAndWorkers>>

\* The list is empty, no worker is alive, or none is idle: then the task popped
\* goes to the end of the list.
LostEnd ==
  /\ Phase("lost")
  /\ lost = <<>> \/ NoneIdle
  /\ mpc' = "check"
  /\ lost' = IF lost # <<>> /\ \E s \in Slots : slot[s].alive
             THEN Requeue(Tail(lost), Oldest(lost)) ELSE lost
  /\ UNCHANGED <<cur, batch, slot, spawned, activeCount, pendingTasks, pendingBatches,
                 nextDispatch, emitted, poolVars, cmdQ, retQ, cmdPipe, ipcAndWorkers>>

\* MUTANT: the thread pool is forgotten.
AllTasksDone == pendingTasks = 0

AllDone == pendingTasks = 0 /\ pendingBatches = 0

\* wait_for_ipc_messages: a signal ends the wait or, when it was sent before the
\* wait began, the timeout of 100 ms.
WaitForMessages == mpc' = "recv"

NextTurn ==
  /\ Phase("check")
  /\ ~AllDone
  /\ WaitForMessages
  /\ UNCHANGED <<cur, batch, slot, spawned, activeCount, pendingTasks, pendingBatches,
                 lost, nextDispatch, emitted, poolVars, cmdQ, retQ, cmdPipe, ipcAndWorkers>>

\* worker_pool_stop_all writes STOP to the workers' pipes, best effort, and
\* stop_all_ipc_threads tells the IPC threads.
StopAll ==
  /\ Phase("check")
  /\ AllDone
  /\ mpc' = "stopping"
  /\ cmdPipe' = [w \in Workers |->
       IF slot[w[1]].pid = w[2] /\ w \notin shut /\ Len(cmdPipe[w]) < PipeCap
       THEN Append(cmdPipe[w], Msg("STOP", None)) ELSE cmdPipe[w]]
  /\ cmdQ' = [s \in Slots |-> SendStop(cmdQ[s])]
  /\ UNCHANGED <<cur, batch, slot, spawned, activeCount, pendingTasks, pendingBatches,
                 lost, nextDispatch, emitted, poolVars, retQ, ipcAndWorkers>>

\* ipc_thread_stop and ipc_thread_ctx_destroy.
Stopped(thread) == [thread EXCEPT !.running = FALSE]
Destroyed(thread) == [Stopped(thread) EXCEPT !.conn = NoPid]

\* msg_queue_destroy frees what nobody received.
QueuesDestroyed ==
  /\ cmdQ' = [s \in Slots |-> <<>>]
  /\ retQ' = [s \in Slots |-> <<>>]

\* destroy_ipc_threads joins every thread, closes its fds and frees its queues.
Join ==
  /\ mpc = "stopping"
  /\ mpc' = "joined"
  /\ ipc' = [s \in Slots |-> Destroyed(ipc[s])]
  /\ shut' = Workers
  /\ QueuesDestroyed
  /\ UNCHANGED <<cur, batch, slot, spawned, activeCount, pendingTasks, pendingBatches,
                 lost, nextDispatch, emitted, poolVars, workerVars, faults>>

\* fp_set_destroy
SetDestroyed == visited' = {}

\* app_context_destroy, when main has finished the progress files: SIGKILL for
\* the process of every live slot (worker_pool_destroy), and the lists are freed.
DestroyWorkers ==
  LET killed == {w \in Workers : slot[w[1]].alive /\ slot[w[1]].pid = w[2]} IN
  /\ mpc = "joined"
  /\ mpc' = "done"
  /\ DieAll(killed)
  /\ SetDestroyed /\ LostDestroyed
  /\ UNCHANGED <<cur, batch, slot, spawned, activeCount, pendingTasks, pendingBatches,
                 nextDispatch, emitted, poolQ, working, completed, cmdQ, retQ, ipcVars,
                 cmdPipe, faults>>

-----------------------------------------------------------------------------
Recv ==
  \/ RecvBatch \/ RecvReady \/ RecvFinish \/ RecvDead
  \/ RecvDevTimeout \/ RecvExit \/ RecvDrop \/ RecvEnd

Process ==
  \/ PollBatch \/ PollEnd \/ BatchEnd \/ SkipEntry
  \/ \E p \in Paths : FileEntry(p) \/ DirEntry(p) \/ DirEntryWaits(p)

MainStep ==
  \/ Recv \/ Process
  \/ Respawn \/ ReplaceNone \/ DispatchLost \/ LostEnd
  \/ NextTurn \/ StopAll \/ Join \/ DestroyWorkers

PoolStep == PoolTake \/ \E i \in 1 .. PoolThreads : PoolComplete(i)
=============================================================================
