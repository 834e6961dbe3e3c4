----------------------------- MODULE IpcThread ------------------------------
(***************************************************************************)
(* The IPC thread of a slot: handle_cmd, the two pipe readers and the      *)
(* handling of a dead worker (src/ipc/ipc_thread.c,                        *)
(* ipc_message_handler.c, ipc_worker_mgmt.c).  ipc[s].conn is the worker   *)
(* whose pipes the thread holds, NoPid when its fds and its pid are -1;    *)
(* waiting_replace is only read together with that pid and is left out.    *)
(* How the loop waits is the subject of MsgQueue: here a message of the    *)
(* command queue or of a pipe is handled at any moment.                    *)
(***************************************************************************)
EXTENDS Bus

\* A thread as ipc_thread_ctx_create leaves it.  hand is the SCAN between the
\* write that answers EAGAIN and its push-back.
NewIpc == [conn |-> NoPid, running |-> TRUE, eagain |-> 0, hand |-> None]

Running(s) == ipc[s].running /\ ipc[s].hand = None
Connected(s) == ipc[s].conn # NoPid

\* The worker the thread of slot s is connected to.
Peer(s) == <<s, ipc[s].conn>>

Command(s, t) == Running(s) /\ HeadIs(cmdQ[s], t)

\* msg_queue_recv took the command.
Taken(s) == cmdQ' = [cmdQ EXCEPT ![s] = Tail(@)]

\* send_return: a message that finds the queue full is gone.
Return(s, m) == retQ' = [retQ EXCEPT ![s] = Send(@, m)]

ClosePeer(s) == shut' = IF Connected(s) THEN shut \cup {Peer(s)} ELSE shut

\* worker_mark_dead.
Disconnect(s) ==
  /\ ClosePeer(s)
  /\ ipc' = [ipc EXCEPT ![s].conn = NoPid]

MarkDead(s) == Disconnect(s) /\ Return(s, Msg("DEAD", None))

-----------------------------------------------------------------------------
(* handle_cmd *)

Replace(s) ==
  /\ Command(s, "REPLACE")
  /\ Taken(s)
  /\ ClosePeer(s)
  /\ ipc' = [ipc EXCEPT ![s].conn = Head(cmdQ[s]).arg, ![s].eagain = 0]
  /\ UNCHANGED <<masterVars, poolVars, retQ, workerVars, faults>>

\* Between a death and the REPLACE the path goes back to the master.
DropScan(s) ==
  /\ Command(s, "SCAN") /\ ~Connected(s)
  /\ Taken(s)
  /\ Return(s, Msg("DROP", Head(cmdQ[s]).arg))
  /\ UNCHANGED <<masterVars, poolVars, ipcVars, workerVars, faults>>

\* fd_cmd has a reader: the worker, or the master's own fd_cmd_rd, which
\* cleanup_dead_worker_slot closes.
HasReader(s) == worker[Peer(s)].up \/ slot[s].pid = ipc[s].conn

PipeFull(s) == Len(cmdPipe[Peer(s)]) >= PipeCap

ForwardScan(s) ==
  /\ Command(s, "SCAN") /\ Connected(s) /\ HasReader(s)
  /\ ~PipeFull(s)
  /\ Taken(s)
  /\ cmdPipe' = [cmdPipe EXCEPT ![Peer(s)] = Append(@, Head(cmdQ[s]))]
  /\ ipc' = [ipc EXCEPT ![s].eagain = 0]
  /\ UNCHANGED <<masterVars, poolVars, retQ, shut, worker, dataPipe, ctrlPipe, faults>>

\* EAGAIN: the command goes to the back of its own queue, or is dropped if the
\* master filled the queue meanwhile.
RetryScan(s) ==
  /\ Command(s, "SCAN") /\ Connected(s) /\ HasReader(s)
  /\ PipeFull(s) /\ ipc[s].eagain < EagainMax
  /\ Taken(s)
  /\ ipc' = [ipc EXCEPT ![s].eagain = @ + 1, ![s].hand = Head(cmdQ[s]).arg]
  /\ UNCHANGED <<masterVars, poolVars, retQ, shut, workerVars, faults>>

PushBack(s) ==
  /\ ipc[s].running /\ ipc[s].hand # None
  /\ cmdQ' = [cmdQ EXCEPT ![s] = Send(@, Msg("SCAN", ipc[s].hand))]
  /\ ipc' = [ipc EXCEPT ![s].hand = None]
  /\ UNCHANGED <<masterVars, poolVars, retQ, shut, workerVars, faults>>

\* EAGAIN once too often: the worker counts as dead and the path is dropped.
GiveUpScan(s) ==
  /\ Command(s, "SCAN") /\ Connected(s) /\ HasReader(s)
  /\ PipeFull(s) /\ ipc[s].eagain >= EagainMax
  /\ Taken(s)
  /\ ClosePeer(s)
  /\ ipc' = [ipc EXCEPT ![s].conn = NoPid, ![s].eagain = 0]
  /\ Return(s, Msg("DEAD", None))
  /\ UNCHANGED <<masterVars, poolVars, workerVars, faults>>

\* The last reader of fd_cmd is gone: nobody ignores SIGPIPE, the write ends
\* the master process and every pipe end it holds.
BrokenPipe(s) ==
  /\ Command(s, "SCAN") /\ Connected(s) /\ ~HasReader(s)
  /\ mpc' = "killed"
  /\ ipc' = [t \in Slots |-> [ipc[t] EXCEPT !.running = FALSE, !.conn = NoPid]]
  /\ shut' = Workers
  /\ UNCHANGED <<cur, batch, slot, spawned, activeCount, pendingTasks,
                 pendingBatches, lost, nextDispatch, emitted,
                 poolVars, cmdQ, retQ, workerVars, faults>>

Stop(s) ==
  /\ Command(s, "STOP")
  /\ Taken(s)
  /\ ipc' = [ipc EXCEPT ![s].running = FALSE]
  /\ UNCHANGED <<masterVars, poolVars, retQ, shut, workerVars, faults>>

-----------------------------------------------------------------------------
(* The pipe readers: poll shows no HUP, so the process is up. *)

Readable(s) == Running(s) /\ Connected(s) /\ worker[Peer(s)].up

\* read_data_message
ReadData(s) ==
  /\ Readable(s)
  /\ dataPipe[Peer(s)] # <<>>
  /\ dataPipe' = [dataPipe EXCEPT ![Peer(s)] = Tail(@)]
  /\ Return(s, Head(dataPipe[Peer(s)]))
  /\ UNCHANGED <<masterVars, poolVars, cmdQ, ipcVars, worker, cmdPipe, ctrlPipe, faults>>

\* read_ctrl_message: READY, FINISH and DEV_TIMEOUT are passed on...
ReadCtrl(s) ==
  /\ Readable(s)
  /\ ctrlPipe[Peer(s)] # <<>> /\ ~HeadIs(ctrlPipe[Peer(s)], "EXIT")
  /\ ctrlPipe' = [ctrlPipe EXCEPT ![Peer(s)] = Tail(@)]
  /\ Return(s, Head(ctrlPipe[Peer(s)]))
  /\ UNCHANGED <<masterVars, poolVars, cmdQ, ipcVars, worker, cmdPipe, dataPipe, faults>>

\* ...and an EXIT also closes the pipes.
ReadExit(s) ==
  /\ Readable(s)
  /\ HeadIs(ctrlPipe[Peer(s)], "EXIT")
  /\ ctrlPipe' = [ctrlPipe EXCEPT ![Peer(s)] = Tail(@)]
  /\ Return(s, Head(ctrlPipe[Peer(s)]))
  /\ Disconnect(s)
  /\ UNCHANGED <<masterVars, poolVars, cmdQ, worker, cmdPipe, dataPipe, faults>>

\* HUP on a pipe, which comes before the data still in it.
HangUp(s) ==
  /\ Running(s) /\ Connected(s) /\ ~worker[Peer(s)].up
  /\ MarkDead(s)
  /\ UNCHANGED <<masterVars, poolVars, cmdQ, workerVars, faults>>

\* worker_timeout_kill: SIGKILL.
KillPeer(s) == Die(Peer(s)) /\ MarkDead(s)

\* No heartbeat for 30 s, or 60 s after the start.
TimeoutKill(s) ==
  /\ Fault("silence")
  /\ Readable(s)
  /\ KillPeer(s)
  /\ UNCHANGED <<masterVars, poolVars, cmdQ, cmdPipe>>

-----------------------------------------------------------------------------
HandleCmd(s) ==
  \/ Replace(s) \/ DropScan(s) \/ ForwardScan(s) \/ RetryScan(s)
  \/ PushBack(s) \/ GiveUpScan(s) \/ BrokenPipe(s) \/ Stop(s)

IpcStep(s) ==
  HandleCmd(s) \/ ReadData(s) \/ ReadCtrl(s) \/ ReadExit(s) \/ HangUp(s)
=============================================================================
